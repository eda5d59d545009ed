--------------------------- MODULE SchedulesProofs ---------------------------
(***************************************************************************)
(* Scheduled firings, for any schedules, sweeping processes and bounds: a  *)
(* lease keeps a schedule with one sweep, the count a stop is decided from *)
(* stays between the failures since the last edit and those in a row, and  *)
(* no firing undoes a stop.                                                *)
(***************************************************************************)
EXTENDS Schedules, TLAPS, FiniteSetTheorems

Rows == [life : {"absent", "there", "deleted"}, enabled : BOOLEAN, due : Dues, failures : Nat]
Sweeps == [stage : Stages, batch : SUBSET Schedules, at : SUBSET Schedules,
           seen : [Schedules -> Nat]]

AtWork == {"firing", "failed"}

(* What a sweep's local state has in hand.                                  *)
Keeps(local, s) == s \in local.batch \/ (s \in local.at /\ local.stage \in AtWork)

(* A failure count as it should be: no less than the failures since the     *)
(* last edit, no more than those in a row, exact unless it is muddled.      *)
Fair(s, count) ==
    /\ failed[s] <= count
    /\ count <= inRow[s]
    /\ s \notin muddled => count = failed[s]

FairAfter(s, count) ==
    /\ failed'[s] <= count
    /\ count <= inRow'[s]
    /\ s \notin muddled' => count = failed'[s]

(* The lease at work: a schedule in hand is in one sweep's hand and is not  *)
(* due to another; what its sweep has read is as fair a count as what the   *)
(* row now says.                                                            *)
Safe(s) ==
    /\ \A w, x \in Sweepers : InHand(w, s) /\ InHand(x, s) => w = x
    /\ \A w \in Sweepers : InHand(w, s) => row[s].due # "now"
    /\ \A w \in Sweepers : InHand(w, s) /\ Exists(s) => Fair(s, sweep[w].seen[s])
    /\ Exists(s) => Fair(s, row[s].failures)

Leases == \A s \in Schedules \ lapsed : Safe(s)

(* Nothing is known of a schedule before it is created, and only one that   *)
(* is there can be enabled.                                                 *)
Known ==
    \A s \in Schedules :
       /\ row[s].life = "absent" =>
             failed[s] = 0 /\ \A w \in Sweepers : s \notin sweep[w].batch /\ s \notin sweep[w].at
       /\ ~ Exists(s) => row[s].enabled = FALSE

Apart == \A w \in Sweepers : \A s \in sweep[w].batch : s \notin sweep[w].at

IInv == TypeOK /\ Leases /\ Known /\ Apart

-------------------------------------------------------------------------------
LEMMA Kinds ==
    ASSUME TypeOK
    PROVE  /\ row \in [Schedules -> Rows]
           /\ sweep \in [Sweepers -> Sweeps]
           /\ failed \in [Schedules -> Nat] /\ inRow \in [Schedules -> Nat]
           /\ said \subseteq Schedules /\ lapsed \subseteq Schedules /\ muddled \subseteq Schedules
           /\ edits \in 0..MaxDisturbances /\ mishaps \in 0..MaxDisturbances
BY DEF TypeOK, Rows, Sweeps

(* A bounded disturbance stays within its bound.                            *)
LEMMA Disturbed ==
    ASSUME TypeOK
    PROVE  /\ Mishap => mishaps' \in 0..MaxDisturbances
           /\ Edited => edits' \in 0..MaxDisturbances
BY Kinds, SchedulesAssumption DEF Mishap, Edited

LEMMA InHandIsKept ==
    ASSUME NEW w \in Sweepers, NEW s \in Schedules
    PROVE  InHand(w, s) <=> Keeps(sweep[w], s)
BY DEF InHand, Keeps, AtWork

(* A sweep goes on with nothing it had not.                                 *)
LEMMA ASweepMoves ==
    ASSUME IInv, NEW w \in Sweepers, NEW local \in Sweeps,
           sweep' = [sweep EXCEPT ![w] = local],
           UNCHANGED <<row, past>>, said' \subseteq Schedules,
           edits' \in 0..MaxDisturbances, mishaps' \in 0..MaxDisturbances,
           local.stage \notin {"idle", "next"} <=> \E s \in Schedules : local.at = {s},
           \A s \in local.batch : s \notin local.at,
           \A s \in Schedules : s \in local.batch \/ s \in local.at =>
              s \in sweep[w].batch \/ s \in sweep[w].at,
           \A s \in Schedules : Keeps(local, s) =>
              Keeps(sweep[w], s) /\ local.seen[s] = sweep[w].seen[s]
    PROVE  IInv'
<1>1. /\ sweep' \in [Sweepers -> Sweeps] /\ sweep'[w] = local
      /\ \A x \in Sweepers : x # w => sweep'[x] = sweep[x]
  BY Kinds DEF IInv
<1>2. TypeOK'
  <2>1. \A x \in Sweepers :
           sweep'[x].stage \notin {"idle", "next"} <=> \E s \in Schedules : sweep'[x].at = {s}
    BY <1>1 DEF IInv, TypeOK
  <2> QED BY <1>1, <2>1 DEF IInv, TypeOK, Sweeps, past
<1>3. \A x \in Sweepers, s \in Schedules : InHand(x, s)' =>
         InHand(x, s) /\ sweep'[x].seen[s] = sweep[x].seen[s]
  BY <1>1 DEF InHand, Keeps, AtWork
<1>4. Leases'
  <2> SUFFICES ASSUME NEW s \in Schedules, s \notin lapsed PROVE Safe(s)'
    BY DEF Leases, past
  <2>1. Safe(s)
    BY DEF IInv, Leases
  <2> QED BY <1>3, <2>1 DEF Safe, Exists, Fair, past
<1>5. Known'
  <2>1. \A x \in Sweepers, s \in Schedules : s \in sweep'[x].batch \/ s \in sweep'[x].at =>
           s \in sweep[x].batch \/ s \in sweep[x].at
    BY <1>1
  <2> QED BY <2>1 DEF IInv, Known, Exists, past
<1>6. Apart'
  BY <1>1 DEF IInv, Apart
<1> QED BY <1>2, <1>4, <1>5, <1>6 DEF IInv

(* A row is written under whatever sweeps are under way.                    *)
LEMMA ARowMoves ==
    ASSUME IInv, NEW s \in Schedules, NEW r \in Rows, row' = [row EXCEPT ![s] = r],
           UNCHANGED <<sweep, inRow>>, failed' \in [Schedules -> Nat],
           lapsed' \subseteq Schedules, muddled' \subseteq Schedules, said' \subseteq Schedules,
           \A t \in Schedules : t # s => /\ failed'[t] = failed[t]
                                         /\ t \in lapsed' <=> t \in lapsed
                                         /\ t \in muddled' <=> t \in muddled,
           edits' \in 0..MaxDisturbances, mishaps' \in 0..MaxDisturbances,
           r.life = "absent" => row[s].life = "absent" /\ failed'[s] = failed[s],
           r.life # "there" => r.enabled = FALSE,
           s \notin lapsed' =>
              /\ r.life = "there" => FairAfter(s, r.failures)
              /\ s \notin lapsed \/ \A w \in Sweepers : ~ InHand(w, s)
              /\ \A w \in Sweepers : InHand(w, s) =>
                    r.due # "now" /\ (r.life = "there" => FairAfter(s, sweep[w].seen[s]))
    PROVE  IInv'
<1>0. sweep' = sweep /\ inRow' = inRow
  OBVIOUS
<1>1. /\ row' \in [Schedules -> Rows] /\ row'[s] = r
      /\ \A t \in Schedules : t # s => row'[t] = row[t]
  BY Kinds DEF IInv
<1>2. TypeOK'
  BY <1>0, <1>1 DEF IInv, TypeOK, Rows
<1>3. \A w \in Sweepers, t \in Schedules : InHand(w, t)' <=> InHand(w, t)
  BY <1>0 DEF InHand
<1>4. Leases'
  <2> SUFFICES ASSUME NEW t \in Schedules, t \notin lapsed' PROVE Safe(t)'
    BY DEF Leases
  <2>1. t \notin lapsed => Safe(t)
    BY DEF IInv, Leases
  <2>2. CASE t # s
    <3>1. /\ row'[t] = row[t] /\ failed'[t] = failed[t] /\ t \notin lapsed
          /\ t \in muddled' <=> t \in muddled
      BY <1>1, <2>2
    <3> QED BY <1>0, <1>3, <2>1, <3>1 DEF Safe, Exists, Fair
  <2>3. CASE t = s
    <3>1. \A w, x \in Sweepers : InHand(w, s)' /\ InHand(x, s)' => w = x
      BY <1>3, <2>1, <2>3 DEF Safe
    <3>2. /\ \A w \in Sweepers : InHand(w, s)' => row'[s].due # "now"
          /\ \A w \in Sweepers : InHand(w, s)' /\ Exists(s)' => FairAfter(s, sweep[w].seen[s])
          /\ Exists(s)' => FairAfter(s, row'[s].failures)
      BY <1>0, <1>1, <1>3, <2>3 DEF Exists
    <3> QED BY <2>3, <1>0, <3>1, <3>2 DEF Safe, Fair, FairAfter
  <2> QED BY <2>2, <2>3
<1>5. Known'
  BY <1>0, <1>1 DEF IInv, Known, Exists
<1>6. Apart'
  BY <1>0 DEF IInv, Apart
<1> QED BY <1>2, <1>4, <1>5, <1>6 DEF IInv

(* A firing is recorded: its sweep lets the schedule go.                    *)
LEMMA AFiringIsRecorded ==
    ASSUME IInv, NEW w \in Sweepers, NEW s \in sweep[w].at, sweep[w].stage \in AtWork,
           NEW local \in Sweeps, sweep' = [sweep EXCEPT ![w] = local],
           local.batch = sweep[w].batch, local.at \subseteq sweep[w].at,
           local.seen = sweep[w].seen, local.stage \notin AtWork,
           local.stage \notin {"idle", "next"} <=> \E t \in Schedules : local.at = {t},
           NEW r \in Rows, row' = [row EXCEPT ![s] = r],
           NEW count \in Nat, failed' = [failed EXCEPT ![s] = count],
           NEW total \in Nat, inRow' = [inRow EXCEPT ![s] = total],
           lapsed' \in {lapsed, lapsed \ {s}}, muddled' \in {muddled, muddled \ {s}},
           r.life = row[s].life, r.life # "there" => r.enabled = FALSE,
           s \notin lapsed' =>
              /\ s \notin lapsed \/ \A x \in Sweepers : InHand(x, s) => x = w
              /\ r.life = "there" => FairAfter(s, r.failures),
           UNCHANGED <<said, edits, mishaps>>
    PROVE  IInv'
<1>1. s \in Schedules /\ sweep[w].at = {s} /\ InHand(w, s)
  <2>1. \E t \in Schedules : sweep[w].at = {t}
    BY DEF IInv, TypeOK, AtWork
  <2> QED BY <2>1 DEF InHand, AtWork
<1>2. /\ row' \in [Schedules -> Rows] /\ row'[s] = r
      /\ \A t \in Schedules : t # s => row'[t] = row[t]
  BY <1>1, Kinds DEF IInv
<1>3. /\ sweep' \in [Sweepers -> Sweeps] /\ sweep'[w] = local
      /\ \A x \in Sweepers : x # w => sweep'[x] = sweep[x]
  BY Kinds DEF IInv
<1>4. /\ failed' \in [Schedules -> Nat] /\ failed'[s] = count
      /\ inRow' \in [Schedules -> Nat] /\ inRow'[s] = total
      /\ lapsed' \subseteq Schedules /\ muddled' \subseteq Schedules
      /\ \A t \in Schedules : t # s => /\ failed'[t] = failed[t] /\ inRow'[t] = inRow[t]
                                       /\ t \in lapsed' <=> t \in lapsed
                                       /\ t \in muddled' <=> t \in muddled
  BY <1>1, Kinds DEF IInv
<1>5. TypeOK'
  <2>1. \A x \in Sweepers :
           sweep'[x].stage \notin {"idle", "next"} <=> \E t \in Schedules : sweep'[x].at = {t}
    BY <1>3 DEF IInv, TypeOK
  <2> QED BY <1>2, <1>3, <1>4, <2>1 DEF IInv, TypeOK, Rows, Sweeps
<1>6. \A x \in Sweepers, t \in Schedules : InHand(x, t)' =>
         InHand(x, t) /\ sweep'[x].seen = sweep[x].seen
  BY <1>3 DEF InHand, AtWork
<1>7. ~ InHand(w, s)'
  BY <1>1, <1>3 DEF IInv, Apart, InHand, AtWork
<1>8. Leases'
  <2> SUFFICES ASSUME NEW t \in Schedules, t \notin lapsed' PROVE Safe(t)'
    BY DEF Leases
  <2>1. t \notin lapsed => Safe(t)
    BY DEF IInv, Leases
  <2>2. CASE t # s
    BY <1>2, <1>4, <1>6, <2>1, <2>2 DEF Safe, Exists, Fair
  <2>3. CASE t = s
    <3>1. \A x \in Sweepers : ~ InHand(x, s)'
      BY <1>1, <1>6, <1>7, <2>1, <2>3 DEF Safe
    <3>2. Exists(s)' => FairAfter(s, row'[s].failures)
      BY <1>2, <2>3 DEF Exists
    <3> QED BY <2>3, <3>1, <3>2 DEF Safe, Fair, FairAfter
  <2> QED BY <2>2, <2>3
<1>9. Known'
  <2>1. row[s].life # "absent"
    BY <1>1 DEF IInv, Known
  <2>2. \A x \in Sweepers, t \in Schedules :
           /\ t \in sweep'[x].batch => t \in sweep[x].batch
           /\ t \in sweep'[x].at => t \in sweep[x].at
    BY <1>3
  <2> QED BY <1>1, <1>2, <1>4, <2>1, <2>2 DEF IInv, Known, Exists
<1>10. Apart'
  BY <1>3 DEF IInv, Apart
<1> QED BY <1>5, <1>8, <1>9, <1>10 DEF IInv

-------------------------------------------------------------------------------
(* Owners and the clock.                                                    *)
LEMMA CreateKeepsInv ==
    ASSUME IInv, NEW s \in Schedules, createSchedule(s)
    PROVE  IInv'
<1>1. PICK on \in BOOLEAN :
         row' = [row EXCEPT ![s] = [life |-> "there", enabled |-> on, due |-> "later", failures |-> 0]]
  BY DEF createSchedule
<1> DEFINE r == [life |-> "there", enabled |-> on, due |-> "later", failures |-> 0]
<1>2. /\ r \in Rows /\ r.life = "there" /\ r.failures = 0 /\ r.due = "later"
      /\ row' = [row EXCEPT ![s] = r]
  BY <1>1 DEF Rows, Dues
<1> HIDE DEF r
<1>3. UNCHANGED <<sweep, said, past, edits, mishaps>> /\ row[s].life = "absent"
  BY DEF createSchedule
<1>4. /\ failed[s] = 0 /\ inRow[s] \in Nat
      /\ \A w \in Sweepers : ~ InHand(w, s)
  BY <1>3, Kinds DEF IInv, Known, InHand
<1>5. FairAfter(s, r.failures)
  BY <1>2, <1>3, <1>4 DEF FairAfter, past
<1>6. /\ UNCHANGED <<sweep, inRow>> /\ failed' \in [Schedules -> Nat]
      /\ lapsed' = lapsed /\ muddled' = muddled /\ failed' = failed
      /\ lapsed \subseteq Schedules /\ muddled \subseteq Schedules /\ said' \subseteq Schedules
      /\ edits' \in 0..MaxDisturbances /\ mishaps' \in 0..MaxDisturbances
  BY <1>3, Kinds DEF IInv, past
<1> QED BY <1>2, <1>3, <1>4, <1>5, <1>6, ARowMoves

LEMMA UpdateKeepsInv ==
    ASSUME IInv, NEW s \in Schedules, updateSchedule(s)
    PROVE  IInv'
<1>1. PICK on \in BOOLEAN :
         row' = [row EXCEPT ![s] = [@ EXCEPT !.enabled = on, !.due = "later", !.failures = 0]]
  BY DEF updateSchedule
<1>2. row[s] \in Rows /\ row[s].life = "there"
  BY Kinds DEF IInv, updateSchedule, Exists
<1> DEFINE r == [row[s] EXCEPT !.enabled = on, !.due = "later", !.failures = 0]
<1>3. r \in Rows /\ r.life = "there" /\ r.failures = 0 /\ r.due = "later"
  BY <1>2 DEF Rows, Dues
<1>4. row' = [row EXCEPT ![s] = r]
  BY <1>1, Kinds DEF IInv
<1> HIDE DEF r
<1>5. /\ failed' = [failed EXCEPT ![s] = 0] /\ said' = said \ {s}
      /\ UNCHANGED <<sweep, inRow, mishaps>> /\ Edited
      /\ \/ Holders(s) = {} /\ Settled(s)
         \/ muddled' = muddled \union {s} /\ UNCHANGED lapsed
  BY Zenon DEF updateSchedule
<1>6. /\ failed' \in [Schedules -> Nat] /\ failed'[s] = 0
      /\ \A t \in Schedules : t # s => /\ failed'[t] = failed[t]
                                       /\ t \in lapsed' <=> t \in lapsed
                                       /\ t \in muddled' <=> t \in muddled
      /\ lapsed' \subseteq Schedules /\ muddled' \subseteq Schedules
  BY <1>5, Kinds DEF IInv, Settled
<1>7. said' \subseteq Schedules /\ edits' \in 0..MaxDisturbances /\ mishaps' \in 0..MaxDisturbances
  BY <1>5, Kinds, Disturbed DEF IInv
<1>8. FairAfter(s, r.failures)
  BY <1>3, <1>5, <1>6, Kinds DEF IInv, FairAfter
<1>9. ASSUME s \notin lapsed', NEW w \in Sweepers, InHand(w, s)
      PROVE  s \notin lapsed /\ r.due # "now" /\ FairAfter(s, sweep[w].seen[s])
  <2>1. muddled' = muddled \union {s} /\ lapsed' = lapsed
    BY <1>5, <1>9 DEF Holders
  <2>2. Fair(s, sweep[w].seen[s])
    BY <1>2, <1>9, <2>1 DEF IInv, Leases, Safe, Exists
  <2>3. sweep[w].seen[s] \in Nat
    BY <1>9, Kinds DEF IInv, Sweeps
  <2>4. FairAfter(s, sweep[w].seen[s])
    BY <1>5, <1>6, <2>1, <2>2, <2>3, Kinds DEF IInv, Fair, FairAfter
  <2> QED BY <1>3, <1>9, <2>1, <2>4
<1> QED BY <1>3, <1>4, <1>5, <1>6, <1>7, <1>8, <1>9, ARowMoves

LEMMA RemoveKeepsInv ==
    ASSUME IInv, NEW s \in Schedules, removeSchedule(s)
    PROVE  IInv'
<1> DEFINE r == [NoRow EXCEPT !.life = "deleted"]
<1>1. r \in Rows /\ r.life = "deleted" /\ r.enabled = FALSE /\ r.due = "never"
  BY DEF NoRow, Rows, Dues
<1>2. row' = [row EXCEPT ![s] = r]
  BY DEF removeSchedule
<1> HIDE DEF r
<1>3. UNCHANGED <<sweep, said, past, mishaps>> /\ Edited
  BY DEF removeSchedule
<1>4. edits' \in 0..MaxDisturbances /\ mishaps' \in 0..MaxDisturbances
  BY <1>3, Kinds, Disturbed DEF IInv
<1>5. /\ UNCHANGED <<sweep, inRow>> /\ failed' \in [Schedules -> Nat]
      /\ lapsed' = lapsed /\ muddled' = muddled /\ failed' = failed /\ inRow' = inRow
      /\ lapsed \subseteq Schedules /\ muddled \subseteq Schedules /\ said' \subseteq Schedules
  BY <1>3, Kinds DEF IInv, past
<1>6. s \notin lapsed' => s \notin lapsed
  BY <1>5
<1> QED BY <1>1, <1>2, <1>4, <1>5, <1>6, ARowMoves

LEMMA TimeKeepsInv ==
    ASSUME IInv, NEW s \in Schedules, TimePasses(s)
    PROVE  IInv'
<1> DEFINE r == [row[s] EXCEPT !.due = "now"]
<1>1. row[s] \in Rows
  BY Kinds DEF IInv
<1>2. /\ r \in Rows /\ r.life = row[s].life /\ r.enabled = row[s].enabled
      /\ r.failures = row[s].failures /\ r.due = "now"
  BY <1>1 DEF Rows, Dues
<1>3. row' = [row EXCEPT ![s] = r]
  BY <1>1 DEF TimePasses, Rows
<1> HIDE DEF r
<1>4. /\ UNCHANGED <<sweep, said, failed, inRow, muddled, edits>>
      /\ \/ Holders(s) = {} /\ UNCHANGED <<lapsed, mishaps>>
         \/ Mishap /\ lapsed' = lapsed \union {s}
  BY DEF TimePasses
<1>5. /\ lapsed' \subseteq Schedules /\ \A t \in Schedules : t # s => (t \in lapsed' <=> t \in lapsed)
      /\ edits' \in 0..MaxDisturbances /\ mishaps' \in 0..MaxDisturbances
  BY <1>4, Kinds, Disturbed DEF IInv
<1>6. s \notin lapsed' => /\ s \notin lapsed
                          /\ \A w \in Sweepers : ~ InHand(w, s)
  BY <1>4 DEF Holders
<1>7. s \notin lapsed' => (r.life = "there" => FairAfter(s, r.failures))
  BY <1>2, <1>4, <1>6 DEF IInv, Leases, Safe, Exists, Fair, FairAfter
<1>8. r.life # "there" => r.enabled = FALSE
  BY <1>2 DEF IInv, Known, Exists
<1>9. UNCHANGED <<sweep, inRow>> /\ failed' = failed /\ failed \in [Schedules -> Nat]
      /\ muddled' = muddled /\ muddled \subseteq Schedules /\ said' \subseteq Schedules
  BY <1>4, Kinds DEF IInv
<1> QED BY <1>2, <1>3, <1>5, <1>6, <1>7, <1>8, <1>9, ARowMoves

-------------------------------------------------------------------------------
(* A sweep.  What it claims was due, so that no other sweep had it.         *)
LEMMA ClaimKeepsInv ==
    ASSUME IInv, NEW w \in Sweepers, Claim(w)
    PROVE  IInv'
<1>1. PICK B \in SUBSET Due :
         /\ row' = [s \in Schedules |-> IF s \in B THEN Leased(row[s]) ELSE row[s]]
         /\ sweep' = [sweep EXCEPT ![w] =
               [AtRest EXCEPT !.stage = "next", !.batch = B,
                              !.seen = [s \in Schedules |-> IF s \in B THEN row[s].failures ELSE 0]]]
  BY DEF Claim
<1>2. UNCHANGED <<said, past, edits, mishaps>> /\ sweep[w].stage = "idle"
  BY DEF Claim
<1>3. /\ row \in [Schedules -> Rows] /\ sweep \in [Sweepers -> Sweeps]
      /\ B \subseteq Schedules /\ \A s \in B : row[s].due = "now" /\ row[s].enabled
  BY Kinds DEF IInv, Due
<1> DEFINE local == [AtRest EXCEPT !.stage = "next", !.batch = B,
                        !.seen = [s \in Schedules |-> IF s \in B THEN row[s].failures ELSE 0]]
<1>4. /\ local \in Sweeps /\ local.stage = "next" /\ local.batch = B /\ local.at = {}
      /\ \A s \in B : local.seen[s] = row[s].failures
  <2>1. [s \in Schedules |-> IF s \in B THEN row[s].failures ELSE 0] \in [Schedules -> Nat]
    BY <1>3 DEF Rows
  <2> QED BY <1>3, <2>1 DEF AtRest, Sweeps, Stages
<1>5. sweep' = [sweep EXCEPT ![w] = local]
  BY <1>1
<1> HIDE DEF local
<1>6. /\ sweep' \in [Sweepers -> Sweeps] /\ sweep'[w] = local
      /\ \A x \in Sweepers : x # w => sweep'[x] = sweep[x]
  BY <1>3, <1>4, <1>5
<1>7. /\ row' \in [Schedules -> Rows]
      /\ \A s \in Schedules : /\ row'[s].life = row[s].life /\ row'[s].enabled = row[s].enabled
                              /\ row'[s].failures = row[s].failures
                              /\ s \in B => row'[s].due = "lease"
                              /\ s \notin B => row'[s] = row[s]
  <2>1. \A s \in Schedules : /\ Leased(row[s]) \in Rows /\ Leased(row[s]).life = row[s].life
                             /\ Leased(row[s]).enabled = row[s].enabled
                             /\ Leased(row[s]).failures = row[s].failures
                             /\ Leased(row[s]).due = "lease"
    BY <1>3 DEF Leased, Rows, Dues
  <2> QED BY <1>1, <1>3, <2>1
<1>8. TypeOK'
  <2>1. \A x \in Sweepers :
           sweep'[x].stage \notin {"idle", "next"} <=> \E s \in Schedules : sweep'[x].at = {s}
    <3>1. ~ \E s \in Schedules : sweep'[w].at = {s}
      BY <1>4, <1>6
    <3>2. sweep'[w].stage \in {"idle", "next"}
      BY <1>4, <1>6
    <3> QED BY <1>6, <3>1, <3>2 DEF IInv, TypeOK
  <2> QED BY <1>2, <1>6, <1>7, <2>1 DEF IInv, TypeOK, Rows, Sweeps, past
<1>9. \A s \in Schedules : /\ InHand(w, s)' <=> s \in B
                           /\ \A x \in Sweepers : x # w => (InHand(x, s)' <=> InHand(x, s))
  BY <1>4, <1>6 DEF InHand
<1>10. Leases'
  <2> SUFFICES ASSUME NEW s \in Schedules, s \notin lapsed PROVE Safe(s)'
    BY <1>2 DEF Leases, past
  <2>1. Safe(s)
    BY DEF IInv, Leases
  <2>2. CASE s \in B
    <3>1. \A x \in Sweepers : ~ InHand(x, s)
      BY <1>3, <2>1, <2>2 DEF Safe
    <3>2. \A x \in Sweepers : InHand(x, s)' => x = w
      BY <1>9, <3>1
    <3>3. sweep'[w].seen[s] = row[s].failures
      BY <1>4, <1>6, <2>2
    <3> QED BY <1>2, <1>7, <2>1, <2>2, <3>2, <3>3 DEF Safe, Exists, Fair, past
  <2>3. CASE s \notin B
    <3>1. \A x \in Sweepers : InHand(x, s)' => InHand(x, s) /\ sweep'[x] = sweep[x]
      BY <1>6, <1>9, <2>3
    <3> QED BY <1>2, <1>7, <2>1, <2>3, <3>1 DEF Safe, Exists, Fair, past
  <2> QED BY <2>2, <2>3
<1>11. Known'
  <2>1. \A s \in B : row[s].life = "there"
    BY <1>3 DEF IInv, Known, Exists
  <2>2. \A s \in Schedules : row[s].life = "absent" =>
           \A x \in Sweepers : s \notin sweep'[x].batch /\ s \notin sweep'[x].at
    BY <1>4, <1>6, <2>1 DEF IInv, Known
  <2>3. \A s \in Schedules : row[s].life # "there" => row'[s].enabled = FALSE
    BY <1>7 DEF IInv, Known, Exists
  <2> QED BY <1>2, <1>7, <2>2, <2>3 DEF IInv, Known, Exists, past
<1>12. Apart'
  BY <1>4, <1>6 DEF IInv, Apart
<1> QED BY <1>8, <1>10, <1>11, <1>12 DEF IInv

LEMMA RestIsASweep ==
    /\ AtRest \in Sweeps
    /\ AtRest.stage = "idle" /\ AtRest.batch = {} /\ AtRest.at = {}
BY DEF AtRest, Sweeps, Stages

LEMMA FireKeepsInv ==
    ASSUME IInv, NEW w \in Sweepers, Fire(w)
    PROVE  IInv'
<1>1. PICK s \in sweep[w].batch :
         sweep' = [sweep EXCEPT ![w] = [sweep[w] EXCEPT !.stage = "firing", !.at = {s},
                                                        !.batch = sweep[w].batch \ {s}]]
  BY Zenon DEF Fire
<1>2. sweep[w] \in Sweeps
  BY Kinds DEF IInv
<1>3. s \in Schedules
  BY <1>2 DEF Sweeps
<1> DEFINE local == [sweep[w] EXCEPT !.stage = "firing", !.at = {s}, !.batch = sweep[w].batch \ {s}]
<1>4. /\ local \in Sweeps /\ local.stage = "firing" /\ local.at = {s}
      /\ local.batch = sweep[w].batch \ {s} /\ local.seen = sweep[w].seen
  BY <1>2, <1>3 DEF Sweeps, Stages
<1>5. sweep' = [sweep EXCEPT ![w] = local]
  BY <1>1
<1> HIDE DEF local
<1>6. UNCHANGED <<row, said, past, edits, mishaps>>
  BY DEF Fire
<1> QED BY <1>3, <1>4, <1>5, <1>6, Kinds, ASweepMoves DEF IInv, Keeps, AtWork

LEMMA FiringFailsKeepsInv ==
    ASSUME IInv, NEW w \in Sweepers, FiringFails(w)
    PROVE  IInv'
<1>1. sweep[w] \in Sweeps /\ sweep[w].stage = "firing"
  BY Kinds DEF IInv, FiringFails
<1> DEFINE local == [sweep[w] EXCEPT !.stage = "failed"]
<1>2. /\ local \in Sweeps /\ local.stage = "failed" /\ local.at = sweep[w].at
      /\ local.batch = sweep[w].batch /\ local.seen = sweep[w].seen
  BY <1>1 DEF Sweeps, Stages
<1>3. sweep' = [sweep EXCEPT ![w] = local]
  BY <1>1 DEF FiringFails, Sweeps
<1> HIDE DEF local
<1>4. UNCHANGED <<row, said, past, edits, mishaps>>
  BY DEF FiringFails
<1>5. \E s \in Schedules : sweep[w].at = {s}
  BY <1>1 DEF IInv, TypeOK
<1>6. \A s \in local.batch : s \notin local.at
  BY <1>2 DEF IInv, Apart
<1> QED BY <1>1, <1>2, <1>3, <1>4, <1>5, <1>6, Kinds, ASweepMoves DEF IInv, Keeps, AtWork

(* The sweep goes on to its next schedule.                                  *)
LEMMA MovedOnIsASweep ==
    ASSUME TypeOK, NEW w \in Sweepers, sweep' = MovedOn(w)
    PROVE  \E local \in Sweeps :
              /\ sweep' = [sweep EXCEPT ![w] = local]
              /\ local.stage = "next" /\ local.at = {}
              /\ local.batch = sweep[w].batch /\ local.seen = sweep[w].seen
<1>1. sweep[w] \in Sweeps
  BY Kinds
<1> DEFINE local == [sweep[w] EXCEPT !.stage = "next", !.at = {}]
<1>2. /\ local \in Sweeps /\ local.stage = "next" /\ local.at = {}
      /\ local.batch = sweep[w].batch /\ local.seen = sweep[w].seen
  BY <1>1 DEF Sweeps, Stages
<1>3. sweep' = [sweep EXCEPT ![w] = local]
  BY <1>1 DEF MovedOn, Sweeps
<1> HIDE DEF local
<1> QED BY <1>2, <1>3

LEMMA AnnounceKeepsInv ==
    ASSUME IInv, NEW w \in Sweepers, AnnounceFailure(w)
    PROVE  IInv'
<1>1. PICK local \in Sweeps :
         /\ sweep' = [sweep EXCEPT ![w] = local]
         /\ local.stage = "next" /\ local.at = {}
         /\ local.batch = sweep[w].batch /\ local.seen = sweep[w].seen
  BY MovedOnIsASweep DEF IInv, AnnounceFailure
<1>2. /\ UNCHANGED <<row, past, edits>>
      /\ \/ said' = Announced(w) /\ UNCHANGED mishaps
         \/ Mishap /\ UNCHANGED said
  BY DEF AnnounceFailure
<1>3. said' \subseteq Schedules /\ mishaps' \in 0..MaxDisturbances
  BY <1>2, Kinds, Disturbed DEF IInv, Announced, Sweeps
<1> QED BY <1>1, <1>2, <1>3, Kinds, ASweepMoves DEF IInv, Keeps

LEMMA RestKeepsInv ==
    ASSUME IInv, NEW w \in Sweepers, EndSweep(w) \/ Crash(w)
    PROVE  IInv'
<1>1. sweep' = [sweep EXCEPT ![w] = AtRest] /\ UNCHANGED <<row, said, past, edits>>
  BY DEF EndSweep, Crash
<1>2. mishaps' \in 0..MaxDisturbances
  BY Kinds, Disturbed DEF IInv, EndSweep, Crash
<1> QED BY <1>1, <1>2, RestIsASweep, Kinds, ASweepMoves DEF IInv, Keeps

LEMMA SuccessKeepsInv ==
    ASSUME IInv, NEW w \in Sweepers, RecordSuccess(w)
    PROVE  IInv'
<1>1. PICK s \in sweep[w].at :
         /\ row' = [row EXCEPT ![s] = Recorded(s, [row[s] EXCEPT !.due = "later", !.failures = 0])]
         /\ failed' = [failed EXCEPT ![s] = 0] /\ inRow' = [inRow EXCEPT ![s] = 0]
         /\ muddled' = muddled \ {s}
         /\ lapsed' = IF Holders(s) = {w} THEN lapsed \ {s} ELSE lapsed
  BY Zenon DEF RecordSuccess
<1>2. PICK local \in Sweeps :
         /\ sweep' = [sweep EXCEPT ![w] = local]
         /\ local.stage = "next" /\ local.at = {}
         /\ local.batch = sweep[w].batch /\ local.seen = sweep[w].seen
  BY MovedOnIsASweep DEF IInv, RecordSuccess
<1>3. sweep[w].stage \in AtWork /\ UNCHANGED <<said, edits, mishaps>>
  BY DEF RecordSuccess, AtWork
<1>4. s \in Schedules /\ row[s] \in Rows
  BY Kinds DEF IInv, Sweeps
<1> DEFINE r == Recorded(s, [row[s] EXCEPT !.due = "later", !.failures = 0])
<1>5. /\ r \in Rows /\ r.life = row[s].life /\ r.enabled = row[s].enabled
      /\ r.life = "there" => r.failures = 0
  BY <1>4 DEF Recorded, Exists, Rows, Dues
<1>6. row' = [row EXCEPT ![s] = r]
  BY <1>1
<1> HIDE DEF r
<1>7. r.life # "there" => r.enabled = FALSE
  BY <1>4, <1>5 DEF IInv, Known, Exists
<1>8. local.stage \notin AtWork
      /\ (local.stage \notin {"idle", "next"} <=> \E t \in Schedules : local.at = {t})
  BY <1>2 DEF AtWork
<1>9. r.life = "there" => FairAfter(s, r.failures)
  BY <1>1, <1>4, <1>5, Kinds DEF IInv, FairAfter
<1>10. s \notin lapsed' => s \notin lapsed \/ \A x \in Sweepers : InHand(x, s) => x = w
  BY <1>1 DEF Holders
<1>11. lapsed' \in {lapsed, lapsed \ {s}} /\ 0 \in Nat
  BY <1>1
<1> QED BY <1>1, <1>2, <1>3, <1>5, <1>6, <1>7, <1>8, <1>9, <1>10, <1>11, AFiringIsRecorded

LEMMA FailureKeepsInv ==
    ASSUME IInv, NEW w \in Sweepers, RecordFailure(w)
    PROVE  IInv'
<1>1. PICK s \in sweep[w].at :
         /\ row' = [row EXCEPT ![s] = Recorded(s, AfterFailure(w, s))]
         /\ failed' = [failed EXCEPT ![s] = failed[s] + 1]
         /\ inRow' = [inRow EXCEPT ![s] = inRow[s] + 1]
         /\ sweep' = [sweep EXCEPT ![w] = [sweep[w] EXCEPT !.stage =
                          IF Failures(w, s) >= GiveUpAfter THEN "off" ELSE "announce"]]
  BY Kinds DEF RecordFailure, IInv, Sweeps
<1>2. sweep[w].stage = "failed" /\ UNCHANGED <<said, lapsed, muddled, edits, mishaps>>
  BY DEF RecordFailure
<1>3. /\ s \in Schedules /\ row[s] \in Rows /\ sweep[w] \in Sweeps
      /\ failed[s] \in Nat /\ inRow[s] \in Nat
  BY Kinds DEF IInv, Sweeps
<1> DEFINE stage == IF Failures(w, s) >= GiveUpAfter THEN "off" ELSE "announce"
           local == [sweep[w] EXCEPT !.stage = stage]
           r == Recorded(s, AfterFailure(w, s))
<1>4. stage \in {"off", "announce"}
  OBVIOUS
<1>5. sweep' = [sweep EXCEPT ![w] = local] /\ row' = [row EXCEPT ![s] = r]
  BY <1>1
<1> HIDE DEF stage
<1>6. /\ local \in Sweeps /\ local.stage \in {"off", "announce"} /\ local.at = sweep[w].at
      /\ local.batch = sweep[w].batch /\ local.seen = sweep[w].seen
  BY <1>3, <1>4 DEF Sweeps, Stages
<1> HIDE DEF local
<1>7. Failures(w, s) \in Nat
  BY <1>3 DEF Failures, Sweeps
<1>8. AfterFailure(w, s) \in Rows /\ AfterFailure(w, s).life = row[s].life
      /\ AfterFailure(w, s).failures = Failures(w, s)
  <2>1. (row[s].enabled /\ Failures(w, s) < GiveUpAfter) \in BOOLEAN
    OBVIOUS
  <2> DEFINE on == row[s].enabled /\ Failures(w, s) < GiveUpAfter
  <2>2. AfterFailure(w, s) = [row[s] EXCEPT !.due = "later", !.failures = Failures(w, s),
                                            !.enabled = on]
    BY Zenon DEF AfterFailure
  <2>3. on \in BOOLEAN
    BY <2>1
  <2> HIDE DEF on
  <2> QED BY <1>3, <1>7, <2>2, <2>3 DEF Rows, Dues
<1>9. /\ r \in Rows /\ r.life = row[s].life
      /\ r.life = "there" => r.failures = Failures(w, s)
      /\ r.life # "there" => r = row[s]
  BY <1>3, <1>8 DEF Recorded, Exists
<1> HIDE DEF r
<1>10. r.life # "there" => r.enabled = FALSE
  BY <1>3, <1>9 DEF IInv, Known, Exists
<1>11. s \notin lapsed => (r.life = "there" => FairAfter(s, r.failures))
  <2> SUFFICES ASSUME s \notin lapsed, r.life = "there" PROVE FairAfter(s, r.failures)
    OBVIOUS
  <2>1. InHand(w, s) /\ Exists(s)
    BY <1>2, <1>9 DEF InHand, Exists
  <2>2. Fair(s, sweep[w].seen[s]) /\ sweep[w].seen[s] \in Nat
    BY <1>3, <2>1 DEF IInv, Leases, Safe, Sweeps
  <2>3. r.failures = sweep[w].seen[s] + 1
    BY <1>9 DEF Failures
  <2>4. failed'[s] = failed[s] + 1 /\ inRow'[s] = inRow[s] + 1
    BY <1>1, <1>3, Kinds DEF IInv
  <2> QED BY <1>2, <1>3, <2>2, <2>3, <2>4 DEF Fair, FairAfter
<1>12. /\ sweep[w].stage \in AtWork /\ local.stage \notin AtWork
       /\ (local.stage \notin {"idle", "next"} <=> \E t \in Schedules : local.at = {t})
  <2>1. \E t \in Schedules : sweep[w].at = {t}
    BY <1>2 DEF IInv, TypeOK
  <2> QED BY <1>2, <1>6, <2>1 DEF AtWork
<1>13. /\ failed[s] + 1 \in Nat /\ failed' = [failed EXCEPT ![s] = failed[s] + 1]
       /\ inRow[s] + 1 \in Nat /\ inRow' = [inRow EXCEPT ![s] = inRow[s] + 1]
       /\ lapsed' = lapsed /\ muddled' = muddled
  BY <1>1, <1>2, <1>3
<1> QED BY <1>2, <1>5, <1>6, <1>9, <1>10, <1>11, <1>12, <1>13, AFiringIsRecorded

-------------------------------------------------------------------------------
LEMMA InitInv == Init => IInv
<1> SUFFICES ASSUME Init PROVE IInv
  OBVIOUS
<1>1. /\ row = [s \in Schedules |-> NoRow] /\ sweep = [w \in Sweepers |-> AtRest]
      /\ said = {} /\ lapsed = {} /\ muddled = {}
      /\ failed = [s \in Schedules |-> 0] /\ inRow = [s \in Schedules |-> 0]
      /\ edits = 0 /\ mishaps = 0
  BY DEF Init
<1>2. NoRow \in Rows /\ NoRow.life = "absent" /\ NoRow.enabled = FALSE
  BY DEF NoRow, Rows, Dues
<1>3. TypeOK
  BY <1>1, <1>2, RestIsASweep, SchedulesAssumption DEF TypeOK, Rows, Sweeps
<1>4. \A w \in Sweepers, s \in Schedules : ~ InHand(w, s)
  BY <1>1, RestIsASweep DEF InHand
<1>5. Leases /\ Known /\ Apart
  BY <1>1, <1>2, <1>4, RestIsASweep DEF Leases, Safe, Known, Apart, Exists
<1> QED BY <1>3, <1>5 DEF IInv

LEMMA EveryStep == IInv /\ [Next]_vars => IInv'
<1> SUFFICES ASSUME IInv, [Next]_vars PROVE IInv'
  OBVIOUS
<1>1. CASE UNCHANGED vars
  BY <1>1 DEF vars, IInv, TypeOK, Leases, Safe, Fair, Known, Apart, InHand, Exists
<1>2. CASE \E s \in Schedules :
              createSchedule(s) \/ updateSchedule(s) \/ removeSchedule(s) \/ TimePasses(s)
  BY <1>2, CreateKeepsInv, UpdateKeepsInv, RemoveKeepsInv, TimeKeepsInv
<1>3. CASE \E w \in Sweepers : Claim(w) \/ Fire(w) \/ FiringFails(w) \/ EndSweep(w) \/ Crash(w)
  BY <1>3, ClaimKeepsInv, FireKeepsInv, FiringFailsKeepsInv, RestKeepsInv
<1>4. CASE \E w \in Sweepers : RecordSuccess(w) \/ RecordFailure(w) \/ AnnounceFailure(w)
  BY <1>4, SuccessKeepsInv, FailureKeepsInv, AnnounceKeepsInv
<1> QED BY <1>1, <1>2, <1>3, <1>4 DEF Next, SweepStep

LEMMA AlwaysIInv == Spec => []IInv
BY InitInv, EveryStep, PTL DEF Spec

(* The kinds of every variable, and that a sweep has one schedule in hand   *)
(* exactly while it fires one.                                              *)
THEOREM TypesHold == Spec => []TypeOK
<1>1. IInv => TypeOK
  BY DEF IInv
<1> QED BY <1>1, AlwaysIInv, PTL

(* Unless a schedule was due again while a sweep had it in hand, no two     *)
(* sweeps fire it, whatever its owner edits meanwhile.                      *)
THEOREM LeaseIsExclusive == Spec => []OneSweepPerSchedule
<1>1. IInv => OneSweepPerSchedule
  <2> SUFFICES ASSUME IInv, NEW s \in Schedules, s \notin lapsed
               PROVE  Cardinality(Holders(s)) <= 1
    BY DEF OneSweepPerSchedule
  <2>1. \A w, x \in Holders(s) : w = x
    BY DEF IInv, Leases, Safe, Holders
  <2>2. CASE Holders(s) = {}
    BY <2>2, FS_EmptySet
  <2>3. CASE Holders(s) # {}
    <3>1. PICK w \in Holders(s) : TRUE
      BY <2>3
    <3>2. Holders(s) = {w}
      BY <2>1, <3>1
    <3>3. Cardinality({w}) = 1
      BY FS_Singleton
    <3> QED BY <3>2, <3>3
  <2> QED BY <2>2, <2>3
<1> QED BY <1>1, AlwaysIInv, PTL

(* Computed as it is from a row read before the firing, the count is never  *)
(* less than the failures since the last edit nor more than the failures in *)
(* a row, and it is exact but for an edit that came during a firing, and no *)
(* longer than to the next success or the next edit between firings.  Only  *)
(* a schedule due again under its sweep is left out, until a firing that no *)
(* other overlaps succeeds or the row is edited with no firing under way.   *)
THEOREM CountIsTrue == Spec => []FailureCountIsTrue
<1>1. IInv => FailureCountIsTrue
  BY DEF IInv, Leases, Safe, Fair, FailureCountIsTrue
<1> QED BY <1>1, AlwaysIInv, PTL

(* What may write whether a schedule that is there is enabled: an edit, or  *)
(* the firing that has it in hand, when it has failed.                      *)
LEMMA EnabledIsWritten ==
    ASSUME IInv, [Next]_vars, NEW s \in Schedules, Exists(s)
    PROVE  \/ row'[s].enabled = row[s].enabled
           \/ Edited
           \/ \E w \in Sweepers : /\ InHand(w, s) /\ row'[s] = AfterFailure(w, s)
                                  /\ failed'[s] = failed[s] + 1
                                  /\ inRow'[s] = inRow[s] + 1
<1>1. /\ row \in [Schedules -> Rows] /\ sweep \in [Sweepers -> Sweeps]
      /\ failed \in [Schedules -> Nat] /\ inRow \in [Schedules -> Nat]
  BY Kinds DEF IInv
<1>2. CASE \E t \in Schedules : updateSchedule(t) \/ removeSchedule(t)
  BY <1>2 DEF updateSchedule, removeSchedule
<1>3. CASE \E w \in Sweepers : RecordFailure(w)
  <2>1. PICK w \in Sweepers : RecordFailure(w)
    BY <1>3
  <2>2. PICK t \in sweep[w].at :
           /\ sweep[w].stage = "failed"
           /\ row' = [row EXCEPT ![t] = Recorded(t, AfterFailure(w, t))]
           /\ failed' = [failed EXCEPT ![t] = failed[t] + 1]
           /\ inRow' = [inRow EXCEPT ![t] = inRow[t] + 1]
    BY <1>1, <2>1 DEF RecordFailure
  <2>3. t \in Schedules
    BY <1>1, <2>2 DEF Sweeps
  <2>4. CASE t # s
    BY <1>1, <2>2, <2>3, <2>4
  <2>5. CASE t = s
    <3>1. InHand(w, s)
      BY <2>2, <2>5 DEF InHand
    <3>2. /\ row'[s] = AfterFailure(w, s)
          /\ failed'[s] = failed[s] + 1 /\ inRow'[s] = inRow[s] + 1
      BY <1>1, <2>2, <2>5 DEF Recorded
    <3> QED BY <3>1, <3>2
  <2> QED BY <2>4, <2>5
<1>4. CASE \E t \in Schedules : createSchedule(t)
  <2>1. PICK t \in Schedules :
           row[t].life = "absent" /\ \E r : row' = [row EXCEPT ![t] = r]
    BY <1>4, Zenon DEF createSchedule
  <2>2. t # s
    BY <2>1 DEF Exists
  <2> QED BY <1>1, <2>1, <2>2
<1>5. CASE \E t \in Schedules : TimePasses(t)
  <2>1. PICK t \in Schedules : row' = [row EXCEPT ![t].due = "now"]
    BY <1>5 DEF TimePasses
  <2> QED BY <1>1, <2>1 DEF Rows
<1>6. CASE \E w \in Sweepers : Claim(w)
  <2>1. row'[s] \in {row[s], Leased(row[s])}
    BY <1>6 DEF Claim
  <2>2. Leased(row[s]).enabled = row[s].enabled
    BY <1>1 DEF Leased, Rows
  <2> QED BY <2>1, <2>2
<1>7. CASE \E w \in Sweepers : RecordSuccess(w)
  <2>1. PICK w \in Sweepers : RecordSuccess(w)
    BY <1>7
  <2>2. PICK t \in sweep[w].at :
           row' = [row EXCEPT ![t] = Recorded(t, [row[t] EXCEPT !.due = "later", !.failures = 0])]
    BY <2>1, Zenon DEF RecordSuccess
  <2>3. t \in Schedules
    BY <1>1, <2>2 DEF Sweeps
  <2>4. row'[s].enabled = row[s].enabled
    BY <1>1, <2>2, <2>3 DEF Rows, Recorded
  <2> QED BY <2>4
<1>8. CASE UNCHANGED row
  BY <1>8
<1>9. CASE \E w \in Sweepers :
              Fire(w) \/ FiringFails(w) \/ AnnounceFailure(w) \/ EndSweep(w) \/ Crash(w)
  <2>1. UNCHANGED row
    BY <1>9 DEF Fire, FiringFails, AnnounceFailure, EndSweep, Crash
  <2> QED BY <2>1
<1> QED BY <1>2, <1>3, <1>4, <1>5, <1>6, <1>7, <1>8, <1>9 DEF Next, SweepStep, vars

LEMMA EditsAreCounted ==
    ASSUME IInv, Edited
    PROVE  edits' > edits
BY Kinds DEF IInv, Edited

LEMMA AfterFailureSwitchesOff ==
    ASSUME IInv, NEW w \in Sweepers, NEW s \in Schedules
    PROVE  AfterFailure(w, s).enabled = (row[s].enabled /\ Failures(w, s) < GiveUpAfter)
<1>1. row[s] \in Rows
  BY Kinds DEF IInv
<1> QED BY <1>1 DEF AfterFailure, Rows

(* A firing stops a schedule only after GiveUpAfter failures in a row, and  *)
(* since its last edit unless that edit came during a firing.               *)
THEOREM StopsAreEarned == Spec => StoppedOnlyAfterFailures
<1> DEFINE Earned == \A s \in Schedules \ lapsed :
              row[s].enabled /\ Exists(s)' /\ ~ row'[s].enabled =>
                  \/ edits' > edits
                  \/ /\ inRow'[s] >= GiveUpAfter
                     /\ s \notin muddled => failed'[s] >= GiveUpAfter
<1>1. IInv /\ [Next]_vars => Earned
  <2> SUFFICES ASSUME IInv, [Next]_vars, NEW s \in Schedules, s \notin lapsed,
                      row[s].enabled, ~ row'[s].enabled
               PROVE  \/ edits' > edits
                      \/ /\ inRow'[s] >= GiveUpAfter
                         /\ s \notin muddled => failed'[s] >= GiveUpAfter
    OBVIOUS
  <2>1. Exists(s)
    BY DEF IInv, Known
  <2>2. CASE Edited
    BY <2>2, EditsAreCounted
  <2>3. CASE row'[s].enabled = row[s].enabled
    BY <2>3, Zenon
  <2>4. CASE \E w \in Sweepers : /\ InHand(w, s) /\ row'[s] = AfterFailure(w, s)
                                 /\ failed'[s] = failed[s] + 1
                                 /\ inRow'[s] = inRow[s] + 1
    <3>1. PICK w \in Sweepers : /\ InHand(w, s) /\ row'[s] = AfterFailure(w, s)
                                /\ failed'[s] = failed[s] + 1
                                /\ inRow'[s] = inRow[s] + 1
      BY <2>4
    <3>2. ~ (Failures(w, s) < GiveUpAfter)
      BY <3>1, AfterFailureSwitchesOff, Zenon
    <3>3. Fair(s, sweep[w].seen[s])
      BY <2>1, <3>1 DEF IInv, Leases, Safe
    <3>4. sweep[w].seen[s] \in Nat /\ failed[s] \in Nat /\ inRow[s] \in Nat
      BY Kinds DEF IInv, Sweeps
    <3>5. sweep[w].seen[s] + 1 >= GiveUpAfter
      BY <3>2, <3>4, SchedulesAssumption DEF Failures
    <3> QED BY <3>1, <3>3, <3>4, <3>5, SchedulesAssumption DEF Fair
  <2> QED BY <2>1, <2>2, <2>3, <2>4, EnabledIsWritten
<1> QED BY <1>1, AlwaysIInv, PTL DEF Spec, StoppedOnlyAfterFailures

(* No firing under way switches a schedule on: only its owner's edit does.  *)
THEOREM StopsAreNotUndone == Spec => OnlyOwnersSwitchOn
<1> DEFINE OwnersDo == \A s \in Schedules :
              Exists(s) /\ ~ row[s].enabled /\ row'[s].enabled => edits' > edits
<1>1. IInv /\ [Next]_vars => OwnersDo
  <2> SUFFICES ASSUME IInv, [Next]_vars, NEW s \in Schedules, Exists(s),
                      ~ row[s].enabled, row'[s].enabled
               PROVE  edits' > edits
    OBVIOUS
  <2>1. CASE Edited
    BY <2>1, EditsAreCounted
  <2>2. CASE row'[s].enabled = row[s].enabled
    BY <2>2, Zenon
  <2>3. \A w \in Sweepers : row'[s] # AfterFailure(w, s)
    BY AfterFailureSwitchesOff, Zenon
  <2> QED BY <2>1, <2>2, <2>3, EnabledIsWritten
<1> QED BY <1>1, AlwaysIInv, PTL DEF Spec, OnlyOwnersSwitchOn
===============================================================================
