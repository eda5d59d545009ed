------------------------ MODULE WebhookDeliveryProofs ------------------------
(***************************************************************************)
(* Webhook deliveries, for any deliveries, endpoints, workers and bounds:  *)
(* the lease keeps a row with one worker, a delivered row stays so, the    *)
(* tries are bounded, and an active endpoint is below the threshold.       *)
(***************************************************************************)
EXTENDS WebhookDelivery, TLAPS, FiniteSetTheorems

Rows == [status : Statuses, attempts : Nat, due : Dues]
Sinks == [exists : BOOLEAN, active : BOOLEAN, streak : Nat]
Jobs == [phase : Phases, of : SUBSET Deliveries, attempt : Nat]

BusyOn(w, d) == job[w].phase \in Busy /\ d \in job[w].of

One == \A w \in Workers : job[w].phase # "idle" => \E d \in Deliveries : job[w].of = {d}

Typed ==
    /\ row \in [Deliveries -> Rows]
    /\ ep \in [Endpoints -> Sinks]
    /\ job \in [Workers -> Jobs]
    /\ One
    /\ owed \subseteq Deliveries /\ exposed \subseteq Deliveries
    /\ lost \in [Deliveries -> Nat]
    /\ mishaps \in 0..MaxMishaps

(* The lease at work: a row that somebody is at is his alone, is not due,   *)
(* and has no outcome yet.                                                  *)
Safe(d) ==
    /\ \A w, x \in Workers : BusyOn(w, d) /\ BusyOn(x, d) => w = x
    /\ \A w \in Workers : BusyOn(w, d) =>
          row[d].status \in {"pending", "deleted"} /\ row[d].due # "now"

Unexposed == \A d \in Deliveries \ exposed : Safe(d)

(* The budget at work: a row that may be claimed again has a try left, or   *)
(* has lost one; and no row is ahead of a worker that is at it by more than *)
(* the tries that were lost.                                                *)
Tried(d) ==
    /\ row[d].attempts <= Budget + 1 + lost[d]
    /\ row[d].due \in {"now", "backoff"} => row[d].attempts <= Budget + lost[d]
    /\ row[d].due = "lease" /\ (\A w \in Workers : ~ BusyOn(w, d)) =>
          row[d].attempts <= Budget + lost[d]
    /\ \A w \in Workers : BusyOn(w, d) =>
          /\ row[d].status # "none" /\ job[w].attempt >= 1
          /\ row[d].attempts <= job[w].attempt + lost[d]
          /\ row[d].due = "now" => row[d].attempts + 1 <= job[w].attempt + lost[d]
    /\ ~ Live(d) => row[d].due = "never"

Counted == \A d \in Deliveries : Tried(d)

IInv == Typed /\ Unexposed /\ Counted /\ ActiveBelowThreshold

-------------------------------------------------------------------------------
LEMMA TypedIsTypeOK == Typed => TypeOK
<1> SUFFICES ASSUME Typed PROVE TypeOK
  OBVIOUS
<1>1. \A w \in Workers : job[w].phase # "idle" => Cardinality(job[w].of) = 1
  BY FS_Singleton DEF Typed, One
<1> QED BY <1>1 DEF TypeOK, Typed, Rows, Sinks, Jobs

LEMMA Bounds ==
    ASSUME Typed
    PROVE  /\ Budget \in Nat /\ Threshold \in Nat \ {0}
           /\ Mishap => mishaps' \in 0..MaxMishaps
           /\ \A d \in Deliveries : row[d] \in Rows /\ row[d].attempts \in Nat /\ lost[d] \in Nat
           /\ \A w \in Workers : job[w] \in Jobs /\ job[w].attempt \in Nat
BY DeliveryAssumption DEF Typed, Mishap, Rows, Jobs

(* The endpoint a worker is at is one of the endpoints.                     *)
LEMMA TargetIsAnEndpoint ==
    ASSUME Typed, NEW w \in Workers, job[w].phase # "idle"
    PROVE  Target(w) \in Endpoints
<1>1. PICK d \in Deliveries : job[w].of = {d}
  BY DEF Typed, One
<1>2. (CHOOSE e \in Deliveries : e \in job[w].of) = d
  BY <1>1
<1> QED BY <1>2, DeliveryAssumption DEF Target

(* Nothing happens to the rows, and nobody begins or ends with one.         *)
LEMMA RowsRest ==
    ASSUME IInv, UNCHANGED <<row, exposed, lost>>,
           \A w \in Workers, d \in Deliveries :
              /\ BusyOn(w, d)' <=> BusyOn(w, d)
              /\ BusyOn(w, d) => job'[w].attempt = job[w].attempt
    PROVE  Unexposed' /\ Counted'
<1>1. Unexposed'
  BY DEF IInv, Unexposed, Safe
<1>2. Counted'
  <2> SUFFICES ASSUME NEW d \in Deliveries PROVE Tried(d)'
    BY DEF Counted
  <2>1. Tried(d)
    BY DEF IInv, Counted
  <2> QED BY <2>1 DEF Tried, Live
<1> QED BY <1>1, <1>2

(* One row moves under whoever is at it.                                    *)
LEMMA OthersRest ==
    ASSUME IInv, NEW d \in Deliveries, NEW r \in Rows, row' = [row EXCEPT ![d] = r],
           \A e \in Deliveries : e # d => lost'[e] = lost[e],
           exposed \subseteq exposed', exposed' \subseteq exposed \union {d},
           \A w \in Workers, e \in Deliveries : e # d =>
              /\ BusyOn(w, e)' <=> BusyOn(w, e)
              /\ BusyOn(w, e) => job'[w].attempt = job[w].attempt,
           d \notin exposed' => Safe(d)', Tried(d)'
    PROVE  Unexposed' /\ Counted'
<1>1. \A e \in Deliveries : e # d => row'[e] = row[e]
  BY DEF IInv, Typed
<1>2. Unexposed'
  <2> SUFFICES ASSUME NEW e \in Deliveries, e \notin exposed', e # d PROVE Safe(e)'
    BY DEF Unexposed
  <2>1. Safe(e)
    BY DEF IInv, Unexposed
  <2> QED BY <1>1, <2>1 DEF Safe
<1>3. Counted'
  <2> SUFFICES ASSUME NEW e \in Deliveries, e # d PROVE Tried(e)'
    BY DEF Counted
  <2>1. Tried(e)
    BY DEF IInv, Counted
  <2> QED BY <1>1, <2>1 DEF Tried, Live
<1> QED BY <1>2, <1>3

-------------------------------------------------------------------------------
LEMMA EnqueueKeepsInv ==
    ASSUME IInv, NEW d \in Deliveries, Enqueue(d)
    PROVE  IInv'
<1> DEFINE r == [status |-> "pending", attempts |-> 0, due |-> "now"]
<1>1. r \in Rows /\ r.status = "pending" /\ r.attempts = 0 /\ r.due = "now"
  BY DEF Rows, Statuses, Dues
<1>2. /\ row' = [row EXCEPT ![d] = r] /\ row[d].status = "none"
      /\ UNCHANGED <<ep, job, owed, exposed, lost, mishaps>>
  BY DEF Enqueue
<1> HIDE DEF r
<1>3. row' \in [Deliveries -> Rows] /\ row'[d] = r
  BY <1>1, <1>2 DEF IInv, Typed
<1>4. \A w \in Workers, e \in Deliveries : BusyOn(w, e)' <=> BusyOn(w, e)
  BY <1>2 DEF BusyOn
<1>5. \A w \in Workers : ~ BusyOn(w, d)
  BY <1>2 DEF IInv, Counted, Tried
<1>6. Safe(d)'
  BY <1>4, <1>5 DEF Safe
<1>7. Tried(d)'
  <2>1. 0 <= Budget + lost[d] /\ 0 <= Budget + 1 + lost[d]
    BY Bounds DEF IInv
  <2> QED BY <1>1, <1>2, <1>3, <1>4, <1>5, <2>1 DEF Tried, Live
<1>8. Unexposed' /\ Counted'
  BY <1>1, <1>2, <1>4, <1>6, <1>7, OthersRest
<1>9. Typed' /\ ActiveBelowThreshold'
  BY <1>2, <1>3 DEF IInv, Typed, One, ActiveBelowThreshold
<1> QED BY <1>8, <1>9 DEF IInv

LEMMA TimeKeepsInv ==
    ASSUME IInv, NEW d \in Deliveries, TimePasses(d)
    PROVE  IInv'
<1> DEFINE r == [row[d] EXCEPT !.due = "now"]
<1>1. row[d] \in Rows /\ lost[d] \in Nat /\ Budget \in Nat /\ row[d].attempts \in Nat
  BY Bounds DEF IInv
<1>2. /\ r \in Rows /\ r.status = row[d].status /\ r.attempts = row[d].attempts /\ r.due = "now"
      /\ row' = [row EXCEPT ![d] = r]
  BY <1>1 DEF TimePasses, Rows, Dues
<1> HIDE DEF r
<1>3. /\ row[d].due \in {"lease", "backoff"} /\ UNCHANGED <<ep, job, owed>>
      /\ \/ WorkersOn(d) = {} /\ UNCHANGED <<exposed, lost, mishaps>>
         \/ /\ WorkersOn(d) # {} /\ Mishap /\ exposed' = exposed \union {d}
            /\ lost' = [lost EXCEPT ![d] = @ + 1]
  BY DEF TimePasses
<1>4. row' \in [Deliveries -> Rows] /\ row'[d] = r
  BY <1>2 DEF IInv, Typed
<1>5. \A w \in Workers, e \in Deliveries : BusyOn(w, e)' <=> BusyOn(w, e)
  BY <1>3 DEF BusyOn
<1>6. Live(d)
  BY <1>3 DEF IInv, Counted, Tried
<1>7. CASE WorkersOn(d) = {} /\ UNCHANGED <<exposed, lost, mishaps>>
  <2>1. \A w \in Workers : ~ BusyOn(w, d)
    BY <1>7 DEF WorkersOn, BusyOn
  <2>2. row[d].attempts <= Budget + lost[d] /\ row[d].attempts <= Budget + 1 + lost[d]
    BY <1>3, <2>1 DEF IInv, Counted, Tried
  <2>3. Safe(d)'
    BY <1>5, <2>1 DEF Safe
  <2>4. Tried(d)'
    BY <1>2, <1>4, <1>5, <1>6, <1>7, <2>1, <2>2 DEF Tried, Live
  <2>5. Unexposed' /\ Counted'
    BY <1>2, <1>3, <1>5, <1>7, <2>3, <2>4, OthersRest
  <2>6. Typed' /\ ActiveBelowThreshold'
    BY <1>3, <1>4, <1>7 DEF IInv, Typed, One, ActiveBelowThreshold
  <2> QED BY <2>5, <2>6 DEF IInv
<1>8. CASE /\ WorkersOn(d) # {} /\ Mishap /\ exposed' = exposed \union {d}
           /\ lost' = [lost EXCEPT ![d] = @ + 1]
  <2>1. /\ lost' \in [Deliveries -> Nat] /\ lost'[d] = lost[d] + 1
        /\ \A e \in Deliveries : e # d => lost'[e] = lost[e]
    BY <1>8 DEF IInv, Typed
  <2>2. Tried(d)
    BY DEF IInv, Counted
  <2>3. Tried(d)'
    <3>1. row'[d].attempts <= Budget + lost'[d] /\ row'[d].attempts <= Budget + 1 + lost'[d]
      BY <1>1, <1>2, <1>4, <2>1, <2>2 DEF Tried
    <3>2. \A w \in Workers : BusyOn(w, d)' =>
             /\ row'[d].status # "none" /\ job'[w].attempt >= 1
             /\ row'[d].attempts <= job'[w].attempt + lost'[d]
             /\ row'[d].attempts + 1 <= job'[w].attempt + lost'[d]
      <4> SUFFICES ASSUME NEW w \in Workers, BusyOn(w, d)
                   PROVE  /\ row'[d].status # "none" /\ job'[w].attempt >= 1
                          /\ row'[d].attempts <= job'[w].attempt + lost'[d]
                          /\ row'[d].attempts + 1 <= job'[w].attempt + lost'[d]
        BY <1>5
      <4>1. job[w].attempt \in Nat /\ job'[w].attempt = job[w].attempt
        BY <1>3, Bounds DEF IInv
      <4>2. /\ row[d].status # "none" /\ job[w].attempt >= 1
            /\ row[d].attempts <= job[w].attempt + lost[d]
        BY <2>2 DEF Tried
      <4> QED BY <1>1, <1>2, <1>4, <2>1, <4>1, <4>2
    <3>3. Live(d)' /\ row'[d].due = "now"
      BY <1>2, <1>4, <1>6 DEF Live
    <3> QED BY <3>1, <3>2, <3>3 DEF Tried
  <2>4. Unexposed' /\ Counted'
    BY <1>2, <1>3, <1>5, <1>8, <2>1, <2>3, OthersRest
  <2>5. Typed' /\ ActiveBelowThreshold'
    BY <1>3, <1>4, <1>8, <2>1, Bounds DEF IInv, Typed, One, ActiveBelowThreshold
  <2> QED BY <2>4, <2>5 DEF IInv
<1> QED BY <1>3, <1>7, <1>8

LEMMA ClaimKeepsInv ==
    ASSUME IInv, NEW w \in Workers, NEW d \in Deliveries, Claim(w, d)
    PROVE  IInv'
<1> DEFINE r == [row[d] EXCEPT !.attempts = row[d].attempts + 1, !.due = "lease"]
           local == [phase |-> "claimed", of |-> {d}, attempt |-> row[d].attempts + 1]
<1>1. row[d] \in Rows /\ lost[d] \in Nat /\ Budget \in Nat /\ row[d].attempts \in Nat
  BY Bounds DEF IInv
<1>2. /\ r \in Rows /\ r.status = row[d].status /\ r.attempts = row[d].attempts + 1
      /\ r.due = "lease"
  <2> DEFINE n == row[d].attempts + 1
  <2>1. n \in Nat
    BY <1>1
  <2>2. r = [row[d] EXCEPT !.attempts = n, !.due = "lease"]
    OBVIOUS
  <2> HIDE DEF n, r
  <2>3. /\ r \in Rows /\ r.status = row[d].status /\ r.attempts = n /\ r.due = "lease"
    BY <1>1, <2>1, <2>2 DEF Rows, Dues
  <2> QED BY <2>3 DEF n
<1>3. /\ local \in Jobs /\ local.phase = "claimed" /\ local.of = {d}
      /\ local.attempt = row[d].attempts + 1
  BY <1>1 DEF Jobs, Phases
<1>4. row' = [row EXCEPT ![d] = r]
  BY <1>1 DEF Claim, Leased, Typed, IInv, Rows
<1>5. /\ job[w].phase = "idle" /\ row[d].status = "pending" /\ row[d].due = "now"
      /\ job' = [job EXCEPT ![w] = local] /\ owed' = owed \ {d}
      /\ UNCHANGED <<ep, exposed, lost, mishaps>>
  BY DEF Claim
<1> HIDE DEF r, local
<1>6. row' \in [Deliveries -> Rows] /\ row'[d] = r
  BY <1>2, <1>4 DEF IInv, Typed
<1>7. /\ job' \in [Workers -> Jobs] /\ job'[w] = local
      /\ \A x \in Workers : x # w => job'[x] = job[x]
  BY <1>3, <1>5 DEF IInv, Typed
<1>8. Tried(d)
  BY DEF IInv, Counted
<1>9. \A e \in Deliveries : /\ ~ BusyOn(w, e)
                            /\ BusyOn(w, e)' <=> e = d
                            /\ \A x \in Workers : x # w => (BusyOn(x, e)' <=> BusyOn(x, e))
  BY <1>3, <1>5, <1>7 DEF BusyOn, Busy
<1>10. d \notin exposed' => Safe(d)'
  <2> SUFFICES ASSUME d \notin exposed PROVE Safe(d)'
    BY <1>5
  <2>1. \A x \in Workers : ~ BusyOn(x, d)
    BY <1>5 DEF IInv, Unexposed, Safe
  <2>2. \A x \in Workers : BusyOn(x, d)' => x = w
    BY <1>9, <2>1
  <2> QED BY <1>2, <1>5, <1>6, <2>2 DEF Safe
<1>11. Tried(d)'
  <2>1. row'[d].attempts <= Budget + 1 + lost'[d]
    BY <1>1, <1>2, <1>5, <1>6, <1>8 DEF Tried
  <2>2. BusyOn(w, d)' /\ row'[d].due = "lease" /\ Live(d)' /\ row'[d].status = "pending"
    BY <1>2, <1>5, <1>6, <1>9 DEF Live
  <2>3. \A x \in Workers : BusyOn(x, d)' =>
           /\ job'[x].attempt >= 1 /\ row'[d].attempts <= job'[x].attempt + lost'[d]
    <3> SUFFICES ASSUME NEW x \in Workers, BusyOn(x, d)'
                 PROVE  job'[x].attempt >= 1 /\ row'[d].attempts <= job'[x].attempt + lost'[d]
      OBVIOUS
    <3>1. CASE x = w
      BY <1>1, <1>2, <1>3, <1>5, <1>6, <1>7, <3>1
    <3>2. CASE x # w
      <4>1. BusyOn(x, d) /\ job'[x] = job[x] /\ job[x].attempt \in Nat
        BY <1>7, <1>9, <3>2, Bounds DEF IInv
      <4>2. job[x].attempt >= 1 /\ row[d].attempts + 1 <= job[x].attempt + lost[d]
        BY <1>5, <1>8, <4>1 DEF Tried
      <4> QED BY <1>1, <1>2, <1>5, <1>6, <4>1, <4>2
    <3> QED BY <3>1, <3>2
  <2> QED BY <2>1, <2>2, <2>3 DEF Tried
<1>12. Unexposed' /\ Counted'
  BY <1>2, <1>4, <1>5, <1>7, <1>9, <1>10, <1>11, OthersRest
<1>13. Typed'
  <2>1. One'
    BY <1>3, <1>7 DEF IInv, Typed, One
  <2> QED BY <1>5, <1>6, <1>7, <2>1 DEF IInv, Typed
<1>14. ActiveBelowThreshold'
  BY <1>5 DEF IInv, ActiveBelowThreshold
<1> QED BY <1>12, <1>13, <1>14 DEF IInv

-------------------------------------------------------------------------------
(* A worker goes on, still busy with its row.                               *)
LEMMA PhaseMoves ==
    ASSUME IInv, NEW w \in Workers, NEW phase \in Busy, job[w].phase \in Busy,
           job' = [job EXCEPT ![w].phase = phase],
           UNCHANGED <<row, ep, owed, exposed, lost, mishaps>>
    PROVE  IInv'
<1>1. /\ job' \in [Workers -> Jobs] /\ job'[w].phase = phase
      /\ job'[w].of = job[w].of /\ job'[w].attempt = job[w].attempt
      /\ \A x \in Workers : x # w => job'[x] = job[x]
  BY DEF IInv, Typed, Jobs, Busy, Phases
<1>2. \A x \in Workers, d \in Deliveries :
         /\ BusyOn(x, d)' <=> BusyOn(x, d)
         /\ BusyOn(x, d) => job'[x].attempt = job[x].attempt
  BY <1>1 DEF BusyOn
<1>3. Unexposed' /\ Counted'
  BY <1>2, RowsRest
<1>4. One'
  BY <1>1 DEF IInv, Typed, One, Busy
<1>5. Typed' /\ ActiveBelowThreshold'
  BY <1>1, <1>4 DEF IInv, Typed, ActiveBelowThreshold
<1> QED BY <1>3, <1>5 DEF IInv

LEMMA PostKeepsInv ==
    ASSUME IInv, NEW w \in Workers, ReadTarget(w) \/ Post(w)
    PROVE  IInv'
<1>1. CASE ReadTarget(w)
  <2>1. /\ job[w].phase = "claimed" /\ UNCHANGED <<row, ep, owed, exposed, lost, mishaps>>
        /\ \E phase \in {"post", "off"} : job' = [job EXCEPT ![w].phase = phase]
    BY <1>1, Zenon DEF ReadTarget
  <2>2. \A phase \in {"claimed", "post", "off"} : phase \in Busy
    BY DEF Busy
  <2> QED BY <2>1, <2>2, PhaseMoves
<1>2. CASE Post(w)
  <2>1. /\ job[w].phase = "post" /\ UNCHANGED <<row, ep, owed, exposed, lost, mishaps>>
        /\ \E phase \in {"ok", "refused", "blocked"} : job' = [job EXCEPT ![w].phase = phase]
    BY <1>2 DEF Post
  <2>2. \A phase \in {"post", "ok", "refused", "blocked"} : phase \in Busy
    BY DEF Busy
  <2> QED BY <2>1, <2>2, PhaseMoves
<1> QED BY <1>1, <1>2

(* A worker has written its row, or has done with the endpoint.             *)
LEMMA Finished ==
    ASSUME Typed, NEW w \in Workers, NEW phase \in {"idle", "reset", "streak"},
           job[w].phase # "idle", Finish(w, phase)
    PROVE  /\ job' \in [Workers -> Jobs] /\ One'
           /\ job'[w].phase = phase /\ \A d \in Deliveries : ~ BusyOn(w, d)'
           /\ \A x \in Workers : x # w => job'[x] = job[x]
           /\ \A x \in Workers, d \in Deliveries :
                 BusyOn(x, d)' => x # w /\ BusyOn(x, d) /\ job'[x] = job[x]
<1> DEFINE local == IF phase = "idle" THEN Idle ELSE [job[w] EXCEPT !.phase = phase]
<1>1. job[w] \in Jobs
  BY DEF Typed
<1>2. /\ local \in Jobs /\ local.phase = phase
      /\ phase # "idle" => local.of = job[w].of
  <2>1. Idle \in Jobs /\ Idle.phase = "idle"
    BY DEF Idle, Jobs, Phases
  <2>2. [job[w] EXCEPT !.phase = phase] \in Jobs
    BY <1>1 DEF Jobs, Phases
  <2> QED BY <1>1, <2>1, <2>2 DEF Jobs
<1>3. job' = [job EXCEPT ![w] = local]
  BY <1>1 DEF Finish
<1> HIDE DEF local
<1>4. /\ job' \in [Workers -> Jobs] /\ job'[w] = local
      /\ \A x \in Workers : x # w => job'[x] = job[x]
  BY <1>2, <1>3 DEF Typed
<1>5. One'
  BY <1>2, <1>4 DEF Typed, One
<1>6. \A d \in Deliveries : ~ BusyOn(w, d)'
  BY <1>2, <1>4 DEF BusyOn, Busy
<1>7. \A x \in Workers, d \in Deliveries :
         BusyOn(x, d)' => x # w /\ BusyOn(x, d) /\ job'[x] = job[x]
  BY <1>4, <1>6 DEF BusyOn
<1> QED BY <1>2, <1>4, <1>5, <1>6, <1>7

(* An outcome is recorded: a row that is given back to the sweep has a try  *)
(* left.                                                                    *)
LEMMA OutcomeKeepsInv ==
    ASSUME IInv, NEW w \in Workers, NEW status \in {"delivered", "pending", "failed"},
           NEW due \in {"never", "backoff"}, job[w].phase \in Busy,
           row' = Written(w, status, due), NEW phase \in {"idle", "reset", "streak"},
           Finish(w, phase), due = "backoff" => job[w].attempt <= Budget,
           UNCHANGED <<ep, owed, exposed, lost, mishaps>>
    PROVE  IInv'
<1>0. job[w].phase # "idle" /\ Typed
  BY DEF Busy, IInv
<1>1. PICK d \in Deliveries : job[w].of = {d}
  BY <1>0 DEF Typed, One
<1>2. /\ row[d] \in Rows /\ lost[d] \in Nat /\ Budget \in Nat /\ row[d].attempts \in Nat
      /\ job[w].attempt \in Nat
  BY Bounds DEF IInv
<1> DEFINE r == IF Live(d) THEN [row[d] EXCEPT !.status = status, !.due = due] ELSE row[d]
<1>3. /\ r \in Rows /\ r.attempts = row[d].attempts
      /\ Live(d) => r.status = status /\ r.due = due
      /\ ~ Live(d) => r = row[d]
  BY <1>2 DEF Rows, Statuses, Dues
<1>4. row' = [row EXCEPT ![d] = r]
  BY <1>0, <1>1 DEF Written, Typed
<1> HIDE DEF r
<1>5. row' \in [Deliveries -> Rows] /\ row'[d] = r
  BY <1>0, <1>3, <1>4 DEF Typed
<1>6. /\ job' \in [Workers -> Jobs] /\ One'
      /\ \A x \in Workers : x # w => job'[x] = job[x]
      /\ \A x \in Workers, e \in Deliveries :
            BusyOn(x, e)' => x # w /\ BusyOn(x, e) /\ job'[x] = job[x]
  BY <1>0, Finished
<1>7. \A x \in Workers, e \in Deliveries : e # d =>
         /\ BusyOn(x, e)' <=> BusyOn(x, e)
         /\ BusyOn(x, e) => job'[x].attempt = job[x].attempt
  BY <1>1, <1>6 DEF BusyOn
<1>8. BusyOn(w, d) /\ Tried(d)
  BY <1>1 DEF BusyOn, IInv, Counted
<1>9. d \notin exposed' => Safe(d)'
  <2> SUFFICES ASSUME d \notin exposed PROVE Safe(d)'
    OBVIOUS
  <2>1. \A x \in Workers : BusyOn(x, d) => x = w
    BY <1>8 DEF IInv, Unexposed, Safe
  <2>2. \A x \in Workers : ~ BusyOn(x, d)'
    BY <1>6, <2>1
  <2> QED BY <2>2 DEF Safe
<1>10. Tried(d)'
  <2>1. row[d].attempts <= Budget + 1 + lost[d] /\ row[d].status # "none"
    BY <1>8 DEF Tried
  <2>2. due = "backoff" => row[d].attempts <= Budget + lost[d]
    BY <1>2, <1>8 DEF Tried
  <2>3. \A x \in Workers : BusyOn(x, d)' =>
           /\ row'[d].status # "none" /\ job'[x].attempt >= 1
           /\ row'[d].attempts <= job'[x].attempt + lost'[d]
    <3> SUFFICES ASSUME NEW x \in Workers, BusyOn(x, d)'
                 PROVE  /\ row'[d].status # "none" /\ job'[x].attempt >= 1
                        /\ row'[d].attempts <= job'[x].attempt + lost'[d]
      OBVIOUS
    <3>1. BusyOn(x, d) /\ job'[x] = job[x]
      BY <1>6
    <3>2. job[x].attempt >= 1 /\ row[d].attempts <= job[x].attempt + lost[d]
      BY <1>8, <3>1 DEF Tried
    <3>3. row'[d].status # "none"
      BY <1>3, <1>5, <2>1
    <3> QED BY <1>3, <1>5, <3>1, <3>2, <3>3
  <2>4. CASE Live(d)
    <3>1. row'[d].due = due /\ row'[d].attempts = row[d].attempts /\ Live(d)'
      BY <1>3, <1>5, <2>4 DEF Live
    <3> QED BY <2>1, <2>2, <2>3, <3>1 DEF Tried
  <2>5. CASE ~ Live(d)
    <3>1. row'[d] = row[d] /\ row[d].due = "never"
      BY <1>3, <1>5, <1>8, <2>5 DEF Tried
    <3> QED BY <2>1, <2>3, <3>1 DEF Tried
  <2> QED BY <2>4, <2>5
<1>11. Unexposed' /\ Counted'
  BY <1>3, <1>4, <1>7, <1>9, <1>10, OthersRest
<1>12. Typed' /\ ActiveBelowThreshold'
  BY <1>5, <1>6 DEF IInv, Typed, ActiveBelowThreshold
<1> QED BY <1>11, <1>12 DEF IInv

LEMMA OutcomesKeepInv ==
    ASSUME IInv, NEW w \in Workers,
           MarkDelivered(w) \/ MarkRetry(w) \/ GiveUp(w) \/ MarkInactive(w)
    PROVE  IInv'
<1>1. job[w].phase \in Busy /\ UNCHANGED <<ep, owed, exposed, lost, mishaps>>
  BY DEF MarkDelivered, MarkRetry, GiveUp, MarkInactive, Busy
<1>2. CASE MarkDelivered(w)
  BY <1>1, <1>2, OutcomeKeepsInv DEF MarkDelivered
<1>3. CASE MarkRetry(w)
  <2>1. job[w].attempt <= Budget
    BY <1>3, Bounds DEF MarkRetry, BudgetSpent, IInv
  <2> QED BY <1>1, <1>3, <2>1, OutcomeKeepsInv DEF MarkRetry
<1>4. CASE GiveUp(w)
  BY <1>1, <1>4, OutcomeKeepsInv DEF GiveUp
<1>5. CASE MarkInactive(w)
  BY <1>1, <1>5, OutcomeKeepsInv DEF MarkInactive
<1> QED BY <1>2, <1>3, <1>4, <1>5

(* A lost try is counted, and so the row may be claimed once more.          *)
LEMMA CrashKeepsInv ==
    ASSUME IInv, NEW w \in Workers, Crash(w)
    PROVE  IInv'
<1>1. /\ job[w].phase # "idle" /\ Mishap /\ Finish(w, "idle")
      /\ lost' = [d \in Deliveries |-> IF d \in job[w].of THEN lost[d] + 1 ELSE lost[d]]
      /\ UNCHANGED <<row, ep, owed, exposed>> /\ Typed
  BY DEF Crash, IInv
<1>2. PICK d \in Deliveries : job[w].of = {d}
  BY <1>1 DEF Typed, One
<1>3. /\ row[d] \in Rows /\ lost[d] \in Nat /\ Budget \in Nat /\ row[d].attempts \in Nat
  BY Bounds DEF IInv
<1>4. /\ lost' \in [Deliveries -> Nat] /\ lost'[d] = lost[d] + 1
      /\ \A e \in Deliveries : e # d => lost'[e] = lost[e]
  BY <1>1, <1>2 DEF Typed
<1>5. /\ job' \in [Workers -> Jobs] /\ One'
      /\ \A x \in Workers : x # w => job'[x] = job[x]
      /\ \A x \in Workers, e \in Deliveries :
            BusyOn(x, e)' => x # w /\ BusyOn(x, e) /\ job'[x] = job[x]
  BY <1>1, Finished
<1>6. \A x \in Workers, e \in Deliveries : e # d =>
         /\ BusyOn(x, e)' <=> BusyOn(x, e)
         /\ BusyOn(x, e) => job'[x].attempt = job[x].attempt
  BY <1>2, <1>5 DEF BusyOn
<1>7. d \notin exposed' => Safe(d)'
  BY <1>1, <1>5 DEF IInv, Unexposed, Safe
<1>8. Tried(d)'
  <2>1. Tried(d)
    BY DEF IInv, Counted
  <2>2. /\ row'[d].attempts <= Budget + lost'[d] /\ row'[d].attempts <= Budget + 1 + lost'[d]
    BY <1>1, <1>3, <1>4, <2>1 DEF Tried
  <2>3. \A x \in Workers : BusyOn(x, d)' =>
           /\ row'[d].status # "none" /\ job'[x].attempt >= 1
           /\ row'[d].attempts <= job'[x].attempt + lost'[d]
           /\ row'[d].due = "now" => row'[d].attempts + 1 <= job'[x].attempt + lost'[d]
    <3> SUFFICES ASSUME NEW x \in Workers, BusyOn(x, d)'
                 PROVE  /\ row'[d].status # "none" /\ job'[x].attempt >= 1
                        /\ row'[d].attempts <= job'[x].attempt + lost'[d]
                        /\ row'[d].due = "now" => row'[d].attempts + 1 <= job'[x].attempt + lost'[d]
      OBVIOUS
    <3>1. BusyOn(x, d) /\ job'[x] = job[x] /\ job[x].attempt \in Nat
      BY <1>5, Bounds DEF IInv
    <3> QED BY <1>1, <1>3, <1>4, <2>1, <3>1 DEF Tried
  <2> QED BY <1>1, <2>1, <2>2, <2>3 DEF Tried, Live
<1>9. row' = [row EXCEPT ![d] = row[d]]
  BY <1>1 DEF Typed
<1>10. Unexposed' /\ Counted'
  BY <1>1, <1>3, <1>4, <1>6, <1>7, <1>8, <1>9, OthersRest
<1>11. Typed' /\ ActiveBelowThreshold'
  BY <1>1, <1>4, <1>5, Bounds DEF IInv, Typed, ActiveBelowThreshold
<1> QED BY <1>10, <1>11 DEF IInv

-------------------------------------------------------------------------------
(* Endpoints.                                                               *)
LEMMA StreaksKeepInv ==
    ASSUME IInv, NEW w \in Workers, ResetStreak(w) \/ BumpStreak(w)
    PROVE  IInv'
<1>1. /\ job[w].phase \in {"reset", "streak"} /\ Finish(w, "idle") /\ Typed
      /\ UNCHANGED <<row, owed, exposed, lost, mishaps>>
  BY DEF ResetStreak, BumpStreak, IInv
<1>2. Target(w) \in Endpoints
  BY <1>1, TargetIsAnEndpoint
<1>3. /\ job' \in [Workers -> Jobs] /\ One'
      /\ \A x \in Workers, d \in Deliveries :
            /\ BusyOn(x, d)' <=> BusyOn(x, d)
            /\ BusyOn(x, d) => job'[x].attempt = job[x].attempt
  <2>1. /\ job' \in [Workers -> Jobs] /\ One'
        /\ \A x \in Workers : x # w => job'[x] = job[x]
        /\ \A x \in Workers, d \in Deliveries :
              BusyOn(x, d)' => x # w /\ BusyOn(x, d) /\ job'[x] = job[x]
    BY <1>1, Finished
  <2>2. \A d \in Deliveries : ~ BusyOn(w, d)
    BY <1>1 DEF BusyOn, Busy
  <2> QED BY <2>1, <2>2 DEF BusyOn
<1>4. Unexposed' /\ Counted'
  BY <1>1, <1>3, RowsRest
<1>5. PICK p \in Endpoints : p = Target(w)
  BY <1>2
<1>6. ep[p] \in Sinks /\ ep[p].streak \in Nat /\ Threshold \in Nat \ {0}
  BY <1>1, Bounds DEF Typed, Sinks
<1>7. \E e \in Sinks : ep' = [ep EXCEPT ![p] = e] /\ (e.active => e.streak < Threshold)
  <2>1. CASE ResetStreak(w)
    <3> DEFINE e == [ep[p] EXCEPT !.streak = 0]
    <3>1. e \in Sinks /\ e.streak = 0
      BY <1>6 DEF Sinks
    <3>2. ep' = [ep EXCEPT ![p] = e]
      BY <1>1, <1>5, <2>1 DEF ResetStreak, Typed, Sinks
    <3> HIDE DEF e
    <3>3. e.streak < Threshold
      BY <1>6, <3>1
    <3> QED BY <3>1, <3>2, <3>3, Zenon
  <2>2. CASE BumpStreak(w)
    <3>1. ep' = [ep EXCEPT ![p] = IF ep[p].exists THEN Bumped(ep[p]) ELSE ep[p]]
      BY <1>5, <2>2, Zenon DEF BumpStreak
    <3>2. Bumped(ep[p]) \in Sinks /\ (Bumped(ep[p]).active => Bumped(ep[p]).streak < Threshold)
      <4> DEFINE n == ep[p].streak + 1
                 on == ep[p].active /\ ep[p].streak + 1 < Threshold
      <4>1. n \in Nat /\ on \in BOOLEAN /\ (on => n < Threshold)
        BY <1>6
      <4>2. Bumped(ep[p]) = [ep[p] EXCEPT !.streak = n, !.active = on]
        BY Zenon DEF Bumped
      <4> HIDE DEF n, on
      <4>3. /\ [ep[p] EXCEPT !.streak = n, !.active = on] \in Sinks
            /\ [ep[p] EXCEPT !.streak = n, !.active = on].streak = n
            /\ [ep[p] EXCEPT !.streak = n, !.active = on].active = on
        BY <1>6, <4>1 DEF Sinks
      <4> QED BY <4>1, <4>2, <4>3
    <3>3. ep[p].active => ep[p].streak < Threshold
      BY DEF IInv, ActiveBelowThreshold
    <3> QED BY <1>6, <3>1, <3>2, <3>3
  <2> QED BY <1>1, <2>1, <2>2
<1>8. ep' \in [Endpoints -> Sinks] /\ ActiveBelowThreshold'
  <2>1. PICK e \in Sinks : ep' = [ep EXCEPT ![p] = e] /\ (e.active => e.streak < Threshold)
    BY <1>7
  <2> QED BY <1>1, <2>1 DEF IInv, Typed, ActiveBelowThreshold
<1>9. Typed'
  BY <1>1, <1>3, <1>8 DEF Typed
<1> QED BY <1>4, <1>8, <1>9 DEF IInv

LEMMA SettingsKeepInv ==
    ASSUME IInv, NEW p \in Endpoints, Pause(p) \/ Resume(p)
    PROVE  IInv'
<1>1. /\ Mishap /\ Typed /\ UNCHANGED <<row, job, owed, exposed, lost>>
      /\ \/ ep' = [ep EXCEPT ![p].active = FALSE]
         \/ ep' = [ep EXCEPT ![p] = [@ EXCEPT !.active = TRUE, !.streak = 0]]
  BY DEF Pause, Resume, IInv
<1>2. ep[p] \in Sinks /\ Threshold \in Nat \ {0}
  BY <1>1, Bounds DEF Typed
<1>3. \E e \in Sinks : ep' = [ep EXCEPT ![p] = e] /\ (e.active => e.streak < Threshold)
  <2> DEFINE paused == [ep[p] EXCEPT !.active = FALSE]
             resumed == [ep[p] EXCEPT !.active = TRUE, !.streak = 0]
  <2>1. /\ paused \in Sinks /\ paused.active = FALSE
        /\ resumed \in Sinks /\ resumed.streak = 0
    BY <1>2 DEF Sinks
  <2>2. ep' = [ep EXCEPT ![p] = paused] \/ ep' = [ep EXCEPT ![p] = resumed]
    BY <1>1 DEF Typed
  <2> HIDE DEF paused, resumed
  <2>3. resumed.streak < Threshold
    BY <1>2, <2>1
  <2> QED BY <2>1, <2>2, <2>3, Zenon
<1>4. ep' \in [Endpoints -> Sinks] /\ ActiveBelowThreshold'
  BY <1>1, <1>3 DEF IInv, Typed, ActiveBelowThreshold
<1>5. Unexposed' /\ Counted'
  BY <1>1, RowsRest DEF BusyOn
<1>6. Typed'
  BY <1>1, <1>4, Bounds DEF Typed, One
<1> QED BY <1>4, <1>5, <1>6 DEF IInv

LEMMA RequeueKeepsInv ==
    ASSUME IInv, NEW d \in Deliveries, Requeue(d)
    PROVE  IInv'
<1> DEFINE r == [status |-> "pending", attempts |-> 0, due |-> "now"]
<1>1. r \in Rows /\ r.status = "pending" /\ r.attempts = 0 /\ r.due = "now"
  BY DEF Rows, Statuses, Dues
<1>2. /\ row' = [row EXCEPT ![d] = r] /\ Mishap /\ lost' = [lost EXCEPT ![d] = 0]
      /\ owed' = owed \union {d} /\ Typed
      /\ exposed' = IF WorkersOn(d) # {} THEN exposed \union {d} ELSE exposed
      /\ UNCHANGED <<ep, job>>
  BY DEF Requeue, Requeued, IInv
<1> HIDE DEF r
<1>3. row' \in [Deliveries -> Rows] /\ row'[d] = r
  BY <1>1, <1>2 DEF Typed
<1>4. /\ lost' \in [Deliveries -> Nat] /\ lost'[d] = 0
      /\ \A e \in Deliveries : e # d => lost'[e] = lost[e]
  BY <1>2 DEF Typed
<1>5. \A w \in Workers, e \in Deliveries : BusyOn(w, e)' <=> BusyOn(w, e)
  BY <1>2 DEF BusyOn
<1>6. d \notin exposed' => Safe(d)'
  <2> SUFFICES ASSUME d \notin exposed' PROVE Safe(d)'
    OBVIOUS
  <2>1. \A w \in Workers : ~ BusyOn(w, d)
    BY <1>2 DEF WorkersOn, BusyOn
  <2> QED BY <1>5, <2>1 DEF Safe
<1>7. Tried(d)'
  <2>1. \A w \in Workers : BusyOn(w, d)' =>
           job'[w].attempt >= 1 /\ 1 <= job'[w].attempt + 0 /\ 0 <= job'[w].attempt + 0
    <3> SUFFICES ASSUME NEW w \in Workers, BusyOn(w, d)
                 PROVE  job'[w].attempt >= 1 /\ 1 <= job'[w].attempt + 0
                        /\ 0 <= job'[w].attempt + 0
      BY <1>5
    <3>1. job[w].attempt \in Nat /\ job[w].attempt >= 1 /\ job' = job
      BY <1>2, Bounds DEF IInv, Counted, Tried
    <3> QED BY <3>1
  <2>2. Budget \in Nat /\ Live(d)'
    BY <1>1, <1>2, <1>3, Bounds DEF Live
  <2>3. 0 <= Budget + 0 /\ 0 <= Budget + 1 + 0 /\ 0 + 1 = 1
    BY <2>2
  <2> QED BY <1>1, <1>3, <1>4, <2>1, <2>2, <2>3 DEF Tried
<1>8. exposed \subseteq exposed' /\ exposed' \subseteq exposed \union {d}
  BY <1>2
<1>9. Unexposed' /\ Counted'
  BY <1>1, <1>2, <1>4, <1>5, <1>6, <1>7, <1>8, OthersRest
<1>10. Typed' /\ ActiveBelowThreshold'
  BY <1>2, <1>3, <1>4, <1>8, Bounds DEF IInv, Typed, One, ActiveBelowThreshold
<1> QED BY <1>9, <1>10 DEF IInv

LEMMA DeleteKeepsInv ==
    ASSUME IInv, NEW p \in Endpoints, DeleteEndpoint(p)
    PROVE  IInv'
<1> DEFINE gone == [exists |-> FALSE, active |-> FALSE, streak |-> 0]
<1>1. /\ Mishap /\ Typed /\ ep' = [ep EXCEPT ![p] = gone]
      /\ row' = [d \in Deliveries |->
                    IF EndpointOf[d] = p /\ Live(d)
                    THEN [row[d] EXCEPT !.status = "deleted", !.due = "never"] ELSE row[d]]
      /\ UNCHANGED <<job, owed, exposed, lost>>
  BY DEF DeleteEndpoint, IInv
<1>2. gone \in Sinks /\ gone.active = FALSE
  BY DEF Sinks
<1> HIDE DEF gone
<1>3. ep' \in [Endpoints -> Sinks] /\ ActiveBelowThreshold'
  BY <1>1, <1>2 DEF IInv, Typed, ActiveBelowThreshold
<1>4. \A d \in Deliveries :
         /\ row'[d] \in Rows /\ row'[d].attempts = row[d].attempts
         /\ \/ row'[d] = row[d]
            \/ row'[d].status = "deleted" /\ row'[d].due = "never"
  BY <1>1, Bounds DEF Rows, Statuses, Dues
<1>5. \A w \in Workers, d \in Deliveries : BusyOn(w, d)' <=> BusyOn(w, d)
  BY <1>1 DEF BusyOn
<1>6. Unexposed'
  <2> SUFFICES ASSUME NEW d \in Deliveries, d \notin exposed PROVE Safe(d)'
    BY <1>1 DEF Unexposed
  <2>1. Safe(d)
    BY DEF IInv, Unexposed
  <2> QED BY <1>4, <1>5, <2>1 DEF Safe
<1>7. Counted'
  <2> SUFFICES ASSUME NEW d \in Deliveries PROVE Tried(d)'
    BY DEF Counted
  <2>1. Tried(d)
    BY DEF IInv, Counted
  <2>2. CASE row'[d] = row[d]
    BY <1>1, <1>5, <2>1, <2>2 DEF Tried, Live
  <2>3. CASE row'[d].status = "deleted" /\ row'[d].due = "never"
    BY <1>1, <1>4, <1>5, <2>1, <2>3 DEF Tried
  <2> QED BY <1>4, <2>2, <2>3
<1>8. Typed'
  <2>1. row' \in [Deliveries -> Rows]
    BY <1>1, <1>4
  <2> QED BY <1>1, <1>3, <2>1, Bounds DEF Typed, One
<1> QED BY <1>3, <1>6, <1>7, <1>8 DEF IInv

-------------------------------------------------------------------------------
LEMMA InitInv == Init => IInv
<1> SUFFICES ASSUME Init PROVE IInv
  OBVIOUS
<1>1. /\ row = [d \in Deliveries |-> [status |-> "none", attempts |-> 0, due |-> "never"]]
      /\ ep = [p \in Endpoints |-> [exists |-> TRUE, active |-> TRUE, streak |-> 0]]
      /\ job = [w \in Workers |-> Idle] /\ owed = {} /\ exposed = {}
      /\ lost = [d \in Deliveries |-> 0] /\ mishaps = 0
  BY DEF Init
<1>2. Idle \in Jobs /\ Idle.phase = "idle"
  BY DEF Idle, Jobs, Phases
<1>3. Typed
  BY <1>1, <1>2, DeliveryAssumption DEF Typed, One, Rows, Statuses, Dues, Sinks
<1>4. \A w \in Workers, d \in Deliveries : ~ BusyOn(w, d)
  BY <1>1, <1>2 DEF BusyOn, Busy
<1>5. Unexposed
  BY <1>4 DEF Unexposed, Safe
<1>6. Counted
  <2>1. \A d \in Deliveries : row[d].attempts = 0 /\ row[d].due = "never" /\ lost[d] = 0
    BY <1>1
  <2>2. 0 <= Budget + 1 + 0
    BY DeliveryAssumption
  <2> QED BY <1>4, <2>1, <2>2 DEF Counted, Tried
<1>7. ActiveBelowThreshold
  BY <1>1, DeliveryAssumption DEF ActiveBelowThreshold
<1> QED BY <1>3, <1>5, <1>6, <1>7 DEF IInv

LEMMA EveryStep == IInv /\ [Next]_vars => IInv'
<1> SUFFICES ASSUME IInv, [Next]_vars PROVE IInv'
  OBVIOUS
<1>1. CASE UNCHANGED vars
  BY <1>1 DEF vars, IInv, Typed, One, Unexposed, Safe, Counted, Tried, BusyOn, Live,
              ActiveBelowThreshold
<1>2. CASE \E d \in Deliveries : Enqueue(d) \/ TimePasses(d) \/ Requeue(d)
  BY <1>2, EnqueueKeepsInv, TimeKeepsInv, RequeueKeepsInv
<1>3. CASE \E w \in Workers : (\E d \in Deliveries : Claim(w, d)) \/ Crash(w)
  BY <1>3, ClaimKeepsInv, CrashKeepsInv
<1>4. CASE \E w \in Workers : WorkerStep(w)
  BY <1>4, PostKeepsInv, OutcomesKeepInv, StreaksKeepInv DEF WorkerStep
<1>5. CASE \E p \in Endpoints : Pause(p) \/ Resume(p) \/ DeleteEndpoint(p)
  BY <1>5, SettingsKeepInv, DeleteKeepsInv
<1> QED BY <1>1, <1>2, <1>3, <1>4, <1>5 DEF Next

LEMMA AlwaysIInv == Spec => []IInv
BY InitInv, EveryStep, PTL DEF Spec

(* The kinds of every variable, and that a worker busy with a delivery is   *)
(* busy with one.                                                           *)
THEOREM TypesHold == Spec => []TypeOK
<1>1. IInv => TypeOK
  BY TypedIsTypeOK DEF IInv
<1> QED BY <1>1, AlwaysIInv, PTL

(* Short of a requeue or a lapse under a worker, the lease keeps a row with *)
(* one worker, though no lock is held during the POST.                      *)
THEOREM LeaseIsExclusive == Spec => []OneWorkerPerDelivery
<1>1. IInv => OneWorkerPerDelivery
  <2> SUFFICES ASSUME IInv, NEW d \in Deliveries, d \notin exposed
               PROVE  Cardinality(WorkersOn(d)) <= 1
    BY DEF OneWorkerPerDelivery
  <2>1. \A w, x \in WorkersOn(d) : w = x
    BY DEF IInv, Unexposed, Safe, WorkersOn, BusyOn
  <2>2. CASE WorkersOn(d) = {}
    BY <2>2, FS_EmptySet
  <2>3. CASE WorkersOn(d) # {}
    <3>1. PICK w \in WorkersOn(d) : TRUE
      BY <2>3
    <3>2. WorkersOn(d) = {w}
      BY <2>1, <3>1
    <3> QED BY <3>2, FS_Singleton
  <2> QED BY <2>2, <2>3
<1> QED BY <1>1, AlwaysIInv, PTL

(* The tries of a delivery are bounded, counting those that were lost.      *)
THEOREM TriesAreBounded == Spec => []BudgetRespected
<1>1. IInv => BudgetRespected
  BY DEF IInv, Counted, Tried, BudgetRespected
<1> QED BY <1>1, AlwaysIInv, PTL

(* An endpoint that still gets events is below the threshold.               *)
THEOREM ActiveMeansBelow == Spec => []ActiveBelowThreshold
<1>1. IInv => ActiveBelowThreshold
  BY DEF IInv
<1> QED BY <1>1, AlwaysIInv, PTL

(* Short of that, a delivered row stays so until somebody requeues it.      *)
THEOREM DeliveredStays == Spec => DeliveredIsFinal
<1> DEFINE Stays == \A d \in Deliveries \ exposed : row[d].status = "delivered" =>
              \/ row'[d].status \in {"delivered", "deleted"}
              \/ d \in owed'
<1>1. IInv /\ [Next]_vars => Stays
  <2> SUFFICES ASSUME IInv, [Next]_vars, NEW d \in Deliveries, d \notin exposed,
                      row[d].status = "delivered"
               PROVE  row'[d].status \in {"delivered", "deleted"} \/ d \in owed'
    OBVIOUS
  <2>1. row \in [Deliveries -> Rows]
    BY DEF IInv, Typed
  <2>2. \A w \in Workers : ~ BusyOn(w, d)
    BY DEF IInv, Unexposed, Safe
  <2>3. CASE UNCHANGED row
    BY <2>3
  <2>4. CASE \E e \in Deliveries : Enqueue(e) \/ \E w \in Workers : Claim(w, e)
    <3>1. PICK e \in Deliveries : e # d /\ \E r : row' = [row EXCEPT ![e] = r]
      BY <2>4, Zenon DEF Enqueue, Claim
    <3> QED BY <2>1, <3>1
  <2>5. CASE \E e \in Deliveries : TimePasses(e)
    <3>1. PICK e \in Deliveries : row' = [row EXCEPT ![e].due = "now"]
      BY <2>5 DEF TimePasses
    <3> QED BY <2>1, <3>1 DEF Rows
  <2>6. CASE \E e \in Deliveries : Requeue(e)
    <3>1. PICK e \in Deliveries : (\E r : row' = [row EXCEPT ![e] = r]) /\ e \in owed'
      BY <2>6, Zenon DEF Requeue
    <3> QED BY <2>1, <3>1
  <2>7. CASE \E w \in Workers : MarkDelivered(w) \/ MarkRetry(w) \/ GiveUp(w) \/ MarkInactive(w)
    <3>1. PICK w \in Workers : MarkDelivered(w) \/ MarkRetry(w) \/ GiveUp(w) \/ MarkInactive(w)
      BY <2>7
    <3>2. job[w].phase \in Busy
      BY <3>1 DEF MarkDelivered, MarkRetry, GiveUp, MarkInactive, Busy
    <3>3. d \notin job[w].of
      BY <2>2, <3>2 DEF BusyOn
    <3>4. row'[d] = row[d]
      BY <3>1, <3>3 DEF MarkDelivered, MarkRetry, GiveUp, MarkInactive, Written
    <3> QED BY <3>4
  <2>8. CASE \E p \in Endpoints : DeleteEndpoint(p)
    <3>1. row'[d] \in {row[d], [row[d] EXCEPT !.status = "deleted", !.due = "never"]}
      BY <2>8 DEF DeleteEndpoint
    <3>2. [row[d] EXCEPT !.status = "deleted", !.due = "never"].status = "deleted"
      BY <2>1 DEF Rows
    <3> QED BY <3>1, <3>2
  <2>9. CASE \/ \E p \in Endpoints : Pause(p) \/ Resume(p)
             \/ \E w \in Workers : ReadTarget(w) \/ Post(w) \/ ResetStreak(w) \/ BumpStreak(w)
                                   \/ Crash(w)
    <3>1. UNCHANGED row
      BY <2>9 DEF Pause, Resume, ReadTarget, Post, ResetStreak, BumpStreak, Crash
    <3> QED BY <2>3, <3>1
  <2> QED BY <2>3, <2>4, <2>5, <2>6, <2>7, <2>8, <2>9 DEF Next, WorkerStep, vars
<1> QED BY <1>1, AlwaysIInv, PTL DEF Spec, DeliveredIsFinal
===============================================================================
