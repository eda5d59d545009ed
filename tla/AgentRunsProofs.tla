---------------------------- MODULE AgentRunsProofs ----------------------------
(***************************************************************************)
(* Connected agents' runs, for any agents, items, notes and bounds: one    *)
(* unfinished run per agent and item, an outcome that stays, a trace that  *)
(* is the latest steps, and no steering note cleared undelivered.          *)
(***************************************************************************)
EXTENDS AgentRuns, TLAPS, FiniteSetTheorems, SequenceTheorems

Rows == [status : Statuses, agent : Agents \union {Nobody}, item : SUBSET Items,
         note : Notes \union {NoNote}, trace : Seq(Nat)]
Requests == [stage : Stages, agent : Agents \union {Nobody}, item : SUBSET Items,
             of : SUBSET Runs, seen : Rows]

OnARun == {"report", "steer", "model", "drafted"}
Asking == {"model", "drafted"}

Busy(c, stages, r) == call[c].stage \in stages /\ r \in call[c].of

(* A report holds the lock of a run that is unfinished, not a skill's, and  *)
(* still as the report has read it; no other report holds it.               *)
Held ==
    /\ \A c \in Calls, r \in Runs : Busy(c, {"report"}, r) =>
          run[r].status \in Active /\ run[r].agent # Nobody /\ call[c].seen = run[r]
    /\ \A c, d \in Calls, r \in Runs :
          Busy(c, {"report"}, r) /\ Busy(d, {"report"}, r) => c = d

(* A skill run under way is one request's, and has said one thing.          *)
Skilled ==
    /\ \A c \in Calls, r \in Runs : Busy(c, Asking, r) =>
          /\ run[r].status # "absent" /\ run[r].agent = Nobody
          /\ call[c].seen.trace = <<1>> /\ said[r] = <<1>>
    /\ \A c, d \in Calls, r \in Runs : Busy(c, Asking, r) /\ Busy(d, Asking, r) => c = d

Steered == \A c \in Calls, r \in Runs : Busy(c, {"steer"}, r) => run[r].status # "absent"

Blank == \A r \in Runs : run[r].status = "absent" => run[r] = NoRun /\ said[r] = <<>>

(* agent_runs_one_active_uq, row by row.                                    *)
Alone ==
    \A r, s \in Runs :
       /\ run[r].status \in Active /\ run[s].status \in Active
       /\ run[r].agent # Nobody
       /\ run[r].agent = run[s].agent /\ run[r].item = run[s].item
       => r = s

NoteOnce == \A r, s \in Runs : run[r].note # NoNote /\ run[r].note = run[s].note => r = s

IInv ==
    /\ TypeOK /\ Held /\ Skilled /\ Steered /\ Blank /\ Alone
    /\ NoteOnce /\ NoNoteClearedUndelivered /\ TraceIsLatestSteps

-------------------------------------------------------------------------------
(* What a step makes of the requests.                                       *)
LEMMA Called ==
    ASSUME TypeOK, NEW c \in Calls, NEW request \in Requests,
           call' = [call EXCEPT ![c] = request]
    PROVE  /\ call' \in [Calls -> Requests]
           /\ call'[c] = request
           /\ \A d \in Calls : d # c => call'[d] = call[d]
BY DEF TypeOK, Requests, Rows

LEMMA NoCallIsARequest ==
    /\ NoRun \in Rows
    /\ NoCall \in Requests
    /\ NoCall.stage = "idle" /\ NoCall.of = {}
<1>1. NoRun \in Rows
  BY EmptySeq DEF NoRun, Rows, Statuses
<1>2. NoCall \in Requests
  BY <1>1 DEF NoCall, Requests, Stages
<1> QED BY <1>1, <1>2 DEF NoCall

LEMMA Left ==
    ASSUME TypeOK, NEW c \in Calls, Leave(c)
    PROVE  /\ call' \in [Calls -> Requests]
           /\ call'[c].stage = "idle" /\ call'[c].of = {}
           /\ \A d \in Calls : d # c => call'[d] = call[d]
BY Called, NoCallIsARequest DEF Leave

LEMMA Reached ==
    ASSUME TypeOK, NEW c \in Calls, NEW stage \in Stages, Reach(c, stage)
    PROVE  /\ call' \in [Calls -> Requests]
           /\ call'[c] = [call[c] EXCEPT !.stage = stage]
           /\ call'[c].stage = stage
           /\ call'[c].of = call[c].of /\ call'[c].seen = call[c].seen
           /\ \A d \in Calls : d # c => call'[d] = call[d]
<1>1. call[c] \in Requests
  BY DEF TypeOK, Requests, Rows
<1>2. [call[c] EXCEPT !.stage = stage] \in Requests
  BY <1>1 DEF Requests
<1>3. call' = [call EXCEPT ![c] = [call[c] EXCEPT !.stage = stage]]
  BY <1>1 DEF Reach, Requests
<1> QED BY <1>1, <1>2, <1>3, Called DEF Requests

(* The kinds, in the words of this module.                                  *)
LEMMA Kinds ==
    ASSUME TypeOK
    PROVE  /\ run \in [Runs -> Rows]
           /\ call \in [Calls -> Requests]
           /\ said \in [Runs -> Seq(Nat)]
           /\ \A c \in Calls : call[c].stage \in OnARun <=> \E r \in Runs : call[c].of = {r}
BY DEF TypeOK, Rows, Requests, OnARun

-------------------------------------------------------------------------------
(* The window a trace is of the steps said.                                 *)
First(s) == IF Len(s) > MaxTrace THEN Len(s) - MaxTrace + 1 ELSE 1
Latest(s) == SubSeq(s, First(s), Len(s))

LEMMA LatestIsASeq ==
    ASSUME NEW s \in Seq(Nat)
    PROVE  /\ Latest(s) \in Seq(Nat)
           /\ Len(Latest(s)) = IF Len(s) > MaxTrace THEN MaxTrace ELSE Len(s)
           /\ \A i \in 1..Len(Latest(s)) : Latest(s)[i] = s[First(s) + i - 1]
<1>1. MaxTrace \in Nat /\ MaxTrace >= 2
  BY RunsAssumption
<1>2. Len(s) \in Nat
  BY LenProperties
<1>3. First(s) \in 1..(Len(s) + 1)
  BY <1>1, <1>2 DEF First
<1>4. /\ Latest(s) \in Seq(Nat)
      /\ Len(Latest(s)) = Len(s) - First(s) + 1
      /\ \A i \in 1..(Len(s) - First(s) + 1) : Latest(s)[i] = s[First(s) + i - 1]
  BY <1>2, <1>3, SubSeqProperties DEF Latest
<1>5. Len(s) - First(s) + 1 = IF Len(s) > MaxTrace THEN MaxTrace ELSE Len(s)
  BY <1>1, <1>2 DEF First
<1> QED BY <1>4, <1>5

(* appendStep moves the window along.                                       *)
LEMMA WindowMoves ==
    ASSUME NEW s \in Seq(Nat), NEW step \in Nat
    PROVE  /\ appendStep(Latest(s), step) = Latest(Append(s, step))
           /\ appendStep(Latest(s), step) \in Seq(Nat)
<1> DEFINE old == Latest(s)
           longer == Append(old, step)
           all == Append(s, step)
<1>1. MaxTrace \in Nat /\ MaxTrace >= 2
  BY RunsAssumption
<1>2. Len(s) \in Nat
  BY LenProperties
<1>3. /\ old \in Seq(Nat)
      /\ Len(old) = IF Len(s) > MaxTrace THEN MaxTrace ELSE Len(s)
      /\ \A i \in 1..Len(old) : old[i] = s[First(s) + i - 1]
  BY LatestIsASeq
<1>4. /\ longer \in Seq(Nat)
      /\ Len(longer) = Len(old) + 1
      /\ \A i \in 1..Len(old) : longer[i] = old[i]
      /\ longer[Len(old) + 1] = step
  BY <1>3, AppendProperties
<1>5. /\ all \in Seq(Nat)
      /\ Len(all) = Len(s) + 1
      /\ \A i \in 1..Len(s) : all[i] = s[i]
      /\ all[Len(s) + 1] = step
  BY AppendProperties
<1>6. /\ Latest(all) \in Seq(Nat)
      /\ Len(Latest(all)) = IF Len(all) > MaxTrace THEN MaxTrace ELSE Len(all)
      /\ \A i \in 1..Len(Latest(all)) : Latest(all)[i] = all[First(all) + i - 1]
  BY <1>5, LatestIsASeq
<1>9. appendStep(old, step) = IF Len(longer) <= MaxTrace THEN longer
                              ELSE SubSeq(longer, Len(longer) - MaxTrace + 1, Len(longer))
  BY Zenon DEF appendStep
<1> HIDE DEF old, longer, all
<1>7. CASE Len(s) < MaxTrace
  <2>1. appendStep(old, step) = longer
    <3>1. Len(longer) <= MaxTrace
      BY <1>1, <1>2, <1>3, <1>4, <1>7
    <3> QED BY <1>9, <3>1
  <2>2. Len(longer) = Len(Latest(all)) /\ Len(longer) = Len(s) + 1
    BY <1>1, <1>2, <1>3, <1>4, <1>5, <1>6, <1>7
  <2>3. First(s) = 1 /\ First(all) = 1
    BY <1>1, <1>2, <1>5, <1>7 DEF First
  <2>4. \A i \in 1..Len(longer) : Latest(all)[i] = all[i]
    BY <1>2, <1>4, <1>6, <2>2, <2>3
  <2>6. \A i \in 1..Len(s) : longer[i] = s[i]
    BY <1>1, <1>2, <1>3, <1>4, <1>7, <2>3
  <2>7. \A i \in 1..Len(longer) : longer[i] = Latest(all)[i]
    <3> SUFFICES ASSUME NEW i \in 1..Len(longer) PROVE longer[i] = Latest(all)[i]
      OBVIOUS
    <3>1. CASE i \in 1..Len(s)
      BY <1>5, <2>4, <2>6, <3>1
    <3>2. CASE i = Len(s) + 1
      BY <1>2, <1>3, <1>4, <1>5, <1>7, <2>4, <3>2
    <3> QED BY <1>2, <2>2, <3>1, <3>2
  <2>5. longer = Latest(all)
    BY <1>4, <1>6, <2>2, <2>7, SeqEqual
  <2> QED BY <1>4, <2>1, <2>5 DEF old, all
<1>8. CASE ~ (Len(s) < MaxTrace)
  <2>1. Len(old) = MaxTrace /\ Len(longer) = MaxTrace + 1
    BY <1>1, <1>2, <1>3, <1>4, <1>8
  <2>2. appendStep(old, step) = SubSeq(longer, 2, Len(longer))
    BY <1>1, <1>9, <2>1
  <2>3. /\ SubSeq(longer, 2, Len(longer)) \in Seq(Nat)
        /\ Len(SubSeq(longer, 2, Len(longer))) = MaxTrace
        /\ \A i \in 1..MaxTrace : SubSeq(longer, 2, Len(longer))[i] = longer[i + 1]
    <3>1. 2 \in 1..(Len(longer) + 1) /\ Len(longer) \in 1..Len(longer)
      BY <1>1, <2>1
    <3> QED BY <1>1, <1>4, <2>1, <3>1, SubSeqProperties
  <2>4. Len(Latest(all)) = MaxTrace
    BY <1>1, <1>2, <1>5, <1>6, <1>8
  <2>5. First(all) = Len(s) + 2 - MaxTrace /\ First(s) = Len(s) + 1 - MaxTrace
    BY <1>1, <1>2, <1>5, <1>8 DEF First
  <2>6. \A i \in 1..MaxTrace : longer[i + 1] = Latest(all)[i]
    <3> SUFFICES ASSUME NEW i \in 1..MaxTrace PROVE longer[i + 1] = Latest(all)[i]
      OBVIOUS
    <3>1. Latest(all)[i] = all[Len(s) + 1 - MaxTrace + i]
      BY <1>1, <1>2, <1>6, <2>4, <2>5
    <3>2. CASE i = MaxTrace
      BY <1>1, <1>2, <1>4, <1>5, <2>1, <3>1, <3>2
    <3>3. CASE i # MaxTrace
      <4>1. i + 1 \in 1..Len(old) /\ Len(s) + 1 - MaxTrace + i \in 1..Len(s)
        BY <1>1, <1>2, <1>8, <2>1, <3>3
      <4>2. longer[i + 1] = old[i + 1]
        BY <1>4, <4>1
      <4>3. old[i + 1] = s[First(s) + (i + 1) - 1]
        BY <1>3, <4>1
      <4>4. First(s) + (i + 1) - 1 = Len(s) + 1 - MaxTrace + i
        BY <1>1, <1>2, <2>5
      <4>5. all[Len(s) + 1 - MaxTrace + i] = s[Len(s) + 1 - MaxTrace + i]
        BY <1>5, <4>1
      <4> QED BY <3>1, <4>2, <4>3, <4>4, <4>5
    <3> QED BY <3>2, <3>3
  <2>7. SubSeq(longer, 2, Len(longer)) = Latest(all)
    BY <1>6, <2>3, <2>4, <2>6, SeqEqual
  <2> QED BY <2>2, <2>3, <2>7 DEF old, all
<1> QED BY <1>7, <1>8

-------------------------------------------------------------------------------
(* One lemma for the parts of the invariant that a step of requests alone   *)
(* can disturb: the runs stand still, one request moves.                    *)
LEMMA OnlyARequestMoves ==
    ASSUME IInv, NEW c \in Calls, UNCHANGED <<run, said, fate>>,
           drafts' \subseteq Runs, shown' \subseteq Notes, crashes' \in 0..MaxCrashes,
           call' \in [Calls -> Requests],
           \A d \in Calls : d # c => call'[d] = call[d],
           call'[c].stage \in OnARun <=> \E r \in Runs : call'[c].of = {r},
           \A r \in Runs : Busy(c, {"report"}, r)' =>
              /\ run[r].status \in Active /\ run[r].agent # Nobody /\ call'[c].seen = run[r]
              /\ \A d \in Calls : Busy(d, {"report"}, r) => d = c,
           \A r \in Runs : Busy(c, Asking, r)' =>
              /\ Busy(c, Asking, r)
              /\ call'[c].seen = call[c].seen,
           \A r \in Runs : Busy(c, {"steer"}, r)' => run[r].status # "absent"
    PROVE  IInv'
<1>1. TypeOK'
  <2>1. TypeOK
    BY DEF IInv
  <2>2. \A d \in Calls : call'[d].stage \in OnARun <=> \E r \in Runs : call'[d].of = {r}
    BY <2>1, Kinds
  <2>3. call' \in [Calls -> Requests]
    OBVIOUS
  <2> QED BY <2>1, <2>2, <2>3 DEF TypeOK, Requests, Rows, OnARun
<1>2. Held'
  <2>1. \A d \in Calls, r \in Runs : d # c => (Busy(d, {"report"}, r)' <=> Busy(d, {"report"}, r))
    BY DEF Busy
  <2> QED BY <2>1 DEF IInv, Held
<1>3. Skilled'
  <2>1. \A d \in Calls, r \in Runs : Busy(d, Asking, r)' =>
           Busy(d, Asking, r) /\ call'[d].seen = call[d].seen
    BY DEF Busy
  <2> QED BY <2>1 DEF IInv, Skilled
<1>4. Steered'
  <2>1. \A d \in Calls, r \in Runs : d # c => (Busy(d, {"steer"}, r)' <=> Busy(d, {"steer"}, r))
    BY DEF Busy
  <2> QED BY <2>1 DEF IInv, Steered
<1>5. Blank' /\ Alone' /\ NoteOnce' /\ NoNoteClearedUndelivered' /\ TraceIsLatestSteps'
  BY DEF IInv, Blank, Alone, NoteOnce, NoNoteClearedUndelivered, TraceIsLatestSteps
<1> QED BY <1>1, <1>2, <1>3, <1>4, <1>5 DEF IInv

(* A request that is over is busy with nothing.                             *)
LEMMA LeaveKeepsInv ==
    ASSUME IInv, NEW c \in Calls, Leave(c), UNCHANGED <<run, drafts, said, fate>>,
           shown' \subseteq Notes, crashes' \in 0..MaxCrashes
    PROVE  IInv'
<1>1. /\ call' \in [Calls -> Requests]
      /\ call'[c].stage = "idle" /\ call'[c].of = {}
      /\ \A d \in Calls : d # c => call'[d] = call[d]
  BY Left DEF IInv
<1>2. \A r \in Runs, stages \in {{"report"}, Asking, {"steer"}} : ~ Busy(c, stages, r)'
  BY <1>1 DEF Busy
<1>3. ~ (call'[c].stage \in OnARun) /\ ~ \E r \in Runs : call'[c].of = {r}
  BY <1>1 DEF OnARun
<1> QED BY <1>1, <1>2, <1>3, OnlyARequestMoves DEF IInv, TypeOK

-------------------------------------------------------------------------------
(* A run is written: what must be known of the row, besides the requests.   *)
LEMMA ARowIsWritten ==
    ASSUME TypeOK, NEW r \in Runs, NEW row \in Rows, run' = [run EXCEPT ![r] = row]
    PROVE  /\ run' \in [Runs -> Rows]
           /\ run'[r] = row
           /\ \A s \in Runs : s # r => run'[s] = run[s]
BY Kinds

LEMMA AStepIsSaid ==
    ASSUME TypeOK, NEW r \in Runs, Accept(r)
    PROVE  /\ said' \in [Runs -> Seq(Nat)]
           /\ said'[r] = Append(said[r], NextStep(r))
           /\ \A s \in Runs : s # r => said'[s] = said[s]
           /\ NextStep(r) \in Nat
<1>1. said[r] \in Seq(Nat)
  BY DEF TypeOK
<1>2. NextStep(r) \in Nat
  BY <1>1, LenProperties DEF NextStep
<1>3. Append(said[r], NextStep(r)) \in Seq(Nat)
  BY <1>1, <1>2, AppendProperties
<1> QED BY <1>2, <1>3 DEF Accept, TypeOK

LEMMA StartOpenKeepsInv ==
    ASSUME IInv, NEW c \in Calls, NEW a \in Agents \union {Nobody}, NEW i \in Items,
           StartOpen(c, a, i)
    PROVE  IInv'
<1> DEFINE request == [NoCall EXCEPT !.stage = "find", !.agent = a, !.item = {i}]
<1>1. request \in Requests /\ request.stage = "find" /\ request.of = {}
  BY NoCallIsARequest DEF NoCall, Requests, Stages
<1>2. call' = [call EXCEPT ![c] = request]
  BY DEF StartOpen
<1> HIDE DEF request
<1>3. /\ call' \in [Calls -> Requests] /\ call'[c] = request
      /\ \A d \in Calls : d # c => call'[d] = call[d]
  BY <1>1, <1>2, Called DEF IInv
<1>4. \A r \in Runs : ~ Busy(c, {"report"}, r)' /\ ~ Busy(c, Asking, r)' /\ ~ Busy(c, {"steer"}, r)'
  BY <1>1, <1>3 DEF Busy
<1>5. ~ (call'[c].stage \in OnARun) /\ ~ \E r \in Runs : call'[c].of = {r}
  BY <1>1, <1>3 DEF OnARun
<1>6. UNCHANGED <<run, drafts, said, fate, shown, crashes>>
  BY DEF StartOpen
<1> QED BY <1>3, <1>4, <1>5, <1>6, OnlyARequestMoves DEF IInv, TypeOK

(* What an agent finds is its own; the request of a skill finds nothing.    *)
LEMMA FoundIsAnAgents ==
    ASSUME NEW c \in Calls, NEW r \in Found(c)
    PROVE  call[c].agent # Nobody
BY DEF Found

(* What an answer shows is a note, and nothing else of the runs changes.    *)
LEMMA AnAgentIsAnswered ==
    ASSUME IInv, NEW c \in Calls, NEW r \in Found(c), Opened(c, r, run[r])
    PROVE  /\ Leave(c) /\ shown' \subseteq Notes
           /\ shown' = shown \union ({run[r].note} \ {NoNote})
           /\ r \in Runs /\ run[r].status \in Active /\ run[r].agent # Nobody
<1>1. call[c].agent # Nobody
  BY FoundIsAnAgents
<1>2. r \in Runs /\ run[r].status \in Active /\ run[r].agent = call[c].agent
  BY <1>1 DEF Found, ActiveRuns
<1>3. Leave(c) /\ shown' = shown \union ({run[r].note} \ {NoNote})
  BY <1>1 DEF Opened, Answered
<1>4. run[r].note \in Notes \union {NoNote} /\ shown \subseteq Notes
  BY <1>2 DEF IInv, TypeOK
<1> QED BY <1>1, <1>2, <1>3, <1>4

LEMMA FindKeepsInv ==
    ASSUME IInv, NEW c \in Calls, Find(c)
    PROVE  IInv'
<1>1. call[c].stage = "find" /\ UNCHANGED <<run, drafts, said, fate, crashes>>
  BY DEF Find
<1>2. CASE \E r \in Found(c) : Opened(c, r, run[r])
  BY <1>1, <1>2, AnAgentIsAnswered, LeaveKeepsInv DEF IInv, TypeOK
<1>3. CASE Reach(c, "insert") /\ UNCHANGED shown
  <2>1. /\ call' \in [Calls -> Requests]
        /\ call'[c].stage = "insert" /\ call'[c].of = call[c].of
        /\ \A d \in Calls : d # c => call'[d] = call[d]
    BY <1>3, Reached DEF IInv, Stages
  <2>2. \A r \in Runs : ~ Busy(c, {"report"}, r)' /\ ~ Busy(c, Asking, r)' /\ ~ Busy(c, {"steer"}, r)'
    BY <2>1 DEF Busy, Asking
  <2>3. ~ (call'[c].stage \in OnARun) /\ ~ \E r \in Runs : call'[c].of = {r}
    BY <1>1, <2>1, Kinds DEF OnARun, IInv
  <2>4. shown' \subseteq Notes
    BY <1>3 DEF IInv, TypeOK
  <2> QED BY <1>1, <2>1, <2>2, <2>3, <2>4, OnlyARequestMoves DEF IInv, TypeOK
<1> QED BY <1>2, <1>3 DEF Find

LEMMA RefindKeepsInv ==
    ASSUME IInv, NEW c \in Calls, InsertRefused(c) \/ Refind(c)
    PROVE  IInv'
<1>1. CASE Refind(c)
  <2>1. UNCHANGED <<run, drafts, said, fate, crashes>>
    BY <1>1 DEF Refind
  <2>2. CASE \E r \in Found(c) : Opened(c, r, run[r])
    BY <2>1, <2>2, AnAgentIsAnswered, LeaveKeepsInv DEF IInv, TypeOK
  <2>3. CASE Leave(c) /\ UNCHANGED shown
    BY <2>1, <2>3, LeaveKeepsInv DEF IInv, TypeOK
  <2> QED BY <1>1, <2>2, <2>3 DEF Refind
<1>2. CASE InsertRefused(c)
  <2>1. call[c].stage = "insert" /\ UNCHANGED <<run, drafts, said, fate, shown, crashes>>
    BY <1>2 DEF InsertRefused
  <2>2. /\ call' \in [Calls -> Requests]
        /\ call'[c].stage = "refind" /\ call'[c].of = call[c].of
        /\ \A d \in Calls : d # c => call'[d] = call[d]
    BY <1>2, Reached DEF IInv, Stages, InsertRefused
  <2>3. \A r \in Runs : ~ Busy(c, {"report"}, r)' /\ ~ Busy(c, Asking, r)' /\ ~ Busy(c, {"steer"}, r)'
    BY <2>2 DEF Busy, Asking
  <2>4. ~ (call'[c].stage \in OnARun) /\ ~ \E r \in Runs : call'[c].of = {r}
    BY <2>1, <2>2, Kinds DEF OnARun, IInv
  <2> QED BY <2>1, <2>2, <2>3, <2>4, OnlyARequestMoves DEF IInv, TypeOK
<1> QED BY <1>1, <1>2

LEMMA ReportReadsKeepsInv ==
    ASSUME IInv, NEW c \in Calls, NEW a \in Agents, NEW r \in Runs, ReportReads(c, a, r)
    PROVE  IInv'
<1> DEFINE request == [NoCall EXCEPT !.stage = "report", !.agent = a, !.of = {r}, !.seen = run[r]]
<1>0. run[r] \in Rows
  BY Kinds DEF IInv
<1>1. /\ request \in Requests /\ request.stage = "report"
      /\ request.of = {r} /\ request.seen = run[r]
  BY <1>0, NoCallIsARequest DEF NoCall, Requests, Stages
<1>2. call' = [call EXCEPT ![c] = request]
  BY DEF ReportReads
<1> HIDE DEF request
<1>3. /\ call' \in [Calls -> Requests] /\ call'[c] = request
      /\ \A d \in Calls : d # c => call'[d] = call[d]
  BY <1>1, <1>2, Called DEF IInv
<1>4. \A s \in Runs : Busy(c, {"report"}, s)' =>
         /\ run[s].status \in Active /\ run[s].agent # Nobody /\ call'[c].seen = run[s]
         /\ \A d \in Calls : Busy(d, {"report"}, s) => d = c
  BY <1>1, <1>3, RunsAssumption DEF Busy, ReportReads, Locked
<1>5. \A s \in Runs : ~ Busy(c, Asking, s)' /\ ~ Busy(c, {"steer"}, s)'
  BY <1>1, <1>3 DEF Busy, Asking
<1>6. call'[c].stage \in OnARun /\ \E s \in Runs : call'[c].of = {s}
  BY <1>1, <1>3 DEF OnARun
<1>7. UNCHANGED <<run, drafts, said, fate, shown, crashes>>
  BY DEF ReportReads
<1> QED BY <1>3, <1>4, <1>5, <1>6, <1>7, OnlyARequestMoves DEF IInv, TypeOK

LEMMA SteerReadsKeepsInv ==
    ASSUME IInv, NEW c \in Calls, NEW r \in Runs, SteerReads(c, r)
    PROVE  IInv'
<1> DEFINE request == [NoCall EXCEPT !.stage = "steer", !.of = {r}, !.seen = run[r]]
<1>0. run[r] \in Rows
  BY Kinds DEF IInv
<1>1. request \in Requests /\ request.stage = "steer" /\ request.of = {r}
  BY <1>0, NoCallIsARequest DEF NoCall, Requests, Stages
<1>2. call' = [call EXCEPT ![c] = request]
  BY DEF SteerReads
<1> HIDE DEF request
<1>3. /\ call' \in [Calls -> Requests] /\ call'[c] = request
      /\ \A d \in Calls : d # c => call'[d] = call[d]
  BY <1>1, <1>2, Called DEF IInv
<1>4. \A s \in Runs : Busy(c, {"steer"}, s)' => run[s].status # "absent"
  BY <1>1, <1>3 DEF Busy, SteerReads, Active
<1>5. \A s \in Runs : ~ Busy(c, Asking, s)' /\ ~ Busy(c, {"report"}, s)'
  BY <1>1, <1>3 DEF Busy, Asking
<1>6. call'[c].stage \in OnARun /\ \E s \in Runs : call'[c].of = {s}
  BY <1>1, <1>3 DEF OnARun
<1>7. UNCHANGED <<run, drafts, said, fate, shown, crashes>>
  BY DEF SteerReads
<1> QED BY <1>3, <1>4, <1>5, <1>6, <1>7, OnlyARequestMoves DEF IInv, TypeOK

LEMMA SkillProposesKeepsInv ==
    ASSUME IInv, NEW c \in Calls, SkillProposes(c)
    PROVE  IInv'
<1>1. call[c].stage = "model" /\ call[c].of \subseteq Runs
  BY Kinds DEF SkillProposes, IInv, Requests
<1>2. /\ call' \in [Calls -> Requests] /\ call'[c].stage = "drafted"
      /\ call'[c].of = call[c].of /\ call'[c].seen = call[c].seen
      /\ \A d \in Calls : d # c => call'[d] = call[d]
  BY Reached DEF SkillProposes, IInv, Stages
<1>3. \A r \in Runs : ~ Busy(c, {"report"}, r)' /\ ~ Busy(c, {"steer"}, r)'
  BY <1>2 DEF Busy
<1>4. \A r \in Runs : Busy(c, Asking, r)' => Busy(c, Asking, r) /\ call'[c].seen = call[c].seen
  BY <1>1, <1>2 DEF Busy, Asking
<1>5. call'[c].stage \in OnARun /\ \E r \in Runs : call'[c].of = {r}
  BY <1>1, <1>2, Kinds DEF OnARun, IInv
<1>6. /\ UNCHANGED <<run, said, fate>> /\ drafts' \subseteq Runs
      /\ shown' \subseteq Notes /\ crashes' \in 0..MaxCrashes
  BY <1>1 DEF SkillProposes, IInv, TypeOK
<1> QED BY <1>2, <1>3, <1>4, <1>5, <1>6, OnlyARequestMoves

LEMMA CrashKeepsInv ==
    ASSUME IInv, NEW c \in Calls, Crash(c)
    PROVE  IInv'
<1>1. crashes' \in 0..MaxCrashes /\ shown' \subseteq Notes
  BY RunsAssumption DEF Crash, IInv, TypeOK
<1> QED BY <1>1, LeaveKeepsInv DEF Crash

-------------------------------------------------------------------------------
(* A run is opened: it was absent, so nobody was busy with it.              *)
LEMMA NobodyIsOnAnAbsentRun ==
    ASSUME IInv, NEW r \in Runs, run[r].status = "absent"
    PROVE  \A d \in Calls : /\ ~ Busy(d, {"report"}, r)
                            /\ ~ Busy(d, Asking, r)
                            /\ ~ Busy(d, {"steer"}, r)
BY DEF IInv, Held, Skilled, Steered, Active

(* One run is written, by a request that moves or by a cancellation; the    *)
(* notes are each action's own business.                                    *)
LEMMA OneRunMoves ==
    ASSUME IInv, NEW r \in Runs, NEW row \in Rows, run' = [run EXCEPT ![r] = row],
           row.status # "absent", row.trace = Latest(said'[r]),
           row.status \in Active /\ row.agent # Nobody =>
              \A s \in Runs : s # r =>
                 ~ /\ run[s].status \in Active
                   /\ run[s].agent = row.agent /\ run[s].item = row.item,
           said' \in [Runs -> Seq(Nat)], \A s \in Runs : s # r => said'[s] = said[s],
           drafts' \subseteq Runs, crashes' \in 0..MaxCrashes,
           fate' \in [Notes -> Fates], shown' \subseteq Notes,
           call' \in [Calls -> Requests],
           \A d \in Calls : call'[d].stage \in OnARun <=> \E s \in Runs : call'[d].of = {s},
           \A d \in Calls : ~ Busy(d, {"report"}, r)',
           \A d \in Calls, s \in Runs :
              Busy(d, {"report"}, s)' => Busy(d, {"report"}, s) /\ call'[d].seen = call[d].seen,
           \A d \in Calls, s \in Runs : Busy(d, {"steer"}, s)' => Busy(d, {"steer"}, s),
           \A d \in Calls, s \in Runs :
              s # r /\ Busy(d, Asking, s)' => Busy(d, Asking, s) /\ call'[d].seen = call[d].seen,
           \A d \in Calls : Busy(d, Asking, r)' =>
              /\ row.agent = Nobody /\ call'[d].seen.trace = << 1 >> /\ said'[r] = << 1 >>
              /\ \A e \in Calls : Busy(e, Asking, r)' => e = d
    PROVE  TypeOK' /\ Held' /\ Skilled' /\ Steered' /\ Blank' /\ Alone' /\ TraceIsLatestSteps'
<1>1. /\ run' \in [Runs -> Rows] /\ run'[r] = row
      /\ \A s \in Runs : s # r => run'[s] = run[s]
  BY ARowIsWritten DEF IInv
<1>2. TypeOK'
  BY <1>1 DEF TypeOK, Rows, Requests, OnARun
<1>3. Held'
  <2>1. \A d \in Calls, s \in Runs : Busy(d, {"report"}, s)' => s # r
    OBVIOUS
  <2>2. \A d \in Calls, s \in Runs : Busy(d, {"report"}, s)' =>
           run'[s].status \in Active /\ run'[s].agent # Nobody /\ call'[d].seen = run'[s]
    BY <1>1, <2>1 DEF IInv, Held
  <2>3. \A d, e \in Calls, s \in Runs : Busy(d, {"report"}, s)' /\ Busy(e, {"report"}, s)' => d = e
    BY DEF IInv, Held
  <2> QED BY <2>2, <2>3 DEF Held
<1>4. Skilled'
  <2>1. \A c \in Calls, s \in Runs : Busy(c, Asking, s)' =>
           /\ run'[s].status # "absent" /\ run'[s].agent = Nobody
           /\ call'[c].seen.trace = <<1>> /\ said'[s] = <<1>>
    BY <1>1 DEF IInv, Skilled
  <2>2. \A c, d \in Calls, s \in Runs : Busy(c, Asking, s)' /\ Busy(d, Asking, s)' => c = d
    BY DEF IInv, Skilled
  <2> QED BY <2>1, <2>2 DEF Skilled
<1>5. Steered'
  BY <1>1 DEF IInv, Steered
<1>6. Blank'
  BY <1>1 DEF IInv, Blank
<1>7. Alone'
  BY <1>1 DEF IInv, Alone
<1>8. TraceIsLatestSteps'
  <2>1. \A s \in Runs : run[s].trace = Latest(said[s])
    BY DEF IInv, TraceIsLatestSteps, Latest, First
  <2>2. \A s \in Runs : run'[s].trace = Latest(said'[s])
    BY <1>1, <2>1
  <2> QED BY <2>2 DEF TraceIsLatestSteps, Latest, First
<1> QED BY <1>2, <1>3, <1>4, <1>5, <1>6, <1>7, <1>8

(* What a request that leaves was busy with, nobody is busy with for it.    *)
LEMMA OthersGoOn ==
    ASSUME IInv, NEW c \in Calls, Leave(c)
    PROVE  /\ call' \in [Calls -> Requests]
           /\ \A d \in Calls : call'[d].stage \in OnARun <=> \E s \in Runs : call'[d].of = {s}
           /\ \A s \in Runs : ~ Busy(c, {"report"}, s)' /\ ~ Busy(c, Asking, s)' /\ ~ Busy(c, {"steer"}, s)'
           /\ \A d \in Calls, s \in Runs :
                 /\ Busy(d, {"report"}, s)' => Busy(d, {"report"}, s) /\ call'[d].seen = call[d].seen
                 /\ Busy(d, {"steer"}, s)' => Busy(d, {"steer"}, s)
                 /\ Busy(d, Asking, s)' => Busy(d, Asking, s) /\ call'[d].seen = call[d].seen
<1>1. /\ call' \in [Calls -> Requests]
      /\ call'[c].stage = "idle" /\ call'[c].of = {}
      /\ \A d \in Calls : d # c => call'[d] = call[d]
  BY Left DEF IInv
<1>2. \A s \in Runs : ~ Busy(c, {"report"}, s)' /\ ~ Busy(c, Asking, s)' /\ ~ Busy(c, {"steer"}, s)'
  BY <1>1 DEF Busy
<1>3. \A d \in Calls, s \in Runs : d # c =>
         /\ Busy(d, {"report"}, s)' <=> Busy(d, {"report"}, s)
         /\ Busy(d, {"steer"}, s)' <=> Busy(d, {"steer"}, s)
         /\ Busy(d, Asking, s)' <=> Busy(d, Asking, s)
  BY <1>1 DEF Busy
<1>4. \A d \in Calls : call'[d].stage \in OnARun <=> \E s \in Runs : call'[d].of = {s}
  <2>1. ~ (call'[c].stage \in OnARun) /\ ~ \E s \in Runs : call'[c].of = {s}
    BY <1>1 DEF OnARun
  <2> QED BY <1>1, <2>1, Kinds DEF IInv
<1> QED BY <1>1, <1>2, <1>3, <1>4

(* A note moves from one slot at most.                                      *)
LEMMA NotesStay ==
    ASSUME IInv, NEW r \in Runs, NEW row \in Rows, run' = [run EXCEPT ![r] = row],
           row.note = run[r].note, UNCHANGED fate
    PROVE  NoteOnce' /\ NoNoteClearedUndelivered'
<1>1. \A s \in Runs : run'[s].note = run[s].note
  BY Kinds DEF IInv
<1> QED BY <1>1 DEF IInv, NoteOnce, NoNoteClearedUndelivered

LEMMA CancelKeepsInv ==
    ASSUME IInv, NEW r \in Runs, Cancel(r)
    PROVE  IInv'
<1> DEFINE row == [run[r] EXCEPT !.status = "cancelled"]
<1>1. run[r] \in Rows
  BY Kinds DEF IInv
<1>2. /\ row \in Rows /\ row.status = "cancelled"
      /\ row.agent = run[r].agent /\ row.note = run[r].note /\ row.trace = run[r].trace
  BY <1>1 DEF Rows, Statuses, Terminal
<1>3. run' = [run EXCEPT ![r] = row]
  BY <1>1 DEF Cancel, Rows
<1> HIDE DEF row
<1>4. UNCHANGED <<call, drafts, said, fate, shown, crashes>> /\ ~ Locked(r) /\ run[r].status \in Active
  BY DEF Cancel
<1>5. row.trace = Latest(said'[r])
  BY <1>2, <1>4 DEF IInv, TraceIsLatestSteps, Latest, First
<1>6. \A d \in Calls : ~ Busy(d, {"report"}, r)'
  BY <1>4 DEF Locked, Busy
<1>7. \A d \in Calls, s \in Runs :
         /\ Busy(d, {"report"}, s)' <=> Busy(d, {"report"}, s)
         /\ Busy(d, {"steer"}, s)' <=> Busy(d, {"steer"}, s)
         /\ Busy(d, Asking, s)' <=> Busy(d, Asking, s)
         /\ call'[d].seen = call[d].seen
  BY <1>4 DEF Busy
<1>8. \A d \in Calls : Busy(d, Asking, r)' =>
         /\ row.agent = Nobody /\ call'[d].seen.trace = <<1>> /\ said'[r] = <<1>>
         /\ \A e \in Calls : Busy(e, Asking, r)' => e = d
  BY <1>2, <1>4, <1>7 DEF IInv, Skilled
<1>9. /\ call' \in [Calls -> Requests] /\ said' \in [Runs -> Seq(Nat)]
      /\ \A d \in Calls : call'[d].stage \in OnARun <=> \E s \in Runs : call'[d].of = {s}
      /\ drafts' \subseteq Runs /\ crashes' \in 0..MaxCrashes
      /\ fate' \in [Notes -> Fates] /\ shown' \subseteq Notes
  BY <1>4, Kinds DEF IInv, TypeOK
<1>10. row.status \notin Active /\ row.status # "absent"
  BY <1>2 DEF Active
<1>11. TypeOK' /\ Held' /\ Skilled' /\ Steered' /\ Blank' /\ Alone' /\ TraceIsLatestSteps'
  BY <1>2, <1>3, <1>4, <1>5, <1>6, <1>7, <1>8, <1>9, <1>10, OneRunMoves
<1>12. NoteOnce' /\ NoNoteClearedUndelivered'
  BY <1>2, <1>3, <1>4, NotesStay
<1> QED BY <1>11, <1>12 DEF IInv

(* A window that is not full holds everything said.                         *)
LEMMA FullWindow ==
    ASSUME NEW s \in Seq(Nat), Len(s) <= MaxTrace
    PROVE  Latest(s) = s
<1>1. Len(s) \in Nat /\ MaxTrace \in Nat
  BY LenProperties, RunsAssumption
<1>2. First(s) = 1 /\ ~ (Len(s) > MaxTrace)
  BY <1>1 DEF First
<1>3. /\ Latest(s) \in Seq(Nat) /\ Len(Latest(s)) = Len(s)
      /\ \A i \in 1..Len(Latest(s)) : Latest(s)[i] = s[1 + i - 1]
  BY <1>2, LatestIsASeq
<1>4. \A i \in 1..Len(s) : Latest(s)[i] = s[i]
  BY <1>1, <1>3
<1> QED BY <1>3, <1>4, SeqEqual

LEMMA ShortTraces ==
    /\ <<1>> \in Seq(Nat) /\ Len(<<1>>) = 1 /\ Latest(<<1>>) = <<1>>
    /\ <<1, 2>> \in Seq(Nat) /\ Latest(<<1, 2>>) = <<1, 2>>
    /\ Append(<<>>, 1) = <<1>> /\ Append(<<1>>, 2) = <<1, 2>>
<1>1. <<1>> \in Seq(Nat) /\ Len(<<1>>) = 1 /\ <<1, 2>> \in Seq(Nat) /\ Len(<<1, 2>>) = 2
  OBVIOUS
<1>2. 1 <= MaxTrace /\ 2 <= MaxTrace
  BY RunsAssumption
<1>3. Append(<<>>, 1) = <<1>> /\ Append(<<1>>, 2) = <<1, 2>>
  <2>1. /\ Append(<<>>, 1) \in Seq(Nat) /\ Len(Append(<<>>, 1)) = 1
        /\ Append(<<>>, 1)[1] = 1
    BY EmptySeq, AppendProperties
  <2>2. /\ Append(<<1>>, 2) \in Seq(Nat) /\ Len(Append(<<1>>, 2)) = 2
        /\ Append(<<1>>, 2)[1] = 1 /\ Append(<<1>>, 2)[2] = 2
    BY <1>1, AppendProperties
  <2>3. \A i \in 1..1 : Append(<<>>, 1)[i] = <<1>>[i]
    BY <2>1
  <2>4. \A i \in 1..2 : Append(<<1>>, 2)[i] = <<1, 2>>[i]
    BY <2>2
  <2> HIDE DEF First, Latest
  <2>5. Append(<<>>, 1) = <<1>>
    BY <1>1, <2>1, <2>3, SeqEqual
  <2>6. Append(<<1>>, 2) = <<1, 2>>
    BY <1>1, <2>2, <2>4, SeqEqual
  <2> QED BY <2>5, <2>6
<1> HIDE DEF First, Latest
<1>4. Latest(<<1>>) = <<1>>
  BY <1>1, <1>2, FullWindow
<1>5. Latest(<<1, 2>>) = <<1, 2>>
  BY <1>1, <1>2, FullWindow
<1> QED BY <1>1, <1>3, <1>4, <1>5

(* A skill run is settled by the one request it has.                        *)
LEMMA SkillSettlesKeepsInv ==
    ASSUME IInv, NEW c \in Calls, SkillSucceeds(c) \/ SkillFails(c)
    PROVE  IInv'
<1>1. PICK r \in call[c].of : ~ Locked(r) /\
            \/ /\ run' = [run EXCEPT ![r] = [@ EXCEPT !.status = "succeeded",
                           !.trace = Append(call[c].seen.trace, NextStep(r))]]
               /\ Accept(r)
            \/ run' = [run EXCEPT ![r].status = "failed"] /\ UNCHANGED said
  BY DEF SkillSucceeds, SkillFails
<1>2. Leave(c) /\ UNCHANGED <<drafts, fate, shown, crashes>> /\ call[c].stage \in Asking
  BY DEF SkillSucceeds, SkillFails, Asking
<1>3. r \in Runs /\ Busy(c, Asking, r) /\ run[r] \in Rows
  BY <1>1, <1>2, Kinds DEF Busy, IInv, Requests
<1>4. /\ run[r].status # "absent" /\ run[r].agent = Nobody
      /\ call[c].seen.trace = <<1>> /\ said[r] = <<1>>
      /\ \A d \in Calls : Busy(d, Asking, r) => d = c
  BY <1>2, <1>3 DEF IInv, Skilled
<1>5. <<1>> = Latest(<<1>>) /\ run[r].trace = <<1>> /\ <<1>> \in Seq(Nat) /\ Len(<<1>>) = 1
  <2>1. run[r].trace = Latest(said[r])
    BY <1>3 DEF IInv, TraceIsLatestSteps, Latest, First
  <2> QED BY <1>4, <2>1, ShortTraces
<1>6. NextStep(r) = 2
  BY <1>4, <1>5 DEF NextStep
<1> DEFINE row == IF UNCHANGED said THEN [run[r] EXCEPT !.status = "failed"]
                  ELSE [run[r] EXCEPT !.status = "succeeded", !.trace = <<1, 2>>]
<1>7. Accept(r) => said'[r] = <<1, 2>> /\ said'[r] # said[r]
  BY <1>3, <1>4, <1>6, AStepIsSaid DEF IInv
<1>8. /\ run' = [run EXCEPT ![r] = row] /\ row \in Rows
      /\ row.status \in {"failed", "succeeded"} /\ row.agent = Nobody /\ row.note = run[r].note
      /\ row.trace = IF UNCHANGED said THEN <<1>> ELSE <<1, 2>>
  <2>1. CASE UNCHANGED said
    <3>1. run' = [run EXCEPT ![r] = [run[r] EXCEPT !.status = "failed"]]
      BY <1>1, <1>3, <1>7, <2>1
    <3>2. row = [run[r] EXCEPT !.status = "failed"]
      BY <2>1
    <3> QED BY <1>3, <1>4, <1>5, <2>1, <3>1, <3>2 DEF Rows, Statuses, Terminal
  <2>2. CASE ~ UNCHANGED said
    <3>1. run' = [run EXCEPT ![r] = [run[r] EXCEPT !.status = "succeeded", !.trace = <<1, 2>>]]
      <4>1. run' = [run EXCEPT ![r] = [run[r] EXCEPT !.status = "succeeded",
                       !.trace = Append(call[c].seen.trace, NextStep(r))]]
        BY <1>1, <1>3, <2>2, Kinds DEF IInv
      <4>2. Append(call[c].seen.trace, NextStep(r)) = <<1, 2>>
        BY <1>4, <1>6, ShortTraces
      <4> QED BY <4>1, <4>2
    <3>2. row = [run[r] EXCEPT !.status = "succeeded", !.trace = <<1, 2>>]
      BY <2>2
    <3>3. <<1, 2>> \in Seq(Nat)
      OBVIOUS
    <3> QED BY <1>3, <1>4, <1>5, <2>2, <3>1, <3>2, <3>3 DEF Rows, Statuses, Terminal
  <2> QED BY <2>1, <2>2
<1> HIDE DEF row
<1>9. /\ said' \in [Runs -> Seq(Nat)] /\ \A s \in Runs : s # r => said'[s] = said[s]
      /\ row.trace = Latest(said'[r])
  <2>1. CASE UNCHANGED said
    BY <1>4, <1>5, <1>8, <2>1, Kinds DEF IInv
  <2>2. CASE ~ UNCHANGED said
    <3>1. Accept(r)
      BY <1>1, <2>2
    <3>3. Latest(<<1, 2>>) = <<1, 2>>
      BY ShortTraces
    <3> QED BY <1>3, <1>7, <1>8, <2>2, <3>1, <3>3, AStepIsSaid DEF IInv
  <2> QED BY <2>1, <2>2
<1>10. /\ call' \in [Calls -> Requests]
       /\ \A d \in Calls : call'[d].stage \in OnARun <=> \E s \in Runs : call'[d].of = {s}
       /\ \A s \in Runs : ~ Busy(c, {"report"}, s)' /\ ~ Busy(c, Asking, s)' /\ ~ Busy(c, {"steer"}, s)'
       /\ \A d \in Calls, s \in Runs :
             /\ Busy(d, {"report"}, s)' => Busy(d, {"report"}, s) /\ call'[d].seen = call[d].seen
             /\ Busy(d, {"steer"}, s)' => Busy(d, {"steer"}, s)
             /\ Busy(d, Asking, s)' => Busy(d, Asking, s) /\ call'[d].seen = call[d].seen
  BY <1>2, OthersGoOn
<1>11. \A d \in Calls : ~ Busy(d, {"report"}, r)'
  <2>1. \A d \in Calls : ~ Busy(d, {"report"}, r)
    BY <1>1 DEF Locked, Busy
  <2> QED BY <1>3, <1>10, <2>1
<1>12. \A d \in Calls : ~ Busy(d, Asking, r)'
  BY <1>3, <1>4, <1>10
<1>13. row.status \notin Active /\ row.status # "absent"
  BY <1>8 DEF Active
<1>14. /\ drafts' \subseteq Runs /\ crashes' \in 0..MaxCrashes
       /\ fate' \in [Notes -> Fates] /\ shown' \subseteq Notes
  BY <1>2 DEF IInv, TypeOK
<1>15. TypeOK' /\ Held' /\ Skilled' /\ Steered' /\ Blank' /\ Alone' /\ TraceIsLatestSteps'
  BY <1>3, <1>8, <1>9, <1>10, <1>11, <1>12, <1>13, <1>14, OneRunMoves
<1>16. NoteOnce' /\ NoNoteClearedUndelivered'
  BY <1>2, <1>3, <1>8, NotesStay
<1> QED BY <1>15, <1>16 DEF IInv

(* steerRun: a note is put in the slot, another one may give way.           *)
LEMMA SteerWritesKeepsInv ==
    ASSUME IInv, NEW c \in Calls, SteerWrites(c)
    PROVE  IInv'
<1>1. PICK r \in call[c].of, n \in Notes :
         /\ fate[n] = "unsaid" /\ ~ Locked(r)
         /\ run' = [run EXCEPT ![r].note = n]
         /\ fate' = [m \in Notes |-> IF m = n THEN "waiting"
                                     ELSE IF m = run[r].note THEN "replaced" ELSE fate[m]]
  BY DEF SteerWrites
<1>2. Leave(c) /\ UNCHANGED <<drafts, said, shown, crashes>> /\ call[c].stage = "steer"
  BY DEF SteerWrites
<1>3. r \in Runs /\ Busy(c, {"steer"}, r) /\ run[r] \in Rows
  BY <1>1, <1>2, Kinds DEF Busy, IInv, Requests
<1> DEFINE row == [run[r] EXCEPT !.note = n]
<1>4. /\ run' = [run EXCEPT ![r] = row] /\ row \in Rows /\ row.note = n
      /\ row.status = run[r].status /\ row.agent = run[r].agent
      /\ row.item = run[r].item /\ row.trace = run[r].trace
  BY <1>1, <1>3 DEF Rows
<1> HIDE DEF row
<1>5. row.status # "absent"
  BY <1>3, <1>4 DEF IInv, Steered
<1>6. row.trace = Latest(said'[r])
  BY <1>2, <1>3, <1>4 DEF IInv, TraceIsLatestSteps, Latest, First
<1>7. row.status \in Active /\ row.agent # Nobody =>
         \A s \in Runs : s # r =>
            ~ /\ run[s].status \in Active
              /\ run[s].agent = row.agent /\ run[s].item = row.item
  <2>1. \A s \in Runs :
           /\ run[r].status \in Active /\ run[r].agent # Nobody
           /\ run[s].status \in Active /\ run[s].agent = run[r].agent
           /\ run[s].item = run[r].item
           => s = r
    BY <1>3 DEF IInv, Alone
  <2> QED BY <1>4, <2>1
<1>8. /\ call' \in [Calls -> Requests]
      /\ \A d \in Calls : call'[d].stage \in OnARun <=> \E s \in Runs : call'[d].of = {s}
      /\ \A s \in Runs : ~ Busy(c, {"report"}, s)' /\ ~ Busy(c, Asking, s)' /\ ~ Busy(c, {"steer"}, s)'
      /\ \A d \in Calls, s \in Runs :
            /\ Busy(d, {"report"}, s)' => Busy(d, {"report"}, s) /\ call'[d].seen = call[d].seen
            /\ Busy(d, {"steer"}, s)' => Busy(d, {"steer"}, s)
            /\ Busy(d, Asking, s)' => Busy(d, Asking, s) /\ call'[d].seen = call[d].seen
  BY <1>2, OthersGoOn
<1>9. \A d \in Calls : ~ Busy(d, {"report"}, r)'
  <2>1. \A d \in Calls : ~ Busy(d, {"report"}, r)
    BY <1>1 DEF Locked, Busy
  <2> QED BY <1>3, <1>8, <2>1
<1>10. \A d \in Calls : Busy(d, Asking, r)' =>
         /\ row.agent = Nobody /\ call'[d].seen.trace = <<1>> /\ said'[r] = <<1>>
         /\ \A e \in Calls : Busy(e, Asking, r)' => e = d
  BY <1>2, <1>3, <1>4, <1>8 DEF IInv, Skilled
<1>11. /\ drafts' \subseteq Runs /\ crashes' \in 0..MaxCrashes
       /\ fate' \in [Notes -> Fates] /\ shown' \subseteq Notes
       /\ said' \in [Runs -> Seq(Nat)] /\ UNCHANGED said
  BY <1>1, <1>2 DEF IInv, TypeOK, Fates
<1>12. TypeOK' /\ Held' /\ Skilled' /\ Steered' /\ Blank' /\ Alone' /\ TraceIsLatestSteps'
  BY <1>3, <1>4, <1>5, <1>6, <1>7, <1>8, <1>9, <1>10, <1>11, OneRunMoves
<1>13. /\ run'[r].note = n /\ \A s \in Runs : s # r => run'[s].note = run[s].note
       /\ \A s \in Runs : run[s].note # n
       /\ n # NoNote
  <2>1. \A s \in Runs : run[s].note # n
    BY <1>1 DEF IInv, NoNoteClearedUndelivered
  <2>2. n # NoNote
    BY RunsAssumption
  <2> QED BY <1>3, <1>4, <2>1, <2>2, Kinds DEF IInv
<1>14. NoteOnce'
  BY <1>13 DEF IInv, NoteOnce
<1>15. NoNoteClearedUndelivered'
  <2>0. \A m \in Notes : fate'[m] # "again"
    BY <1>1 DEF IInv, NoNoteClearedUndelivered
  <2> SUFFICES ASSUME NEW m \in Notes
               PROVE  fate'[m] = "waiting" <=> \E s \in Runs : run'[s].note = m
    BY <2>0 DEF NoNoteClearedUndelivered
  <2>1. CASE m = n
    BY <1>1, <1>3, <1>13, <2>1
  <2>2. CASE m # n /\ m = run[r].note
    <3>1. fate'[m] # "waiting"
      BY <1>1, <2>2
    <3>2. \A s \in Runs : s # r => run[s].note # m
      BY <1>3, <2>2, RunsAssumption DEF IInv, NoteOnce
    <3> QED BY <1>13, <2>2, <3>1, <3>2
  <2>3. CASE m # n /\ m # run[r].note
    <3>1. fate'[m] = fate[m]
      BY <1>1, <2>3
    <3> QED BY <1>3, <1>13, <2>3, <3>1 DEF IInv, NoNoteClearedUndelivered
  <2> QED BY <2>1, <2>2, <2>3
<1> QED BY <1>12, <1>14, <1>15 DEF IInv

(* A report takes the note of the row it has held since it read it.         *)
LEMMA ReportWritesKeepsInv ==
    ASSUME IInv, NEW c \in Calls, ReportWrites(c)
    PROVE  IInv'
<1>1. PICK r \in call[c].of, status \in Reportable :
         \/ /\ run' = [run EXCEPT ![r] = [run[r] EXCEPT !.status = status, !.note = NoNote]]
            /\ UNCHANGED said
         \/ /\ run' = [run EXCEPT ![r] =
                  [[run[r] EXCEPT !.status = status, !.note = NoNote]
                      EXCEPT !.trace = appendStep(call[c].seen.trace, NextStep(r))]]
            /\ Accept(r)
  BY Zenon DEF ReportWrites
<1>2. /\ call[c].stage = "report" /\ Leave(c) /\ UNCHANGED <<drafts, shown, crashes>>
      /\ fate' = [n \in Notes |-> IF n = call[c].seen.note THEN Taken(n) ELSE fate[n]]
  BY DEF ReportWrites
<1>3. r \in Runs /\ Busy(c, {"report"}, r) /\ run[r] \in Rows
  BY <1>1, <1>2, Kinds DEF Busy, IInv, Requests
<1>4. /\ run[r].status \in Active /\ run[r].agent # Nobody /\ call[c].seen = run[r]
      /\ \A d \in Calls : Busy(d, {"report"}, r) => d = c
  BY <1>3 DEF IInv, Held
<1>5. run[r].trace = Latest(said[r]) /\ said[r] \in Seq(Nat) /\ NextStep(r) \in Nat
  <2>1. said[r] \in Seq(Nat)
    BY <1>3, Kinds DEF IInv
  <2>2. NextStep(r) \in Nat
    BY <2>1, LenProperties DEF NextStep
  <2> QED BY <1>3, <2>1, <2>2 DEF IInv, TraceIsLatestSteps, Latest, First
<1>6. status \in {"running", "awaiting_input", "succeeded", "failed"}
  BY <1>1 DEF Reportable, Active
<1>7. \E row \in Rows :
         /\ run' = [run EXCEPT ![r] = row]
         /\ row.status = status /\ row.note = NoNote
         /\ row.agent = run[r].agent /\ row.item = run[r].item
         /\ row.trace = Latest(said'[r])
         /\ said' \in [Runs -> Seq(Nat)]
         /\ \A s \in Runs : s # r => said'[s] = said[s]
  <2>1. CASE /\ run' = [run EXCEPT ![r] = [run[r] EXCEPT !.status = status, !.note = NoNote]]
             /\ UNCHANGED said
    <3> DEFINE row == [run[r] EXCEPT !.status = status, !.note = NoNote]
    <3>1. /\ row \in Rows /\ row.status = status /\ row.note = NoNote
          /\ row.agent = run[r].agent /\ row.item = run[r].item /\ row.trace = run[r].trace
      BY <1>3, <1>6 DEF Rows, Statuses, Active, Terminal
    <3>2. run' = [run EXCEPT ![r] = row]
      BY <2>1
    <3> HIDE DEF row
    <3>3. row.trace = Latest(said'[r]) /\ said' \in [Runs -> Seq(Nat)]
      BY <1>5, <2>1, <3>1, Kinds DEF IInv
    <3> QED BY <2>1, <3>1, <3>2, <3>3
  <2>2. CASE /\ run' = [run EXCEPT ![r] =
                  [[run[r] EXCEPT !.status = status, !.note = NoNote]
                      EXCEPT !.trace = appendStep(call[c].seen.trace, NextStep(r))]]
             /\ Accept(r)
    <3>1. /\ said' \in [Runs -> Seq(Nat)] /\ said'[r] = Append(said[r], NextStep(r))
          /\ \A s \in Runs : s # r => said'[s] = said[s]
      BY <1>3, <2>2, AStepIsSaid DEF IInv
    <3>2. /\ appendStep(call[c].seen.trace, NextStep(r)) = Latest(said'[r])
          /\ Latest(said'[r]) \in Seq(Nat)
      BY <1>4, <1>5, <3>1, WindowMoves
    <3> DEFINE row == [[run[r] EXCEPT !.status = status, !.note = NoNote]
                          EXCEPT !.trace = appendStep(call[c].seen.trace, NextStep(r))]
    <3>3. /\ row \in Rows /\ row.status = status /\ row.note = NoNote
          /\ row.agent = run[r].agent /\ row.item = run[r].item
          /\ row.trace = appendStep(call[c].seen.trace, NextStep(r))
      BY <1>3, <1>6, <3>2 DEF Rows, Statuses, Active, Terminal
    <3>4. run' = [run EXCEPT ![r] = row]
      BY <2>2
    <3> HIDE DEF row
    <3> QED BY <3>1, <3>2, <3>3, <3>4
  <2> QED BY <1>1, <2>1, <2>2
<1>8. PICK row \in Rows :
         /\ run' = [run EXCEPT ![r] = row]
         /\ row.status = status /\ row.note = NoNote
         /\ row.agent = run[r].agent /\ row.item = run[r].item
         /\ row.trace = Latest(said'[r])
         /\ said' \in [Runs -> Seq(Nat)]
         /\ \A s \in Runs : s # r => said'[s] = said[s]
  BY <1>7
<1>9. row.status # "absent"
  BY <1>6, <1>8
<1>10. row.status \in Active /\ row.agent # Nobody =>
          \A s \in Runs : s # r =>
             ~ /\ run[s].status \in Active
               /\ run[s].agent = row.agent /\ run[s].item = row.item
  <2>1. \A s \in Runs :
           /\ run[s].status \in Active /\ run[s].agent = run[r].agent
           /\ run[s].item = run[r].item
           => s = r
    BY <1>3, <1>4 DEF IInv, Alone
  <2> QED BY <1>8, <2>1
<1>11. /\ call' \in [Calls -> Requests]
       /\ \A d \in Calls : call'[d].stage \in OnARun <=> \E s \in Runs : call'[d].of = {s}
       /\ \A s \in Runs : ~ Busy(c, {"report"}, s)' /\ ~ Busy(c, Asking, s)' /\ ~ Busy(c, {"steer"}, s)'
       /\ \A d \in Calls, s \in Runs :
             /\ Busy(d, {"report"}, s)' => Busy(d, {"report"}, s) /\ call'[d].seen = call[d].seen
             /\ Busy(d, {"steer"}, s)' => Busy(d, {"steer"}, s)
             /\ Busy(d, Asking, s)' => Busy(d, Asking, s) /\ call'[d].seen = call[d].seen
  BY <1>2, OthersGoOn
<1>12. \A d \in Calls : ~ Busy(d, {"report"}, r)'
  BY <1>3, <1>4, <1>11
<1>13. \A d \in Calls : ~ Busy(d, Asking, r)'
  <2>1. \A d \in Calls : ~ Busy(d, Asking, r)
    BY <1>3, <1>4 DEF IInv, Skilled
  <2> QED BY <1>3, <1>11, <2>1
<1>14. /\ drafts' \subseteq Runs /\ crashes' \in 0..MaxCrashes
       /\ fate' \in [Notes -> Fates] /\ shown' \subseteq Notes
  BY <1>2 DEF IInv, TypeOK, Fates, Taken
<1>15. TypeOK' /\ Held' /\ Skilled' /\ Steered' /\ Blank' /\ Alone' /\ TraceIsLatestSteps'
  BY <1>3, <1>8, <1>9, <1>10, <1>11, <1>12, <1>13, <1>14, OneRunMoves
<1>16. run'[r].note = NoNote /\ \A s \in Runs : s # r => run'[s].note = run[s].note
  BY <1>3, <1>8, Kinds DEF IInv
<1>17. NoteOnce'
  BY <1>16 DEF IInv, NoteOnce
<1>18. NoNoteClearedUndelivered'
  <2> SUFFICES ASSUME NEW m \in Notes
               PROVE  /\ fate'[m] = "waiting" <=> \E s \in Runs : run'[s].note = m
                      /\ fate'[m] # "again"
    BY DEF NoNoteClearedUndelivered
  <2>1. m # NoNote
    BY RunsAssumption
  <2>2. CASE m = run[r].note
    <3>1. fate'[m] = "delivered"
      <4>1. fate[m] = "waiting"
        BY <1>3, <2>2 DEF IInv, NoNoteClearedUndelivered
      <4> QED BY <1>2, <1>4, <2>2, <4>1 DEF Taken
    <3>2. \A s \in Runs : s # r => run[s].note # m
      BY <1>3, <2>1, <2>2 DEF IInv, NoteOnce
    <3> QED BY <1>16, <2>1, <3>1, <3>2
  <2>3. CASE m # run[r].note
    <3>1. fate'[m] = fate[m]
      BY <1>2, <1>4, <2>3
    <3> QED BY <1>3, <1>16, <2>1, <2>3, <3>1 DEF IInv, NoNoteClearedUndelivered
  <2> QED BY <2>2, <2>3
<1> QED BY <1>15, <1>17, <1>18 DEF IInv

(* A run is inserted: the index found no other, and nobody was on this one. *)
LEMMA InsertKeepsInv ==
    ASSUME IInv, NEW c \in Calls, Insert(c)
    PROVE  IInv'
<1>1. PICK r \in Runs : /\ run[r].status = "absent"
                        /\ run' = [run EXCEPT ![r] = Created(c)]
                        /\ Accept(r) /\ Opened(c, r, Created(c))
  BY DEF Insert
<1>2. Conflict(c) = {} /\ UNCHANGED <<drafts, fate, shown, crashes>>
  <2>1. shown' = shown \union ({Created(c).note} \ {NoNote}) \/ shown' = shown
    BY <1>1, Zenon DEF Opened, Answered
  <2>2. Created(c).note = NoNote
    BY DEF Created
  <2> QED BY <2>1, <2>2 DEF Insert
<1> DEFINE row == Created(c)
<1>3. call[c] \in Requests
  BY Kinds DEF IInv
<1>4. /\ row \in Rows /\ row.status = "running" /\ row.note = NoNote /\ row.trace = <<1>>
      /\ row.agent = call[c].agent /\ row.item = call[c].item
  BY <1>3, ShortTraces DEF Created, Requests, Rows, Statuses, Active
<1> HIDE DEF row
<1>5. run' = [run EXCEPT ![r] = row] /\ Opened(c, r, row)
  BY <1>1 DEF row
<1>6. run[r] = NoRun /\ said[r] = <<>>
  BY <1>1 DEF IInv, Blank
<1>7. /\ said' \in [Runs -> Seq(Nat)] /\ said'[r] = <<1>>
      /\ \A s \in Runs : s # r => said'[s] = said[s]
  <2>1. NextStep(r) = 1
    BY <1>6, EmptySeq DEF NextStep
  <2> QED BY <1>1, <1>6, <2>1, AStepIsSaid, ShortTraces DEF IInv
<1>8. row.trace = Latest(said'[r])
  BY <1>4, <1>7, ShortTraces
<1>9. row.status \in Active /\ row.agent # Nobody =>
         \A s \in Runs : s # r =>
            ~ /\ run[s].status \in Active
              /\ run[s].agent = row.agent /\ run[s].item = row.item
  <2> SUFFICES ASSUME row.agent # Nobody, NEW s \in Runs, run[s].status \in Active,
                      run[s].agent = row.agent, run[s].item = row.item
               PROVE  FALSE
    OBVIOUS
  <2>1. s \in Conflict(c)
    BY <1>4 DEF Conflict, ActiveRuns
  <2> QED BY <1>2, <2>1
<1>10. \A d \in Calls : /\ ~ Busy(d, {"report"}, r) /\ ~ Busy(d, Asking, r)
                        /\ ~ Busy(d, {"steer"}, r)
  BY <1>1, NobodyIsOnAnAbsentRun
<1>11. /\ call' \in [Calls -> Requests]
       /\ \A d \in Calls : call'[d].stage \in OnARun <=> \E s \in Runs : call'[d].of = {s}
       /\ \A d \in Calls, s \in Runs :
             /\ Busy(d, {"report"}, s)' => Busy(d, {"report"}, s) /\ call'[d].seen = call[d].seen
             /\ Busy(d, {"steer"}, s)' => Busy(d, {"steer"}, s)
             /\ s # r /\ Busy(d, Asking, s)' => Busy(d, Asking, s) /\ call'[d].seen = call[d].seen
       /\ \A d \in Calls : Busy(d, Asking, r)' =>
             d = c /\ row.agent = Nobody /\ call'[d].seen.trace = <<1>>
  <2>1. CASE call[c].agent = Nobody
    <3> DEFINE request == [call[c] EXCEPT !.stage = "model", !.of = {r}, !.seen = row]
    <3>1. /\ request \in Requests /\ request.stage = "model" /\ request.of = {r}
          /\ request.seen = row
      BY <1>3, <1>4 DEF Requests, Stages
    <3>2. call' = [call EXCEPT ![c] = request]
      BY <1>5, <2>1, Kinds DEF Opened, IInv
    <3> HIDE DEF request
    <3>3. /\ call' \in [Calls -> Requests] /\ call'[c] = request
          /\ \A d \in Calls : d # c => call'[d] = call[d]
      BY <3>1, <3>2, Called DEF IInv
    <3>4. \A d \in Calls : call'[d].stage \in OnARun <=> \E s \in Runs : call'[d].of = {s}
      <4>1. call'[c].stage \in OnARun /\ \E s \in Runs : call'[c].of = {s}
        BY <3>1, <3>3 DEF OnARun
      <4> QED BY <3>3, <4>1, Kinds DEF IInv
    <3>5. \A s \in Runs : /\ ~ Busy(c, {"report"}, s)' /\ ~ Busy(c, {"steer"}, s)'
                          /\ Busy(c, Asking, s)' => s = r
      BY <3>1, <3>3 DEF Busy
    <3>6. \A d \in Calls, s \in Runs : d # c =>
             /\ Busy(d, {"report"}, s)' <=> Busy(d, {"report"}, s)
             /\ Busy(d, {"steer"}, s)' <=> Busy(d, {"steer"}, s)
             /\ Busy(d, Asking, s)' <=> Busy(d, Asking, s)
      BY <3>3 DEF Busy
    <3>7. row.agent = Nobody /\ call'[c].seen.trace = <<1>>
      BY <1>4, <2>1, <3>1, <3>3
    <3> QED BY <1>10, <3>3, <3>4, <3>5, <3>6, <3>7
  <2>2. CASE call[c].agent # Nobody
    <3>1. Leave(c)
      BY <1>5, <2>2 DEF Opened, Answered
    <3> QED BY <1>10, <3>1, OthersGoOn
  <2> QED BY <2>1, <2>2
<1>12. \A d \in Calls : ~ Busy(d, {"report"}, r)'
  BY <1>10, <1>11
<1>13. \A d \in Calls : Busy(d, Asking, r)' =>
         /\ row.agent = Nobody /\ call'[d].seen.trace = <<1>> /\ said'[r] = <<1>>
         /\ \A e \in Calls : Busy(e, Asking, r)' => e = d
  BY <1>7, <1>11
<1>14. /\ drafts' \subseteq Runs /\ crashes' \in 0..MaxCrashes
       /\ fate' \in [Notes -> Fates] /\ shown' \subseteq Notes
  BY <1>2 DEF IInv, TypeOK
<1>15. row.status # "absent"
  BY <1>4
<1>16. TypeOK' /\ Held' /\ Skilled' /\ Steered' /\ Blank' /\ Alone' /\ TraceIsLatestSteps'
  BY <1>4, <1>5, <1>7, <1>8, <1>9, <1>11, <1>12, <1>13, <1>14, <1>15, OneRunMoves
<1>17. row.note = run[r].note
  BY <1>4, <1>6 DEF NoRun
<1>18. NoteOnce' /\ NoNoteClearedUndelivered'
  BY <1>2, <1>4, <1>5, <1>17, NotesStay
<1> QED BY <1>16, <1>18 DEF IInv

-------------------------------------------------------------------------------
LEMMA InitInv == Init => IInv
<1> SUFFICES ASSUME Init PROVE IInv
  OBVIOUS
<1>1. /\ run = [r \in Runs |-> NoRun] /\ call = [c \in Calls |-> NoCall]
      /\ drafts = {} /\ said = [r \in Runs |-> <<>>]
      /\ fate = [n \in Notes |-> "unsaid"] /\ shown = {} /\ crashes = 0
  BY DEF Init
<1>2. /\ NoRun.status = "absent" /\ NoRun.note = NoNote /\ NoRun.trace = <<>>
  BY DEF NoRun
<1>3. <<>> \in Seq(Nat) /\ Len(<<>>) = 0
  BY EmptySeq
<1>4. TypeOK
  <2>1. run \in [Runs -> Rows] /\ call \in [Calls -> Requests]
    BY <1>1, NoCallIsARequest
  <2>2. \A c \in Calls : call[c].stage \in OnARun <=> \E r \in Runs : call[c].of = {r}
    <3>1. ~ (NoCall.stage \in OnARun) /\ ~ \E r \in Runs : NoCall.of = {r}
      BY NoCallIsARequest DEF OnARun
    <3> QED BY <1>1, <3>1
  <2>3. crashes \in 0..MaxCrashes
    BY <1>1, RunsAssumption
  <2>4. said \in [Runs -> Seq(Nat)] /\ drafts \subseteq Runs
        /\ fate \in [Notes -> Fates] /\ shown \subseteq Notes
    BY <1>1, <1>3 DEF Fates
  <2> QED BY <2>1, <2>2, <2>3, <2>4 DEF TypeOK, Rows, Requests, OnARun
<1>5. \A stages : \A c \in Calls, r \in Runs : ~ Busy(c, stages, r)
  BY <1>1, NoCallIsARequest DEF Busy
<1>6. Held /\ Skilled /\ Steered
  BY <1>5 DEF Held, Skilled, Steered
<1>7. Blank /\ Alone
  BY <1>1, <1>2 DEF Blank, Alone, Active
<1>8. NoteOnce /\ NoNoteClearedUndelivered
  BY <1>1, <1>2, RunsAssumption DEF NoteOnce, NoNoteClearedUndelivered
<1>9. TraceIsLatestSteps
  <2>1. 0 <= MaxTrace
    BY RunsAssumption
  <2>2. Latest(<<>>) = <<>>
    BY <1>3, <2>1, FullWindow
  <2>3. \A r \in Runs : run[r].trace = Latest(said[r])
    BY <1>1, <1>2, <2>2
  <2> QED BY <2>3 DEF TraceIsLatestSteps, Latest, First
<1> QED BY <1>4, <1>6, <1>7, <1>8, <1>9 DEF IInv

LEMMA EveryStep == IInv /\ [Next]_vars => IInv'
<1> SUFFICES ASSUME IInv, [Next]_vars PROVE IInv'
  OBVIOUS
<1>1. CASE UNCHANGED vars
  BY <1>1 DEF vars, IInv, TypeOK, Held, Skilled, Steered, Blank, Alone, NoteOnce,
              NoNoteClearedUndelivered, TraceIsLatestSteps, Busy
<1>2. CASE \E r \in Runs : Cancel(r)
  BY <1>2, CancelKeepsInv
<1>3. CASE \E c \in Calls, a \in Agents \union {Nobody}, i \in Items : StartOpen(c, a, i)
  BY <1>3, StartOpenKeepsInv
<1>4. CASE \E c \in Calls : Find(c) \/ Insert(c) \/ InsertRefused(c) \/ Refind(c)
  BY <1>4, FindKeepsInv, InsertKeepsInv, RefindKeepsInv
<1>5. CASE \E c \in Calls, r \in Runs, a \in Agents : ReportReads(c, a, r)
  BY <1>5, ReportReadsKeepsInv
<1>6. CASE \E c \in Calls, r \in Runs : SteerReads(c, r)
  BY <1>6, SteerReadsKeepsInv
<1>7. CASE \E c \in Calls : ReportWrites(c) \/ SteerWrites(c)
  BY <1>7, ReportWritesKeepsInv, SteerWritesKeepsInv
<1>8. CASE \E c \in Calls : SkillProposes(c) \/ SkillSucceeds(c) \/ SkillFails(c) \/ Crash(c)
  BY <1>8, SkillProposesKeepsInv, SkillSettlesKeepsInv, CrashKeepsInv
<1> QED BY <1>1, <1>2, <1>3, <1>4, <1>5, <1>6, <1>7, <1>8 DEF Next

LEMMA AlwaysIInv == Spec => []IInv
BY InitInv, EveryStep, PTL DEF Spec

(* The kinds of every variable, and that a call is on one run exactly from  *)
(* the time it has one, hold of every behaviour of the runs.                *)
THEOREM TypesHold == Spec => []TypeOK
<1>1. IInv => TypeOK
  BY DEF IInv
<1> QED BY <1>1, AlwaysIInv, PTL

(* However its calls race, an agent has at most one unfinished run on an    *)
(* item, and so openRun never makes a second.                               *)
THEOREM OneRunPerAgent == Spec => []OneActiveRun
<1>1. IInv => OneActiveRun
  <2> SUFFICES ASSUME IInv, NEW a \in Agents, NEW i \in Items
               PROVE  Cardinality(ActiveRuns(a, {i})) <= 1
    BY DEF OneActiveRun
  <2>1. a # Nobody
    BY RunsAssumption
  <2>2. \A r, s \in ActiveRuns(a, {i}) : r = s
    BY <2>1 DEF IInv, Alone, ActiveRuns
  <2>3. CASE ActiveRuns(a, {i}) = {}
    <3>1. Cardinality({}) = 0
      BY FS_EmptySet
    <3>2. Cardinality(ActiveRuns(a, {i})) = 0
      BY <2>3, <3>1, Zenon
    <3> QED BY <3>2
  <2>4. CASE ActiveRuns(a, {i}) # {}
    <3>1. PICK r \in ActiveRuns(a, {i}) : TRUE
      BY <2>4
    <3>2. ActiveRuns(a, {i}) = {r}
      BY <2>2, <3>1
    <3>3. Cardinality({r}) = 1
      BY FS_Singleton
    <3>4. Cardinality(ActiveRuns(a, {i})) = 1
      BY <3>2, <3>3, Zenon
    <3> QED BY <3>4
  <2> QED BY <2>3, <2>4
<1> QED BY <1>1, AlwaysIInv, PTL

(* No steering note is cleared undelivered or taken by two reports,         *)
(* whichever opens, reports, notes and cancellations meet.                  *)
THEOREM NotesSurvive == Spec => []NoNoteClearedUndelivered
<1>1. IInv => NoNoteClearedUndelivered
  BY DEF IInv
<1> QED BY <1>1, AlwaysIInv, PTL

(* A trace is the latest steps accepted, none lost to a concurrent report.  *)
THEOREM TraceIsTheWindow == Spec => []TraceIsLatestSteps
<1>1. IInv => TraceIsLatestSteps
  BY DEF IInv
<1> QED BY <1>1, AlwaysIInv, PTL

(* A connected agent's run, once over, keeps its outcome and its trace: a   *)
(* report still holds an unfinished one, and a skill settles only its own.  *)
THEOREM OutcomeStays == Spec => OwnedRunStaysFinished
<1> DEFINE Stays == \A r \in Runs : Owned(r) /\ run[r].status \in Terminal =>
                       run'[r].status = run[r].status /\ run'[r].trace = run[r].trace
<1>1. IInv /\ [Next]_vars => Stays
  <2> SUFFICES ASSUME IInv, [Next]_vars, NEW r \in Runs, Owned(r), run[r].status \in Terminal
               PROVE  run'[r].status = run[r].status /\ run'[r].trace = run[r].trace
    OBVIOUS
  <2>1. run \in [Runs -> Rows] /\ call \in [Calls -> Requests]
    BY Kinds DEF IInv
  <2>2. run[r].status # "absent" /\ run[r].status \notin Active /\ run[r].agent # Nobody
    BY DEF Terminal, Active, Owned
  <2>3. CASE UNCHANGED run
    BY <2>3
  <2>4. CASE \E s \in Runs : Cancel(s)
    <3>1. PICK s \in Runs : s # r /\ run' = [run EXCEPT ![s].status = "cancelled"]
      BY <2>2, <2>4 DEF Cancel
    <3> QED BY <2>1, <3>1
  <2>5. CASE \E c \in Calls : Insert(c)
    <3>1. PICK c \in Calls, s \in Runs : s # r /\ run' = [run EXCEPT ![s] = Created(c)]
      BY <2>2, <2>5 DEF Insert
    <3> QED BY <2>1, <3>1
  <2>6. CASE \E c \in Calls : ReportWrites(c)
    <3>1. PICK c \in Calls : ReportWrites(c)
      BY <2>6
    <3>2. PICK s \in call[c].of : \E row : run' = [run EXCEPT ![s] = row]
      BY <3>1, Zenon DEF ReportWrites
    <3>3. s \in Runs /\ Busy(c, {"report"}, s)
      BY <2>1, <3>1 DEF Requests, Busy, ReportWrites
    <3>4. s # r
      BY <2>2, <3>3 DEF IInv, Held
    <3> QED BY <2>1, <3>2, <3>3, <3>4
  <2>7. CASE \E c \in Calls : SteerWrites(c)
    <3>1. PICK c \in Calls : SteerWrites(c)
      BY <2>7
    <3>2. PICK s \in call[c].of, n \in Notes : run' = [run EXCEPT ![s].note = n]
      BY <3>1 DEF SteerWrites
    <3> QED BY <2>1, <3>2 DEF Rows, Requests
  <2>8. CASE \E c \in Calls : SkillSucceeds(c) \/ SkillFails(c)
    <3>1. PICK c \in Calls : SkillSucceeds(c) \/ SkillFails(c)
      BY <2>8
    <3>2. PICK s \in call[c].of : \E row : run' = [run EXCEPT ![s] = row]
      BY <3>1, Zenon DEF SkillSucceeds, SkillFails
    <3>3. s \in Runs /\ Busy(c, Asking, s)
      BY <2>1, <3>1 DEF Requests, Busy, Asking, SkillSucceeds, SkillFails
    <3>4. s # r
      BY <2>2, <3>3 DEF IInv, Skilled
    <3> QED BY <2>1, <3>2, <3>3, <3>4
  <2>9. CASE \E c \in Calls :
               \/ \E a \in Agents \union {Nobody}, i \in Items : StartOpen(c, a, i)
               \/ Find(c) \/ InsertRefused(c) \/ Refind(c)
               \/ \E s \in Runs : (\E a \in Agents : ReportReads(c, a, s)) \/ SteerReads(c, s)
               \/ SkillProposes(c) \/ Crash(c)
    <3>1. UNCHANGED run
      BY <2>9 DEF StartOpen, Find, InsertRefused, Refind, ReportReads, SteerReads,
                  SkillProposes, Crash
    <3> QED BY <3>1
  <2> QED BY <2>3, <2>4, <2>5, <2>6, <2>7, <2>8, <2>9 DEF Next, vars
<1> QED BY <1>1, AlwaysIInv, PTL DEF Spec, OwnedRunStaysFinished

-------------------------------------------------------------------------------
(* Every call is one step on the row as it is: the mapping that             *)
(* ImplementsAtomicRuns has, and what the calls do under it.                *)
Counts == [r \in Runs |-> Len(said[r])]
Told == {n \in Notes : fate[n] \in {"delivered", "again"}}

(* A request that opens a run asks for one item.                            *)
Asked == \A c \in Calls : call[c].stage \in {"find", "insert", "refind"} =>
                             \E i \in Items : call[c].item = {i}

(* How a request comes to open a run, or goes on doing so.                  *)
LEMMA AskedStays ==
    ASSUME TypeOK, Asked, NEW c \in Calls,
           \A d \in Calls : d # c => call'[d] = call[d],
           \/ call'[c].stage \notin {"find", "insert", "refind"}
           \/ \E i \in Items : call'[c].item = {i}
    PROVE  Asked'
BY DEF Asked

LEMMA SetsOut ==
    ASSUME IInv, NEW c \in Calls, NEW request \in Requests,
           call' = [call EXCEPT ![c] = request],
           request.stage \notin {"find", "insert", "refind"} \/ \E i \in Items : request.item = {i}
    PROVE  Asked => Asked'
<1>1. TypeOK
  BY DEF IInv
<1>2. call'[c] = request /\ \A d \in Calls : d # c => call'[d] = call[d]
  BY <1>1, Called
<1> QED BY <1>1, <1>2, AskedStays

LEMMA LeavesAsked == ASSUME IInv, NEW c \in Calls, Leave(c) PROVE Asked => Asked'
<1> QED BY NoCallIsARequest, SetsOut DEF Leave

LEMMA MovesOn ==
    ASSUME IInv, NEW c \in Calls, NEW stage \in Stages, Reach(c, stage),
           \/ stage \notin {"find", "insert", "refind"}
           \/ call[c].stage \in {"find", "insert", "refind"}
    PROVE  Asked => Asked'
<1>1. TypeOK /\ call[c] \in Requests
  BY Kinds DEF IInv
<1>2. /\ call'[c] = [call[c] EXCEPT !.stage = stage] /\ call'[c].stage = stage
      /\ \A d \in Calls : d # c => call'[d] = call[d]
  BY <1>1, Reached
<1>3. call'[c].item = call[c].item
  BY <1>1, <1>2 DEF Requests
<1>4. Asked => \/ call'[c].stage \notin {"find", "insert", "refind"}
               \/ \E i \in Items : call'[c].item = {i}
  BY <1>2, <1>3 DEF Asked
<1> QED BY <1>1, <1>2, <1>4, AskedStays

LEMMA OpenedKeepsAsked ==
    ASSUME IInv, NEW c \in Calls, NEW r \in Runs, NEW row \in Rows, Opened(c, r, row)
    PROVE  Asked => Asked'
<1>1. CASE call[c].agent = Nobody
  <2> DEFINE request == [call[c] EXCEPT !.stage = "model", !.of = {r}, !.seen = row]
  <2>1. call[c] \in Requests
    BY Kinds DEF IInv
  <2>2. request \in Requests /\ request.stage = "model"
    BY <2>1 DEF Requests, Stages
  <2>3. call' = [call EXCEPT ![c] = request]
    BY <1>1, Kinds DEF Opened, IInv
  <2> HIDE DEF request
  <2> QED BY <2>2, <2>3, SetsOut
<1>2. CASE call[c].agent # Nobody
  BY <1>2, LeavesAsked DEF Opened, Answered
<1> QED BY <1>1, <1>2

LEMMA AskedKept == IInv /\ Asked /\ [Next]_vars => Asked'
<1> SUFFICES ASSUME IInv, Asked, [Next]_vars PROVE Asked'
  OBVIOUS
<1>1. run \in [Runs -> Rows] /\ call \in [Calls -> Requests]
  BY Kinds DEF IInv
<1>2. CASE UNCHANGED call
  BY <1>2 DEF Asked
<1>3. ASSUME NEW c \in Calls, NEW a \in Agents \union {Nobody}, NEW i \in Items, StartOpen(c, a, i)
      PROVE  Asked'
  <2> DEFINE request == [NoCall EXCEPT !.stage = "find", !.agent = a, !.item = {i}]
  <2>1. request \in Requests /\ request.item = {i}
    BY NoCallIsARequest DEF NoCall, Requests, Stages
  <2>2. call' = [call EXCEPT ![c] = request]
    BY <1>3 DEF StartOpen
  <2> HIDE DEF request
  <2> QED BY <2>1, <2>2, SetsOut
<1>4. ASSUME NEW c \in Calls, Find(c) \/ Refind(c) PROVE Asked'
  <2>1. CASE \E r \in Found(c) : Opened(c, r, run[r])
    <3>1. Found(c) \subseteq Runs
      BY DEF Found, ActiveRuns
    <3> QED BY <1>1, <2>1, <3>1, OpenedKeepsAsked
  <2>2. CASE Reach(c, "insert") /\ call[c].stage = "find"
    BY <2>2, MovesOn DEF Stages
  <2>3. CASE Leave(c)
    BY <2>3, LeavesAsked
  <2> QED BY <1>4, <2>1, <2>2, <2>3 DEF Find, Refind
<1>5. ASSUME NEW c \in Calls, Insert(c) PROVE Asked'
  <2>1. PICK r \in Runs : Opened(c, r, Created(c))
    BY <1>5 DEF Insert
  <2>2. Created(c) \in Rows
    BY <1>1, ShortTraces DEF Created, Requests, Rows, Statuses, Active
  <2> QED BY <2>1, <2>2, OpenedKeepsAsked
<1>6. ASSUME NEW c \in Calls, InsertRefused(c) \/ SkillProposes(c) PROVE Asked'
  <2>1. CASE InsertRefused(c)
    BY <2>1, MovesOn DEF InsertRefused, Stages
  <2>2. CASE SkillProposes(c)
    BY <2>2, MovesOn DEF SkillProposes, Stages
  <2> QED BY <1>6, <2>1, <2>2
<1>7. ASSUME NEW c \in Calls, NEW r \in Runs,
             (\E a \in Agents : ReportReads(c, a, r)) \/ SteerReads(c, r)
      PROVE  Asked'
  <2>1. \A d \in Calls : d # c => call'[d] = call[d]
    BY <1>1, <1>7 DEF ReportReads, SteerReads
  <2>2. call'[c].stage \in {"report", "steer"}
    BY <1>1, <1>7 DEF ReportReads, SteerReads, NoCall
  <2> QED BY <2>1, <2>2, AskedStays DEF IInv
<1>8. ASSUME NEW c \in Calls,
             \/ ReportWrites(c) \/ SteerWrites(c)
             \/ SkillSucceeds(c) \/ SkillFails(c) \/ Crash(c)
      PROVE  Asked'
  <2>1. Leave(c)
    BY <1>8, Zenon DEF ReportWrites, SteerWrites, SkillSucceeds, SkillFails, Crash
  <2> QED BY <2>1, LeavesAsked
<1>9. CASE \E r \in Runs : Cancel(r)
  BY <1>2, <1>9 DEF Cancel
<1> QED BY <1>2, <1>3, <1>4, <1>5, <1>6, <1>7, <1>8, <1>9, Zenon DEF Next, vars

LEMMA AlwaysAsked == Spec => []Asked
<1>1. Init => Asked
  BY DEF Init, Asked, NoCall
<1> QED BY <1>1, AskedKept, AlwaysIInv, PTL DEF Spec

-------------------------------------------------------------------------------
LEMMA StepsCounted ==
    ASSUME TypeOK, NEW r \in Runs, Accept(r)
    PROVE  Atomic!Counted(r) /\ NextStep(r) = Counts[r] + 1
<1>1. said[r] \in Seq(Nat) /\ said' \in [Runs -> Seq(Nat)] /\ NextStep(r) \in Nat
  BY AStepIsSaid DEF TypeOK
<1>2. said'[r] = Append(said[r], NextStep(r)) /\ \A s \in Runs : s # r => said'[s] = said[s]
  BY AStepIsSaid
<1>3. Len(said'[r]) = Len(said[r]) + 1
  BY <1>1, <1>2, AppendProperties
<1>4. Counts' = [Counts EXCEPT ![r] = @ + 1]
  BY <1>2, <1>3 DEF Counts
<1>5. NextStep(r) = Counts[r] + 1
  BY DEF NextStep, Counts
<1> QED BY <1>4, <1>5 DEF Atomic!Counted, Counts

(* The two ways the cap of a trace is written.                              *)
LEMMA WithIsAppendStep ==
    ASSUME NEW trace \in Seq(Nat), NEW step \in Nat
    PROVE  appendStep(trace, step) = Atomic!With(trace, step)
<1>1. MaxTrace \in Nat /\ Len(trace) \in Nat
  BY RunsAssumption, LenProperties
<1>2. Len(Append(trace, step)) = Len(trace) + 1
  BY AppendProperties
<1> DEFINE longer == Append(trace, step)
<1>5. appendStep(trace, step) = IF Len(longer) <= MaxTrace THEN longer
                                ELSE SubSeq(longer, Len(longer) - MaxTrace + 1, Len(longer))
  BY Zenon DEF appendStep
<1>6. Atomic!With(trace, step) = IF Len(trace) < MaxTrace THEN longer
                                 ELSE SubSeq(longer, Len(trace) - MaxTrace + 2, Len(trace) + 1)
  BY Zenon DEF Atomic!With
<1>7. Len(longer) = Len(trace) + 1
  BY <1>2
<1> HIDE DEF longer
<1>8. Len(longer) <= MaxTrace <=> Len(trace) < MaxTrace
  BY <1>1, <1>7
<1>9. Len(longer) - MaxTrace + 1 = Len(trace) - MaxTrace + 2
  BY <1>1, <1>7
<1>10. SubSeq(longer, Len(longer) - MaxTrace + 1, Len(longer))
         = SubSeq(longer, Len(trace) - MaxTrace + 2, Len(trace) + 1)
  BY <1>7, <1>9
<1>11. CASE Len(trace) < MaxTrace
  BY <1>5, <1>6, <1>8, <1>11, Zenon
<1>12. CASE ~ (Len(trace) < MaxTrace)
  BY <1>5, <1>6, <1>8, <1>10, <1>12, Zenon
<1> QED BY <1>11, <1>12

LEMMA NothingMoves ==
    ASSUME UNCHANGED <<run, said, fate, shown>>
    PROVE  UNCHANGED Atomic!vars
BY DEF Atomic!vars

LEMMA InitRefines == Init => Atomic!Init
<1> SUFFICES ASSUME Init PROVE Atomic!Init
  OBVIOUS
<1>1. Len(<<>>) = 0
  BY EmptySeq
<1>2. Counts = [r \in Runs |-> 0]
  BY <1>1 DEF Init, Counts
<1>3. Told = {}
  BY DEF Init, Told
<1>4. run = [r \in Runs |-> Atomic!Blank]
  BY DEF Init, NoRun, Atomic!Blank
<1>5. shown = {}
  BY DEF Init
<1> QED BY <1>2, <1>3, <1>4, <1>5 DEF Atomic!Init, Counts, Told

(* The index decides the race to open, at the insert.                       *)
LEMMA InsertIsOpen ==
    ASSUME IInv, Asked, NEW c \in Calls, Insert(c)
    PROVE  Atomic!Next
<1>1. PICK r \in Runs : /\ run[r].status = "absent"
                        /\ run' = [run EXCEPT ![r] = Created(c)]
                        /\ Accept(r)
  BY DEF Insert
<1>2. /\ Conflict(c) = {} /\ fate' = fate /\ call[c].stage = "insert"
      /\ shown' = shown
  <2>1. PICK s \in Runs : Opened(c, s, Created(c))
    BY DEF Insert
  <2>2. shown' = shown \union ({Created(c).note} \ {NoNote}) \/ shown' = shown
    BY <2>1, Zenon DEF Opened, Answered
  <2>3. Created(c).note = NoNote
    BY DEF Created
  <2> QED BY <2>2, <2>3 DEF Insert
<1>3. PICK i \in Items : call[c].item = {i}
  BY <1>2 DEF Asked
<1> DEFINE a == call[c].agent
<1>4. a \in Agents \union {Nobody}
  BY Kinds DEF IInv, Requests
<1>5. a # Nobody => ~ \E s \in Runs : run[s].status \in Active /\ run[s].agent = a /\ run[s].item = {i}
  BY <1>2, <1>3 DEF Conflict, ActiveRuns
<1>6. run' = [run EXCEPT ![r] = [status |-> "running", agent |-> a, item |-> {i},
                                 note |-> NoNote, trace |-> <<1>>]]
  BY <1>1, <1>3, Zenon DEF Created
<1>7. Atomic!Counted(r)
  BY <1>1, StepsCounted DEF IInv
<1>8. Told' = Told
  BY <1>2 DEF Told
<1> HIDE DEF a
<1>9. Atomic!Open(r, a, i)
  BY <1>1, <1>2, <1>5, <1>6, <1>7, <1>8 DEF Atomic!Open, Atomic!Active, Active, Told
<1> QED BY <1>4, <1>9, Zenon DEF Atomic!Next

(* What a report has read under the lock is what is there when it writes.   *)
LEMMA ReportIsReport ==
    ASSUME IInv, NEW c \in Calls, ReportWrites(c)
    PROVE  Atomic!Next
<1>1. PICK r \in call[c].of, status \in Reportable :
         \/ /\ run' = [run EXCEPT ![r] = [run[r] EXCEPT !.status = status, !.note = NoNote]]
            /\ UNCHANGED said
         \/ /\ run' = [run EXCEPT ![r] =
                  [[run[r] EXCEPT !.status = status, !.note = NoNote]
                      EXCEPT !.trace = appendStep(call[c].seen.trace, NextStep(r))]]
            /\ Accept(r)
  BY Zenon DEF ReportWrites
<1>2. /\ call[c].stage = "report"
      /\ fate' = [n \in Notes |-> IF n = call[c].seen.note THEN Taken(n) ELSE fate[n]]
      /\ shown' = shown
  BY DEF ReportWrites
<1>3. r \in Runs /\ Busy(c, {"report"}, r) /\ run[r] \in Rows
  BY <1>1, <1>2, Kinds DEF Busy, IInv, Requests
<1>4. run[r].status \in Active /\ run[r].agent # Nobody /\ call[c].seen = run[r]
  BY <1>3 DEF IInv, Held
<1>5. Told' = Told \union ({run[r].note} \ {NoNote})
  <2>1. run[r].note \in Notes \union {NoNote} /\ NoNote \notin Notes
    BY <1>3, RunsAssumption DEF Rows
  <2>2. \A n \in Notes :
           fate'[n] \in {"delivered", "again"}
             <=> n = run[r].note \/ fate[n] \in {"delivered", "again"}
    BY <1>2, <1>4 DEF Taken
  <2> QED BY <2>1, <2>2 DEF Told
<1>6. Atomic!Report(r, status)
  <2>1. run[r].status \in Atomic!Active
    BY <1>4 DEF Active, Atomic!Active
  <2>2. CASE /\ run' = [run EXCEPT ![r] = [run[r] EXCEPT !.status = status, !.note = NoNote]]
             /\ UNCHANGED said
    <3>1. Counts' = Counts
      BY <2>2 DEF Counts
    <3> QED BY <1>2, <1>4, <1>5, <2>1, <2>2, <3>1, Zenon DEF Atomic!Report, Told, Counts
  <2>3. CASE /\ run' = [run EXCEPT ![r] =
                  [[run[r] EXCEPT !.status = status, !.note = NoNote]
                      EXCEPT !.trace = appendStep(call[c].seen.trace, NextStep(r))]]
             /\ Accept(r)
    <3>1. Atomic!Counted(r) /\ NextStep(r) = Counts[r] + 1 /\ NextStep(r) \in Nat
      BY <1>3, <2>3, StepsCounted, AStepIsSaid DEF IInv
    <3>2. appendStep(call[c].seen.trace, NextStep(r)) = Atomic!With(run[r].trace, Counts[r] + 1)
      BY <1>3, <1>4, <3>1, WithIsAppendStep DEF Rows
    <3>3. run' = [run EXCEPT ![r] =
             [[run[r] EXCEPT !.status = status, !.note = NoNote]
                 EXCEPT !.trace = Atomic!With(run[r].trace, Counts[r] + 1)]]
      BY <2>3, <3>2
    <3> QED BY <1>2, <1>4, <1>5, <2>1, <3>1, <3>3, Zenon DEF Atomic!Report, Told, Counts
  <2> QED BY <1>1, <2>2, <2>3
<1>7. status \in Atomic!Active \union {"succeeded", "failed"}
  BY <1>1 DEF Reportable, Active, Atomic!Active
<1> QED BY <1>3, <1>6, <1>7, Zenon DEF Atomic!Next

(* A note is put on a run that was unfinished when it was read.             *)
LEMMA SteerIsSteer ==
    ASSUME IInv, NEW c \in Calls, SteerWrites(c)
    PROVE  Atomic!Next
<1>1. PICK r \in call[c].of, n \in Notes :
         /\ fate[n] = "unsaid"
         /\ run' = [run EXCEPT ![r].note = n]
         /\ fate' = [m \in Notes |-> IF m = n THEN "waiting"
                                     ELSE IF m = run[r].note THEN "replaced" ELSE fate[m]]
  BY DEF SteerWrites
<1>2. said' = said /\ shown' = shown /\ call[c].stage = "steer"
  BY DEF SteerWrites
<1>3. r \in Runs /\ Busy(c, {"steer"}, r)
  BY <1>1, <1>2, Kinds DEF Busy, IInv, Requests
<1>4. run[r].status # "absent"
  BY <1>3 DEF IInv, Steered
<1>5. n \notin Told \union {run[s].note : s \in Runs}
  BY <1>1 DEF Told, IInv, NoNoteClearedUndelivered
<1>6. Told' = Told
  <2>1. \A m \in Notes : m = run[r].note => fate[m] = "waiting"
    BY <1>3 DEF IInv, NoNoteClearedUndelivered
  <2>2. \A m \in Notes : fate'[m] \in {"delivered", "again"} <=> fate[m] \in {"delivered", "again"}
    BY <1>1, <2>1
  <2> QED BY <2>2 DEF Told
<1>7. Counts' = Counts
  BY <1>2 DEF Counts
<1>8. Atomic!Steer(r, n)
  BY <1>1, <1>2, <1>4, <1>5, <1>6, <1>7, Zenon DEF Atomic!Steer, Told, Counts
<1> QED BY <1>1, <1>3, <1>8, Zenon DEF Atomic!Next

LEMMA CancelIsCancel ==
    ASSUME NEW r \in Runs, Cancel(r)
    PROVE  Atomic!Next
<1>1. Counts' = Counts /\ Told' = Told /\ shown' = shown
  BY DEF Cancel, Counts, Told
<1>2. run[r].status \in Atomic!Active /\ run' = [run EXCEPT ![r].status = "cancelled"]
  BY DEF Cancel, Active, Atomic!Active
<1>3. Atomic!Cancel(r)
  BY <1>1, <1>2, Zenon DEF Atomic!Cancel, Told, Counts
<1> QED BY <1>3, Zenon DEF Atomic!Next

(* A skill settles a run nobody else reports to, so what it last read of    *)
(* the trace is the trace.                                                  *)
LEMMA SkillIsSettle ==
    ASSUME IInv, NEW c \in Calls, SkillSucceeds(c) \/ SkillFails(c)
    PROVE  Atomic!Next
<1>1. PICK r \in call[c].of :
         \/ /\ run' = [run EXCEPT ![r] = [@ EXCEPT !.status = "succeeded",
                           !.trace = Append(call[c].seen.trace, NextStep(r))]]
            /\ Accept(r)
         \/ run' = [run EXCEPT ![r].status = "failed"] /\ UNCHANGED said
  BY DEF SkillSucceeds, SkillFails
<1>2. fate' = fate /\ shown' = shown /\ call[c].stage \in Asking
  BY DEF SkillSucceeds, SkillFails, Asking
<1>3. r \in Runs /\ Busy(c, Asking, r)
  BY <1>1, <1>2, Kinds DEF Busy, IInv, Requests
<1>4. /\ run[r].status # "absent" /\ run[r].agent = Nobody
      /\ call[c].seen.trace = <<1>> /\ said[r] = <<1>>
  BY <1>3 DEF IInv, Skilled
<1>5. run[r].trace = <<1>> /\ Len(<<1>>) = 1 /\ MaxTrace \in Nat /\ MaxTrace >= 2
  <2>1. run[r].trace = Latest(said[r])
    BY <1>3 DEF IInv, TraceIsLatestSteps, Latest, First
  <2> QED BY <1>4, <2>1, ShortTraces, RunsAssumption
<1>6. Told' = Told
  BY <1>2 DEF Told
<1>7. CASE /\ run' = [run EXCEPT ![r] = [@ EXCEPT !.status = "succeeded",
                           !.trace = Append(call[c].seen.trace, NextStep(r))]]
           /\ Accept(r)
  <2>1. Atomic!Counted(r) /\ NextStep(r) = Counts[r] + 1
    BY <1>3, <1>7, StepsCounted DEF IInv
  <2>2. Atomic!With(run[r].trace, Counts[r] + 1) = Append(call[c].seen.trace, NextStep(r))
    <3>1. Len(run[r].trace) < MaxTrace
      BY <1>5
    <3> QED BY <1>4, <1>5, <2>1, <3>1, Zenon DEF Atomic!With
  <2>3. run' = [run EXCEPT ![r] = [@ EXCEPT !.status = "succeeded",
                  !.trace = Atomic!With(run[r].trace, Counts[r] + 1)]]
    BY <1>7, <2>2, Zenon
  <2>4. Atomic!Settle(r, "succeeded")
    BY <1>2, <1>4, <1>6, <2>1, <2>3, Zenon DEF Atomic!Settle, Told, Counts
  <2> QED BY <1>3, <2>4, Zenon DEF Atomic!Next
<1>8. CASE run' = [run EXCEPT ![r].status = "failed"] /\ UNCHANGED said
  <2>1. Counts' = Counts
    BY <1>8 DEF Counts
  <2>2. Atomic!Settle(r, "failed")
    BY <1>2, <1>4, <1>6, <1>8, <2>1, Zenon DEF Atomic!Settle, Told, Counts
  <2> QED BY <1>3, <2>2, Zenon DEF Atomic!Next
<1> QED BY <1>1, <1>7, <1>8

(* To find a run that is open is to join it.                                *)
LEMMA FoundIsJoined ==
    ASSUME IInv, NEW c \in Calls, Find(c) \/ Refind(c)
    PROVE  Atomic!Next \/ UNCHANGED Atomic!vars
<1>1. UNCHANGED <<run, said, fate>>
  BY DEF Find, Refind
<1>2. CASE UNCHANGED shown
  BY <1>1, <1>2, NothingMoves
<1>3. CASE \E r \in Found(c) : Opened(c, r, run[r])
  <2>1. PICK r \in Found(c) : Opened(c, r, run[r])
    BY <1>3
  <2>2. /\ r \in Runs /\ run[r].status \in Atomic!Active /\ run[r].agent # Nobody
        /\ shown' = shown \union ({run[r].note} \ {NoNote})
    BY <2>1, AnAgentIsAnswered DEF Active, Atomic!Active
  <2>3. Counts' = Counts /\ Told' = Told
    BY <1>1 DEF Counts, Told
  <2>4. Atomic!Join(r)
    BY <1>1, <2>2, <2>3, Zenon DEF Atomic!Join, Told, Counts
  <2> QED BY <2>2, <2>4, Zenon DEF Atomic!Next
<1> QED BY <1>2, <1>3 DEF Find, Refind

LEMMA StepRefines == IInv /\ Asked /\ [Next]_vars => [Atomic!Next]_(Atomic!vars)
<1> SUFFICES ASSUME IInv, Asked, [Next]_vars PROVE Atomic!Next \/ UNCHANGED Atomic!vars
  OBVIOUS
<1>1. CASE \E r \in Runs : Cancel(r)
  BY <1>1, CancelIsCancel
<1>2. CASE \E c \in Calls : Insert(c)
  BY <1>2, InsertIsOpen
<1>3. CASE \E c \in Calls : ReportWrites(c) \/ SteerWrites(c)
  BY <1>3, ReportIsReport, SteerIsSteer
<1>4. CASE \E c \in Calls : SkillSucceeds(c) \/ SkillFails(c)
  BY <1>4, SkillIsSettle
<1>5. CASE \E c \in Calls : Find(c) \/ Refind(c)
  BY <1>5, FoundIsJoined
<1>6. CASE \/ UNCHANGED vars
           \/ \E c \in Calls :
                \/ \E a \in Agents \union {Nobody}, i \in Items : StartOpen(c, a, i)
                \/ InsertRefused(c)
                \/ \E s \in Runs : (\E a \in Agents : ReportReads(c, a, s)) \/ SteerReads(c, s)
                \/ SkillProposes(c) \/ Crash(c)
  <2>1. UNCHANGED <<run, said, fate, shown>>
    BY <1>6 DEF StartOpen, InsertRefused, ReportReads, SteerReads,
                SkillProposes, Crash, vars
  <2> QED BY <2>1, NothingMoves
<1> QED BY <1>1, <1>2, <1>3, <1>4, <1>5, <1>6, Zenon DEF Next

(* For any agents, requests, notes, crashes and cap on a trace, a call is   *)
(* one step on the row as it is: reads made earlier, races to open and      *)
(* retries are nothing a caller could see.                                  *)
THEOREM CallsAreAtomic == Spec => ImplementsAtomicRuns
BY InitRefines, StepRefines, AlwaysIInv, AlwaysAsked, PTL DEF Spec, ImplementsAtomicRuns, Atomic!Spec
===============================================================================
