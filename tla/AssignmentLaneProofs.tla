------------------------ MODULE AssignmentLaneProofs ------------------------
(***************************************************************************)
(* Proofs about AssignmentLane, for every set of assignments and every     *)
(* number of failed calls, restarts, deleted runs and misjudged deliveries:*)
(* one run per assignment, one terminal event of the bridge and one of the *)
(* judgement, and "completed" only for work that was delivered.            *)
(***************************************************************************)
EXTENDS AssignmentLane, FiniteSetTheorems, WellFoundedInduction, TLAPS

Kind == {"completed", "failed"}
RunRecord == [phase : Phase, verdict : Verdict, attempts : Nat]
ProcRecord == [step : Step, asg : Assignment \cup {NoAsg}, run : Nat, attempts : Nat,
               payload : Kind \cup {""}]

LaneType ==
  /\ leased \subseteq Assignment /\ IsFiniteSet(leased) /\ blind \subseteq Assignment
  /\ misjudged \in [Assignment -> 0 .. MaxMisjudged]
  /\ recorded \in [Assignment -> SUBSET ({"started", "terminal", "failclosed"} \X Nat)]
  /\ outcomes \in [Assignment -> Seq(Kind)]
  /\ stream \in Seq(Assignment) /\ held \in Assignment \cup {NoAsg}
  /\ queue \in Seq(Assignment) /\ Len(queue) <= 1
  /\ proc \in ProcRecord
  /\ started \subseteq Assignment /\ terminal \subseteq Assignment
  /\ crs \in [Assignment -> Seq(RunRecord)]
  /\ faults \in 0 .. MaxFaults /\ restarts \in 0 .. MaxRestarts

\* What a step of the processor relies on: the row it has taken, the run it
\* has found, and what it has read of the run.
Bridging == {"bridge", "submitStarted", "submitTerminal", "submitLost"}
Attending == {"mark", "deliver"} \cup Bridging
Deleted(run) == run.phase = "deleted"
Complete(run) == run.phase = "Succeeded" /\ run.verdict = "handler_complete"
Tells(run, kind) == Deleted(run) \/ (Settled(run) /\ (kind = "completed" => Complete(run)))
TheRun == crs[proc.asg][proc.run]
ProcOrder ==
  /\ proc.step = "idle" <=> proc.asg = NoAsg
  /\ proc.asg \in Bad => proc.step = "failclosed"
  /\ proc.step \in Attending => proc.run \in DOMAIN crs[proc.asg]
  /\ proc.step = "create" => Existing(proc.asg) = {} \/ proc.asg \in blind
  /\ proc.step \in Bridging => proc.asg \notin terminal
  /\ proc.step = "submitLost" => Deleted(TheRun)
  /\ proc.step = "submitTerminal" => proc.payload \in Kind /\ Tells(TheRun, proc.payload)

\* A row is closed by the answer of a bridge, as no run is for a row that
\* cannot be attributed, or by the one id of a delivery that fails closed.
Bridged(a) == \E corr \in recorded[a] : corr[1] = "terminal"
Answered ==
  /\ \A a \in Bad : crs[a] = <<>> /\ ~Bridged(a)
  /\ \A a \in Assignment : /\ Closed(a) <=> FailedClosed(a) \/ Bridged(a)
                           /\ Contains(outcomes[a], "completed") => Bridged(a)

OneRun == \A a \in Assignment \ blind : \A i, j \in Existing(a) : i = j

\* Why a bridged row is not bridged again: the ledger has it, nothing brings it
\* back, or the bridge repeats what castle has recorded.
Waits(a, deliveries) == \E i \in DOMAIN deliveries : deliveries[i] = a
AtHand(a) == held = a \/ proc.asg = a \/ Waits(a, stream) \/ Waits(a, queue)
Repeats(a) ==
  proc.asg = a /\ proc.step \in Bridging /\ <<"terminal", proc.attempts>> \in recorded[a]
Answers(a) == (IF FailedClosed(a) THEN 1 ELSE 0) + (IF Bridged(a) THEN 1 ELSE 0)
OneTerminal ==
  \A a \in Assignment : Existing(a) = DOMAIN crs[a] =>
    /\ Len(outcomes[a]) <= Answers(a)
    /\ Bridged(a) => crs[a] # <<>> /\ (a \in terminal \/ ~AtHand(a) \/ Repeats(a))

LInv == LaneType /\ ProcOrder /\ Answered /\ OneRun /\ OneTerminal /\ RowAnswersRun

-----------------------------------------------------------------------------
\* Runs that change where they are: what is over stays over.
RunsMove ==
  \A a \in Assignment :
    /\ DOMAIN crs'[a] = DOMAIN crs[a]
    /\ \A i \in DOMAIN crs[a] :
         /\ Deleted(crs[a][i]) => Deleted(crs'[a][i])
         /\ \A kind : Tells(crs[a][i], kind) => Tells(crs'[a][i], kind)

LEMMA FirstRun ==
  ASSUME LaneType, NEW a \in Assignment, Existing(a) # {}
  PROVE  (CHOOSE i \in Existing(a) : \A j \in Existing(a) : i <= j) \in Existing(a)
<1>1. Existing(a) \subseteq Nat
  BY DEF Existing, LaneType
<1>2. PICK i \in Existing(a) : \A j \in Existing(a) : ~(<<j, i>> \in OpToRel(<, Nat))
  BY <1>1, WFMin, NatLessThanWellFounded
<1>3. \A j \in Existing(a) : ~(j < i)
  BY <1>1, <1>2 DEF OpToRel
<1>4. \A j \in Existing(a) : i <= j
  BY <1>1, <1>3
<1> QED BY <1>4

LEMMA EmptyDomain ==
  ASSUME NEW S, NEW s \in Seq(S)
  PROVE  DOMAIN s = {} <=> s = <<>>
<1>1. Len(s) \in Nat /\ DOMAIN s = 1 .. Len(s)
  OBVIOUS
<1>2. Len(s) # 0 => 1 \in DOMAIN s
  BY <1>1
<1>3. Len(s) = 0 => s = <<>>
  OBVIOUS
<1> QED BY <1>1, <1>2, <1>3

LEMMA RunsStay ==
  ASSUME LaneType, LaneType', RunsMove, NEW a \in Assignment
  PROVE  /\ Existing(a)' \subseteq Existing(a)
         /\ Existing(a)' = DOMAIN crs'[a] => Existing(a) = DOMAIN crs[a]
         /\ crs[a] = <<>> <=> crs'[a] = <<>>
<1>1. \A i \in Existing(a)' : i \in Existing(a)
  BY DEF RunsMove, Existing, Deleted
<1>2. (DOMAIN crs[a] = {} <=> crs[a] = <<>>) /\ (DOMAIN crs'[a] = {} <=> crs'[a] = <<>>)
  <2>1. \A s \in Seq(RunRecord) : DOMAIN s = {} <=> s = <<>>
    BY EmptyDomain
  <2>2. crs[a] \in Seq(RunRecord) /\ crs'[a] \in Seq(RunRecord)
    BY DEF LaneType
  <2> QED BY <2>1, <2>2
<1>3. DOMAIN crs'[a] = DOMAIN crs[a] /\ Existing(a) \subseteq DOMAIN crs[a]
  BY DEF RunsMove, Existing
<1> QED BY <1>1, <1>2, <1>3

LEMMA AppendKind ==
  ASSUME NEW s \in Seq(Kind), NEW kind \in Kind
  PROVE  /\ Append(s, kind) # <<>> /\ Len(Append(s, kind)) = Len(s) + 1 /\ Len(s) \in Nat
         /\ \A e : Contains(Append(s, kind), e) <=> Contains(s, e) \/ e = kind
<1>1. /\ Len(s) \in Nat /\ Len(Append(s, kind)) = Len(s) + 1 /\ Append(s, kind)[Len(s) + 1] = kind
      /\ \A i \in 1 .. Len(s) : Append(s, kind)[i] = s[i]
  OBVIOUS
<1>2. \A i : i \in 1 .. Len(s) + 1 <=> i \in 1 .. Len(s) \/ i = Len(s) + 1
  BY <1>1
<1>3. Append(s, kind) # <<>>
  BY <1>1
<1>4. ASSUME NEW e
      PROVE  Contains(Append(s, kind), e) <=> Contains(s, e) \/ e = kind
  BY <1>1, <1>2 DEF Contains
<1> QED BY <1>1, <1>3, <1>4

(* The invariants that do not mention the processor, under each of the     *)
(* things that can happen to what they mention.                             *)
LEMMA RowsStill ==
  ASSUME LaneType, Answered, OneRun, RowAnswersRun,
         UNCHANGED <<recorded, outcomes, crs>>, blind \subseteq blind'
  PROVE  Answered' /\ OneRun' /\ RowAnswersRun'
<1>1. \A a \in Assignment : /\ Existing(a)' = Existing(a) /\ (Closed(a)' <=> Closed(a))
                           /\ (Bridged(a)' <=> Bridged(a)) /\ (FailedClosed(a)' <=> FailedClosed(a))
  BY DEF Existing, Closed, Bridged, FailedClosed
<1>2. Answered'
  BY <1>1, LaneAssumption DEF Answered, LaneAssumption
<1>3. OneRun'
  BY <1>1 DEF OneRun
<1>4. RowAnswersRun'
  BY <1>1 DEF RowAnswersRun
<1> QED BY <1>2, <1>3, <1>4

LEMMA RowsUnderMoves ==
  ASSUME LaneType, LaneType', Answered, OneRun, RowAnswersRun,
         RunsMove, UNCHANGED <<recorded, outcomes, blind>>
  PROVE  Answered' /\ OneRun' /\ RowAnswersRun'
<1>1. \A a \in Assignment : /\ (Closed(a)' <=> Closed(a)) /\ (Bridged(a)' <=> Bridged(a))
                           /\ (FailedClosed(a)' <=> FailedClosed(a))
  BY DEF Closed, Bridged, FailedClosed
<1>2. Answered'
  <2>1. \A a \in Bad : crs'[a] = <<>>
    BY RunsStay, LaneAssumption DEF Answered, LaneAssumption
  <2> QED BY <1>1, <2>1, LaneAssumption DEF Answered, LaneAssumption
<1>3. OneRun'
  BY RunsStay DEF OneRun
<1>4. ASSUME NEW a \in Assignment \ blind, Existing(a)' = DOMAIN crs'[a], NEW i \in DOMAIN crs'[a]
      PROVE  /\ Closed(a) /\ ~FailedClosed(a) => Settled(crs'[a][i])
             /\ Contains(outcomes[a], "completed") => Complete(crs'[a][i])
  <2>1. i \in DOMAIN crs[a] /\ Existing(a) = DOMAIN crs[a] /\ ~Deleted(crs'[a][i])
    BY <1>4, RunsStay DEF RunsMove, Existing, Deleted
  <2>2. /\ Closed(a) /\ ~FailedClosed(a) => Settled(crs[a][i])
        /\ Contains(outcomes[a], "completed") => Complete(crs[a][i])
    BY <1>4, <2>1 DEF RowAnswersRun, Complete
  <2>3. CASE Settled(crs[a][i])
    <3>1. Tells(crs[a][i], "failed") /\ (Complete(crs[a][i]) => Tells(crs[a][i], "completed"))
      BY <2>3 DEF Tells
    <3>2. Tells(crs'[a][i], "failed") /\ (Complete(crs[a][i]) => Tells(crs'[a][i], "completed"))
      BY <2>1, <3>1 DEF RunsMove
    <3> QED BY <2>1, <2>2, <3>2 DEF Tells
  <2>4. CASE ~Settled(crs[a][i])
    BY <2>2, <2>4 DEF Settled, Complete
  <2> QED BY <2>3, <2>4
<1>5. RowAnswersRun'
  BY <1>1, <1>4 DEF RowAnswersRun, Settled, Complete
<1> QED BY <1>2, <1>3, <1>5

\* A new run of the assignment at hand.
RunAdded(a) ==
  \E run \in RunRecord : ~Deleted(run) /\ crs' = [crs EXCEPT ![a] = Append(@, run)]

LEMMA AddedRun ==
  ASSUME LaneType, NEW a \in Assignment, RunAdded(a)
  PROVE  /\ \A b \in Assignment \ {a} : crs'[b] = crs[b]
         /\ DOMAIN crs'[a] = 1 .. Len(crs[a]) + 1 /\ Len(crs'[a]) = Len(crs[a]) + 1
         /\ DOMAIN crs[a] = 1 .. Len(crs[a]) /\ Len(crs[a]) \in Nat
         /\ \A i \in DOMAIN crs[a] : crs'[a][i] = crs[a][i]
         /\ ~Deleted(crs'[a][Len(crs[a]) + 1])
         /\ Existing(a)' = Existing(a) \cup {Len(crs[a]) + 1}
<1>1. PICK run \in RunRecord : ~Deleted(run) /\ crs' = [crs EXCEPT ![a] = Append(@, run)]
  BY DEF RunAdded
<1>2. crs[a] \in Seq(RunRecord) /\ crs'[a] = Append(crs[a], run)
      /\ \A b \in Assignment \ {a} : crs'[b] = crs[b]
  BY <1>1 DEF LaneType
<1>3. /\ Len(crs[a]) \in Nat /\ DOMAIN crs[a] = 1 .. Len(crs[a])
      /\ DOMAIN crs'[a] = 1 .. Len(crs[a]) + 1 /\ Len(crs'[a]) = Len(crs[a]) + 1
      /\ \A i \in 1 .. Len(crs[a]) : crs'[a][i] = crs[a][i]
      /\ crs'[a][Len(crs[a]) + 1] = run
  BY <1>2
<1>4. Existing(a)' = Existing(a) \cup {Len(crs[a]) + 1}
  <2>1. \A i : i \in Existing(a)' <=> i \in 1 .. Len(crs[a]) + 1 /\ crs'[a][i].phase # "deleted"
    BY <1>3 DEF Existing
  <2>2. \A i : i \in Existing(a) <=> i \in 1 .. Len(crs[a]) /\ crs[a][i].phase # "deleted"
    BY <1>3 DEF Existing
  <2>3. \A i : i \in 1 .. Len(crs[a]) + 1 <=> i \in 1 .. Len(crs[a]) \/ i = Len(crs[a]) + 1
    BY <1>3
  <2> QED BY <1>1, <1>3, <2>1, <2>2, <2>3 DEF Deleted
<1> QED BY <1>1, <1>2, <1>3, <1>4

LEMMA RowsUnderCreate ==
  ASSUME LInv, LaneType', NEW a \in Assignment, a = proc.asg,
         proc.step = "create", RunAdded(a), UNCHANGED <<recorded, outcomes, blind>>
  PROVE  Answered' /\ OneRun' /\ RowAnswersRun'
<1>1. a \in Assignment \ Bad /\ (Existing(a) = {} \/ a \in blind)
  BY DEF LInv, LaneType, ProcRecord, ProcOrder
<1>2. \A b \in Assignment \ {a} : crs'[b] = crs[b] /\ Existing(b)' = Existing(b)
  BY <1>1, AddedRun DEF LInv, Existing
<1>3. \A b \in Assignment : /\ (Closed(b)' <=> Closed(b)) /\ (Bridged(b)' <=> Bridged(b))
                           /\ (FailedClosed(b)' <=> FailedClosed(b))
  BY DEF Closed, Bridged, FailedClosed
<1>4. Answered'
  BY <1>1, <1>2, <1>3, LaneAssumption DEF LInv, Answered, LaneAssumption
<1>5. OneRun'
  BY <1>1, <1>2, AddedRun DEF LInv, OneRun
<1>6. ASSUME a \notin blind, Bridged(a), Existing(a)' = DOMAIN crs'[a]
      PROVE  FALSE
  <2>1. Existing(a)' = {Len(crs[a]) + 1} /\ Len(crs[a]) \in Nat /\ Existing(a)' = 1 .. Len(crs[a]) + 1
    BY <1>1, <1>6, AddedRun DEF LInv
  <2>2. Len(crs[a]) = 0
    <3>1. 1 \in 1 .. Len(crs[a]) + 1
      BY <2>1
    <3>2. 1 = Len(crs[a]) + 1
      BY <2>1, <3>1
    <3> QED BY <2>1, <3>2
  <2>3. crs[a] = <<>>
    BY <1>1, <2>2 DEF LInv, LaneType
  <2>4. DOMAIN crs[a] = {}
    BY <2>3
  <2> QED BY <1>1, <1>6, <2>3, <2>4 DEF LInv, OneTerminal, Existing
<1>7. RowAnswersRun'
  <2>1. (Closed(a) /\ ~FailedClosed(a)) \/ Contains(outcomes[a], "completed") => Bridged(a)
    BY DEF LInv, Answered
  <2> QED BY <1>1, <1>2, <1>3, <1>6, <2>1 DEF LInv, RowAnswersRun
<1> QED BY <1>4, <1>5, <1>7

\* Castle's side of a submit.
Submitted(a, corr, kind) == UNCHANGED castleVars \/ Record(a, corr, kind)

LEMMA RowsUnderSubmit ==
  ASSUME LInv, LaneType', NEW a \in Assignment, a = proc.asg, NEW corr, NEW kind,
         Submitted(a, corr, kind), UNCHANGED <<crs, blind>>,
         \/ proc.step = "failclosed" /\ corr = <<"failclosed", 0>> /\ kind = "failed"
         \/ proc.step = "submitStarted" /\ corr = <<"started", proc.attempts>> /\ kind = "started"
         \/ proc.step = "submitTerminal" /\ corr = <<"terminal", proc.attempts>> /\ kind = proc.payload
         \/ proc.step = "submitLost" /\ corr = <<"terminal", proc.attempts>> /\ kind = "failed"
  PROVE  Answered' /\ OneRun' /\ RowAnswersRun'
<1>1. CASE UNCHANGED castleVars
  BY <1>1, RowsStill DEF LInv, castleVars
<1>2. CASE Record(a, corr, kind)
  <2>1. a \in Assignment /\ outcomes[a] \in Seq(Kind)
    BY DEF LInv, LaneType
  <2>2. /\ \A b \in Assignment \ {a} : outcomes'[b] = outcomes[b] /\ recorded'[b] = recorded[b]
        /\ recorded'[a] = recorded[a] \cup {corr}
        /\ \/ outcomes'[a] = outcomes[a] /\ (kind = "started" \/ corr \in recorded[a])
           \/ kind # "started" /\ corr \notin recorded[a] /\ outcomes'[a] = Append(outcomes[a], kind)
    BY <1>2, <2>1 DEF Record, LInv, LaneType
  <2>3. \A b \in Assignment : Existing(b)' = Existing(b)
    BY DEF Existing
  <2>4. kind = "started" \/ kind \in Kind
    BY DEF LInv, ProcOrder, Kind
  <2>5. \/ /\ outcomes'[a] = outcomes[a] /\ (Closed(a)' <=> Closed(a))
           /\ kind = "started" \/ corr \in recorded[a]
        \/ /\ kind # "started" /\ corr \notin recorded[a] /\ Closed(a)'
           /\ Contains(outcomes'[a], "completed") <=> Contains(outcomes[a], "completed") \/ kind = "completed"
    <3>1. CASE outcomes'[a] = outcomes[a]
      BY <2>2, <3>1 DEF Closed
    <3>2. CASE kind # "started" /\ corr \notin recorded[a] /\ outcomes'[a] = Append(outcomes[a], kind)
      <4>1. /\ Append(outcomes[a], kind) # <<>>
            /\ \A e : Contains(Append(outcomes[a], kind), e) <=> Contains(outcomes[a], e) \/ e = kind
        BY <2>1, <2>4, <3>2, AppendKind
      <4> QED BY <3>2, <4>1 DEF Closed
    <3> QED BY <2>2, <3>1, <3>2
  <2>6. /\ FailedClosed(a)' <=> FailedClosed(a) \/ proc.step = "failclosed"
        /\ Bridged(a)' <=> Bridged(a) \/ proc.step \in {"submitTerminal", "submitLost"}
        /\ corr \in recorded[a] /\ kind # "started" => FailedClosed(a) \/ Bridged(a)
        /\ proc.step \in {"submitTerminal", "submitLost"} /\ corr \in recorded[a] => Bridged(a)
    <3>1. <<"failclosed", 0>>[1] = "failclosed" /\ <<"started", proc.attempts>>[1] = "started"
          /\ <<"terminal", proc.attempts>>[1] = "terminal"
      OBVIOUS
    <3>2. \A x : x \in recorded'[a] <=> x \in recorded[a] \/ x = corr
      BY <2>2
    <3> QED BY <3>1, <3>2 DEF FailedClosed, Bridged
  <2>7. \A b \in Assignment \ {a} : /\ (Closed(b)' <=> Closed(b)) /\ (Bridged(b)' <=> Bridged(b))
                                    /\ (FailedClosed(b)' <=> FailedClosed(b))
    BY <2>2 DEF Closed, Bridged, FailedClosed
  <2>8. Answered'
    <3>1. a \in Bad => ~Bridged(a)'
      BY <2>6 DEF LInv, ProcOrder, Answered
    <3>2. Closed(a)' <=> FailedClosed(a)' \/ Bridged(a)'
      <4>1. Closed(a) <=> FailedClosed(a) \/ Bridged(a)
        BY <2>1 DEF LInv, Answered
      <4>2. CASE outcomes'[a] = outcomes[a] /\ (Closed(a)' <=> Closed(a)) /\ kind = "started"
        <5>1. proc.step = "submitStarted"
          BY <4>2 DEF LInv, ProcOrder, Kind
        <5> QED BY <2>6, <4>1, <4>2, <5>1
      <4>3. CASE /\ outcomes'[a] = outcomes[a] /\ (Closed(a)' <=> Closed(a))
                 /\ kind # "started" /\ corr \in recorded[a]
        BY <2>6, <4>1, <4>3
      <4>4. CASE kind # "started" /\ Closed(a)'
        BY <2>6, <4>4
      <4> QED BY <2>5, <4>2, <4>3, <4>4
    <3>3. Contains(outcomes'[a], "completed") => Bridged(a)'
      BY <2>1, <2>5, <2>6 DEF LInv, Answered
    <3>4. \A b \in Bad : crs'[b] = <<>> /\ ~Bridged(b)'
      BY <2>7, <3>1, LaneAssumption DEF LInv, Answered, LaneAssumption
    <3>5. \A b \in Assignment : Contains(outcomes'[b], "completed") => Bridged(b)'
      BY <2>2, <2>7, <3>3 DEF LInv, Answered
    <3>6. \A b \in Assignment : Closed(b)' <=> FailedClosed(b)' \/ Bridged(b)'
      BY <2>7, <3>2 DEF LInv, Answered
    <3> QED BY <3>4, <3>5, <3>6 DEF Answered
  <2>9. OneRun'
    BY <2>3 DEF LInv, OneRun
  <2>10. ASSUME a \notin blind, Existing(a) = DOMAIN crs[a], NEW i \in DOMAIN crs[a]
         PROVE  /\ Closed(a)' /\ ~FailedClosed(a)' => Settled(crs[a][i])
                /\ Contains(outcomes'[a], "completed") => Complete(crs[a][i])
    <3>1. /\ Closed(a) /\ ~FailedClosed(a) => Settled(crs[a][i])
          /\ Contains(outcomes[a], "completed") => Complete(crs[a][i])
      BY <2>1, <2>10 DEF LInv, RowAnswersRun, Complete
    <3>2. CASE outcomes'[a] = outcomes[a] /\ (Closed(a)' <=> Closed(a))
      BY <2>6, <3>1, <3>2
    <3>3. CASE proc.step = "failclosed"
      BY <2>5, <2>6, <3>1, <3>3
    <3>4. CASE proc.step \in {"submitTerminal", "submitLost"}
      <4>1. proc.run \in Existing(a) /\ ~Deleted(TheRun)
        BY <2>10, <3>4 DEF LInv, ProcOrder, Attending, Bridging, TheRun, Existing, Deleted
      <4>2. i = proc.run
        BY <2>1, <2>10, <4>1 DEF LInv, OneRun
      <4>3. Tells(TheRun, kind)
        BY <3>4, <4>1 DEF LInv, ProcOrder
      <4> QED BY <2>5, <3>1, <4>1, <4>2, <4>3 DEF Tells, TheRun
    <3> QED BY <2>5, <3>2, <3>3, <3>4
  <2>11. RowAnswersRun'
    <3>1. ASSUME NEW b \in Assignment \ blind, b # a, Existing(b) = DOMAIN crs[b], NEW i \in DOMAIN crs[b]
          PROVE  /\ Closed(b)' /\ ~FailedClosed(b)' => Settled(crs[b][i])
                 /\ Contains(outcomes'[b], "completed") => Complete(crs[b][i])
      BY <2>2, <2>7, <3>1 DEF LInv, RowAnswersRun, Complete
    <3> QED BY <2>1, <2>3, <2>10, <3>1 DEF RowAnswersRun, Complete, Settled
  <2> QED BY <2>8, <2>9, <2>11
<1> QED BY <1>1, <1>2 DEF Submitted

-----------------------------------------------------------------------------
(* The types. *)
LEMMA SubmitType ==
  ASSUME LaneType, NEW a \in Assignment, NEW kind \in Kind \cup {"started"},
         NEW corr \in {"started", "terminal", "failclosed"} \X Nat,
         Acked(a, corr, kind) \/ Failed(a, corr, kind)
  PROVE  /\ leased' = leased /\ Submitted(a, corr, kind)
         /\ recorded' \in [Assignment -> SUBSET ({"started", "terminal", "failclosed"} \X Nat)]
         /\ outcomes' \in [Assignment -> Seq(Kind)]
         /\ faults' \in 0 .. MaxFaults /\ restarts' = restarts
<1>1. Submitted(a, corr, kind) /\ leased' = leased
  BY DEF Acked, Failed, Submitted, Record, castleVars
<1>2. faults' \in 0 .. MaxFaults /\ restarts' = restarts
  BY LaneAssumption DEF Acked, Failed, Fault, NoFault, budgets, LaneType, LaneAssumption
<1>3. /\ recorded' \in [Assignment -> SUBSET ({"started", "terminal", "failclosed"} \X Nat)]
      /\ outcomes' \in [Assignment -> Seq(Kind)]
  <2>1. CASE UNCHANGED castleVars
    BY <2>1 DEF castleVars, LaneType
  <2>2. CASE Record(a, corr, kind)
    <3>1. recorded[a] \cup {corr} \in SUBSET ({"started", "terminal", "failclosed"} \X Nat)
      BY DEF LaneType
    <3>2. kind # "started" => Append(outcomes[a], kind) \in Seq(Kind)
      BY DEF LaneType
    <3> QED BY <2>2, <3>1, <3>2 DEF Record, LaneType
  <2> QED BY <1>1, <2>1, <2>2 DEF Submitted
<1> QED BY <1>1, <1>2, <1>3

LEMMA FaultType ==
  ASSUME LaneType, Fault \/ NoFault
  PROVE  faults' \in 0 .. MaxFaults /\ restarts' \in 0 .. MaxRestarts
BY LaneAssumption DEF LaneType, Fault, NoFault, budgets, LaneAssumption

LEMMA RedeliveredType ==
  ASSUME LaneType, NEW s \in Redelivered
  PROVE  s \in Seq(Assignment) /\ \A a \in Assignment : Waits(a, s) => ~Closed(a)
<1> DEFINE open == {a \in leased : ~Closed(a)}
<1>1. IsFiniteSet(open)
  BY FS_Subset DEF LaneType
<1>2. Cardinality(open) \in Nat
  BY <1>1, FS_CardinalityType
<1>3. s \in [1 .. Cardinality(open) -> leased] /\ {s[i] : i \in DOMAIN s} = open
  BY DEF Redelivered
<1>4. DOMAIN s = 1 .. Cardinality(open) /\ \A i \in DOMAIN s : s[i] \in leased /\ s[i] \in open
  BY <1>3
<1>5. s \in Seq(Assignment)
  <2>1. PICK n \in Nat : s \in [1 .. n -> leased]
    BY <1>2, <1>3
  <2>2. s \in [1 .. n -> Assignment]
    BY <2>1 DEF LaneType
  <2> QED BY <2>2
<1> QED BY <1>4, <1>5 DEF Waits

LEMMA StepType ==
  ASSUME LaneType, NEW step \in Step
  PROVE  IdleProc \in ProcRecord /\ At(step) \in ProcRecord
<1>1. IdleProc \in ProcRecord
  BY DEF IdleProc, ProcRecord, Step
<1>2. At(step) \in ProcRecord
  BY DEF At, LaneType, ProcRecord
<1> QED BY <1>1, <1>2

LEMMA IntakeTypes ==
  ASSUME LInv, Receive \/ Enqueue \/ Take
  PROVE  LaneType'
<1>1. LaneType
  BY DEF LInv
<1>2. CASE Receive
  <2>1. held' \in Assignment /\ stream' \in Seq(Assignment)
    BY <1>1, <1>2 DEF Receive, LaneType
  <2> QED BY <1>1, <1>2, <2>1 DEF Receive, LaneType, castleVars, ledgers, budgets, history
<1>3. CASE Enqueue
  <2>1. queue' \in Seq(Assignment) /\ Len(queue') <= 1
    BY <1>1, <1>3 DEF Enqueue, LaneType
  <2> QED BY <1>1, <1>3, <2>1 DEF Enqueue, LaneType, castleVars, ledgers, budgets, history
<1>4. CASE Take
  <2>1. Head(queue) \in Assignment /\ queue' \in Seq(Assignment) /\ Len(queue') <= 1
    BY <1>1, <1>4 DEF Take, LaneType
  <2>2. \/ proc' = [IdleProc EXCEPT !.asg = Head(queue), !.step = "gate"]
        \/ proc' = [IdleProc EXCEPT !.asg = Head(queue), !.step = "failclosed"]
    BY <1>4 DEF Take
  <2>3. proc' \in ProcRecord
    <3>1. PICK a \in Assignment : a = Head(queue)
      BY <2>1
    <3>2. IdleProc \in ProcRecord /\ "gate" \in Step /\ "failclosed" \in Step
      BY DEF IdleProc, ProcRecord, Step
    <3>3. \A step \in Step : [IdleProc EXCEPT !.asg = a, !.step = step] \in ProcRecord
      BY <3>2 DEF ProcRecord
    <3>4. \/ proc' = [IdleProc EXCEPT !.asg = a, !.step = "gate"]
          \/ proc' = [IdleProc EXCEPT !.asg = a, !.step = "failclosed"]
      BY <2>2, <3>1
    <3> QED BY <3>2, <3>3, <3>4
  <2>4. misjudged' \in [Assignment -> 0 .. MaxMisjudged]
    <3>1. PICK a \in Assignment : a = Head(queue)
      BY <2>1
    <3>2. \/ UNCHANGED misjudged
          \/ misjudged[a] < MaxMisjudged /\ misjudged' = [misjudged EXCEPT ![a] = misjudged[a] + 1]
      BY <1>4, <3>1 DEF Take, Stampable, Unstampable
    <3>3. misjudged[a] \in 0 .. MaxMisjudged /\ MaxMisjudged \in Nat
      BY <1>1, LaneAssumption DEF LaneType, LaneAssumption
    <3>4. misjudged[a] < MaxMisjudged => misjudged[a] + 1 \in 0 .. MaxMisjudged
      BY <3>3
    <3> QED BY <1>1, <3>2, <3>4 DEF LaneType
  <2> QED BY <1>1, <1>4, <2>1, <2>3, <2>4 DEF Take, LaneType, castleVars, ledgers, budgets
<1> QED BY <1>2, <1>3, <1>4

LEMMA DecideTypes ==
  ASSUME LInv, OwnedByUs \/ FindRecordedRun \/ Deliver \/ BridgeStep
  PROVE  LaneType' /\ proc.asg \in Assignment
<1>1. LaneType /\ proc.asg \in Assignment
  BY DEF LInv, LaneType, ProcOrder, ProcRecord, OwnedByUs, FindRecordedRun, Deliver, BridgeStep
<1>2. \A step \in Step : IdleProc \in ProcRecord /\ At(step) \in ProcRecord
  BY <1>1, StepType
<1>3. CASE OwnedByUs
  <2>1. proc' \in ProcRecord
    BY <1>2, <1>3 DEF OwnedByUs, Step
  <2> QED BY <1>1, <1>3, <2>1, FaultType DEF OwnedByUs, LaneType, castleVars, ledgers, intake, history
<1>4. CASE FindRecordedRun
  <2>1. Existing(proc.asg) # {} => Attached(proc.asg) \in ProcRecord
    <3>1. Existing(proc.asg) \subseteq Nat
      BY <1>1 DEF Existing, LaneType
    <3>2. At("mark") \in ProcRecord
      BY <1>2 DEF Step
    <3> QED BY <1>1, <3>1, <3>2, FirstRun DEF Attached, ProcRecord
  <2>2. proc' \in ProcRecord /\ blind' \subseteq Assignment
    BY <1>1, <1>2, <1>4, <2>1 DEF FindRecordedRun, Step, LaneType
  <2> QED BY <1>1, <1>4, <2>2, FaultType DEF FindRecordedRun, LaneType, castleVars, ledgers, intake
<1>5. CASE Deliver
  <2>1. proc' \in ProcRecord
    BY <1>2, <1>5 DEF Deliver, Step
  <2> QED BY <1>1, <1>5, <2>1 DEF Deliver, LaneType, castleVars, ledgers, intake, history, budgets
<1>6. CASE BridgeStep
  <2>1. \A run \in RunRecord : [At("submitTerminal") EXCEPT !.payload = TerminalPayload(run)] \in ProcRecord
    <3>1. At("submitTerminal") \in ProcRecord
      BY <1>2 DEF Step
    <3> QED BY <3>1 DEF ProcRecord, TerminalPayload, Kind
  <2>2. TheRun \in RunRecord
    BY <1>1, <1>6 DEF BridgeStep, LInv, ProcOrder, Attending, Bridging, TheRun, LaneType
  <2>3. proc' \in ProcRecord
    BY <1>2, <1>6, <2>1, <2>2 DEF BridgeStep, Step, TheRun
  <2> QED BY <1>1, <1>6, <2>3 DEF BridgeStep, LaneType, castleVars, ledgers, intake, history, budgets
<1> QED BY <1>1, <1>3, <1>4, <1>5, <1>6

LEMMA SubmitTypes ==
  ASSUME LInv, FailAssignmentClosed \/ EnsureStarted \/ BridgeTerminal \/ BridgeRecordLost
  PROVE  LaneType' /\ proc.asg \in Assignment /\ blind' = blind
<1>1. LaneType /\ proc.asg \in Assignment /\ proc.attempts \in Nat
  BY DEF LInv, LaneType, ProcOrder, ProcRecord, FailAssignmentClosed, EnsureStarted, BridgeTerminal, BridgeRecordLost
<1>2. \A step \in Step : IdleProc \in ProcRecord /\ At(step) \in ProcRecord
  BY <1>1, StepType
<1>3. \A corr \in {"started", "terminal", "failclosed"} \X Nat, kind \in Kind \cup {"started"} :
        Acked(proc.asg, corr, kind) \/ Failed(proc.asg, corr, kind)
          => /\ leased' = leased /\ restarts' = restarts /\ faults' \in 0 .. MaxFaults
             /\ recorded' \in [Assignment -> SUBSET ({"started", "terminal", "failclosed"} \X Nat)]
             /\ outcomes' \in [Assignment -> Seq(Kind)]
  BY <1>1, SubmitType
<1>4. /\ leased' = leased /\ restarts' = restarts /\ faults' \in 0 .. MaxFaults
      /\ recorded' \in [Assignment -> SUBSET ({"started", "terminal", "failclosed"} \X Nat)]
      /\ outcomes' \in [Assignment -> Seq(Kind)]
  <2>1. CASE FailAssignmentClosed
    <3>1. "failed" \in Kind \cup {"started"} /\ <<"failclosed", 0>> \in {"started", "terminal", "failclosed"} \X Nat
      BY DEF Kind
    <3> QED BY <1>3, <2>1, <3>1 DEF FailAssignmentClosed
  <2>2. CASE EnsureStarted
    <3>1. <<"started", proc.attempts>> \in {"started", "terminal", "failclosed"} \X Nat
      BY <1>1
    <3> QED BY <1>3, <2>2, <3>1 DEF EnsureStarted
  <2>3. CASE BridgeTerminal \/ BridgeRecordLost
    <3>1. <<"terminal", proc.attempts>> \in {"started", "terminal", "failclosed"} \X Nat
      BY <1>1
    <3>2. BridgeTerminal => proc.payload \in Kind
      BY DEF BridgeTerminal, LInv, ProcOrder
    <3>3. "failed" \in Kind
      BY DEF Kind
    <3> QED BY <1>3, <2>3, <3>1, <3>2, <3>3 DEF BridgeTerminal, BridgeRecordLost
  <2> QED BY <2>1, <2>2, <2>3
<1>5. proc' \in ProcRecord /\ started' \subseteq Assignment /\ terminal' \subseteq Assignment
  BY <1>1, <1>2 DEF FailAssignmentClosed, EnsureStarted, BridgeTerminal, BridgeRecordLost, LaneType, ledgers, Step
<1>6. UNCHANGED <<stream, held, queue, crs, blind, misjudged>>
  BY DEF FailAssignmentClosed, EnsureStarted, BridgeTerminal, BridgeRecordLost, intake, history
<1>7. blind' = blind
  BY <1>6
<1> QED BY <1>1, <1>4, <1>5, <1>6, <1>7 DEF LaneType

LEMMA RunTypes ==
  ASSUME LaneType, NEW a \in Assignment, NEW i \in DOMAIN crs[a], NEW run \in RunRecord,
         crs' = [crs EXCEPT ![a][i] = run]
  PROVE  /\ crs' \in [Assignment -> Seq(RunRecord)]
         /\ \A b \in Assignment \ {a} : crs'[b] = crs[b]
         /\ DOMAIN crs'[a] = DOMAIN crs[a]
         /\ \A j \in DOMAIN crs[a] : crs'[a][j] = IF j = i THEN run ELSE crs[a][j]
<1>1. crs[a] \in Seq(RunRecord) /\ crs' = [crs EXCEPT ![a] = [crs[a] EXCEPT ![i] = run]]
  BY DEF LaneType
<1>2. [crs[a] EXCEPT ![i] = run] \in Seq(RunRecord)
  BY <1>1
<1>3. /\ DOMAIN [crs[a] EXCEPT ![i] = run] = DOMAIN crs[a]
      /\ \A j \in DOMAIN crs[a] : [crs[a] EXCEPT ![i] = run][j] = IF j = i THEN run ELSE crs[a][j]
  BY <1>1
<1>4. /\ crs'[a] = [crs[a] EXCEPT ![i] = run]
      /\ \A b \in Assignment \ {a} : crs'[b] = crs[b]
  BY <1>1 DEF LaneType
<1>5. crs' \in [Assignment -> Seq(RunRecord)]
  BY <1>1, <1>2 DEF LaneType
<1> QED BY <1>3, <1>4, <1>5

LEMMA OneRunMoves ==
  ASSUME LaneType, NEW a \in Assignment, NEW i \in DOMAIN crs[a], NEW run \in RunRecord,
         crs' = [crs EXCEPT ![a][i] = run],
         Deleted(crs[a][i]) => Deleted(run),
         \A kind : Tells(crs[a][i], kind) => Tells(run, kind)
  PROVE  RunsMove /\ crs' \in [Assignment -> Seq(RunRecord)]
BY RunTypes DEF RunsMove

LEMMA WorkTypes ==
  ASSUME LInv, MarkAttempts \/ CreateRun
  PROVE  /\ LaneType' /\ proc.asg \in Assignment
         /\ MarkAttempts => RunsMove
         /\ CreateRun => UNCHANGED crs \/ RunAdded(proc.asg)
<1>1. LaneType /\ proc.asg \in Assignment
  BY DEF LInv, LaneType, ProcOrder, ProcRecord, MarkAttempts, CreateRun
<1>2. \A step \in Step : IdleProc \in ProcRecord /\ At(step) \in ProcRecord
  BY <1>1, StepType
<1>3. CASE MarkAttempts
  <2>1. proc.run \in DOMAIN crs[proc.asg] /\ TheRun \in RunRecord /\ TheRun.attempts + 1 \in Nat
    <3>1. proc.run \in DOMAIN crs[proc.asg]
      BY <1>3 DEF MarkAttempts, LInv, ProcOrder, Attending
    <3>2. TheRun \in RunRecord
      BY <1>1, <3>1 DEF TheRun, LaneType
    <3> QED BY <3>1, <3>2 DEF RunRecord
  <2>2. proc' \in ProcRecord
    <3>1. At("deliver") \in ProcRecord
      BY <1>2 DEF Step
    <3> QED BY <1>3, <2>1, <3>1 DEF MarkAttempts, ProcRecord, TheRun
  <2>3. crs' \in [Assignment -> Seq(RunRecord)] /\ RunsMove
    <3>1. CASE UNCHANGED crs
      BY <1>1, <3>1 DEF RunsMove, LaneType
    <3>2. CASE crs' = [crs EXCEPT ![proc.asg][proc.run].attempts = TheRun.attempts + 1]
      <4> DEFINE run == [TheRun EXCEPT !.attempts = TheRun.attempts + 1]
      <4>1. run \in RunRecord /\ run.phase = TheRun.phase /\ run.verdict = TheRun.verdict
        BY <2>1 DEF RunRecord
      <4>2. crs' = [crs EXCEPT ![proc.asg][proc.run] = run]
        BY <3>2 DEF TheRun
      <4>3. /\ Deleted(TheRun) => Deleted(run)
            /\ \A kind : Tells(TheRun, kind) => Tells(run, kind)
        BY <4>1 DEF Deleted, Tells, Settled, Complete
      <4> HIDE DEF run
      <4> QED BY <1>1, <2>1, <4>1, <4>2, <4>3, OneRunMoves DEF TheRun
    <3> QED BY <1>3, <3>1, <3>2 DEF MarkAttempts, TheRun
  <2>4. ~CreateRun
    BY <1>3 DEF MarkAttempts, CreateRun
  <2>5. LaneType'
    BY <1>1, <1>3, <2>2, <2>3 DEF MarkAttempts, LaneType, castleVars, intake, ledgers, budgets, history
  <2> QED BY <1>1, <2>3, <2>4, <2>5
<1>4. CASE CreateRun
  <2> DEFINE created == [crs EXCEPT ![proc.asg] = Append(@, Fresh)]
  <2>1. Fresh \in RunRecord /\ ~Deleted(Fresh)
    BY DEF Fresh, RunRecord, Phase, Verdict, Deleted
  <2>2. created \in [Assignment -> Seq(RunRecord)] /\ Len(created[proc.asg]) \in Nat
    <3>1. Append(crs[proc.asg], Fresh) \in Seq(RunRecord)
      BY <1>1, <2>1 DEF LaneType
    <3>2. created[proc.asg] = Append(crs[proc.asg], Fresh)
      BY <1>1 DEF LaneType
    <3>3. Len(Append(crs[proc.asg], Fresh)) \in Nat
      BY <3>1
    <3> QED BY <1>1, <3>1, <3>2, <3>3 DEF LaneType
  <2>3. crs' \in {crs, created}
    BY <1>4 DEF CreateRun
  <2>4. proc' \in ProcRecord
    <3>1. At("deliver") \in ProcRecord
      BY <1>2 DEF Step
    <3>2. [At("deliver") EXCEPT !.run = Len(created[proc.asg]), !.attempts = 1] \in ProcRecord
      BY <2>2, <3>1 DEF ProcRecord
    <3>3. Existing(proc.asg) # {} => Attached(proc.asg) \in ProcRecord
      <4>1. Existing(proc.asg) \subseteq Nat
        BY <1>1 DEF Existing, LaneType
      <4>2. At("mark") \in ProcRecord
        BY <1>2 DEF Step
      <4> QED BY <1>1, <4>1, <4>2, FirstRun DEF Attached, ProcRecord
    <3>4. IdleProc \in ProcRecord
      BY <1>2 DEF Step
    <3> QED BY <1>4, <3>2, <3>3, <3>4 DEF CreateRun
  <2>5. faults' \in 0 .. MaxFaults /\ restarts' \in 0 .. MaxRestarts
    BY <1>1, <1>4, FaultType DEF CreateRun
  <2>6. UNCHANGED crs \/ RunAdded(proc.asg)
    BY <2>1, <2>3 DEF RunAdded
  <2>7. crs' \in [Assignment -> Seq(RunRecord)]
    BY <1>1, <2>2, <2>3 DEF LaneType
  <2>8. ~MarkAttempts
    BY <1>4 DEF MarkAttempts, CreateRun
  <2>9. LaneType'
    BY <1>1, <1>4, <2>4, <2>5, <2>7 DEF CreateRun, LaneType, castleVars, intake, ledgers, history
  <2> QED BY <1>1, <2>6, <2>8, <2>9
<1> QED BY <1>1, <1>3, <1>4

LEMMA WorldTypes ==
  ASSUME LInv, \/ \E a \in Assignment : Lease(a) \/ ExpireLease(a)
               \/ DropStream \/ RestartOperator
  PROVE  LaneType' /\ \A a \in Assignment : Waits(a, stream') => Waits(a, stream) \/ ~Closed(a)
<1>1. LaneType
  BY DEF LInv
<1>2. ASSUME NEW a \in Assignment, Lease(a)
      PROVE  LaneType' /\ \A b \in Assignment : Waits(b, stream') => Waits(b, stream) \/ ~Closed(b)
  <2>1. leased' \subseteq Assignment /\ IsFiniteSet(leased')
    BY <1>1, <1>2, FS_AddElement DEF Lease, LaneType
  <2>2. CASE stream' = stream
    BY <1>1, <1>2, <2>1, <2>2 DEF Lease, LaneType, ledgers, budgets, history
  <2>3. CASE stream' = Append(stream, a)
    <3>1. stream' \in Seq(Assignment)
      BY <1>1, <2>3 DEF LaneType
    <3>2. DOMAIN stream' = 1 .. Len(stream) + 1 /\ DOMAIN stream = 1 .. Len(stream) /\ Len(stream) \in Nat
          /\ \A i \in 1 .. Len(stream) + 1 : stream'[i] = IF i <= Len(stream) THEN stream[i] ELSE a
      BY <1>1, <2>3 DEF LaneType
    <3>3. ~Closed(a)
      BY <1>2 DEF Lease
    <3>4. \A b \in Assignment : Waits(b, stream') => Waits(b, stream) \/ ~Closed(b)
      BY <3>2, <3>3 DEF Waits
    <3> QED BY <1>1, <1>2, <2>1, <3>1, <3>4 DEF Lease, LaneType, ledgers, budgets, history
  <2> QED BY <1>2, <2>2, <2>3 DEF Lease
<1>3. ASSUME NEW a \in Assignment, ExpireLease(a)
      PROVE  LaneType' /\ stream' = stream
  <2>1. leased' \subseteq Assignment /\ IsFiniteSet(leased')
    BY <1>1, <1>3, FS_Subset DEF ExpireLease, LaneType
  <2>2. Fault \/ NoFault
    BY <1>3 DEF ExpireLease
  <2> QED BY <1>1, <1>3, <2>1, <2>2, FaultType DEF ExpireLease, LaneType, intake, ledgers, history
<1>4. CASE DropStream \/ RestartOperator
  <2>1. stream' \in Seq(Assignment) /\ \A a \in Assignment : Waits(a, stream') => ~Closed(a)
    BY <1>1, <1>4, RedeliveredType DEF DropStream, RestartOperator
  <2>2. CASE DropStream
    BY <1>1, <2>1, <2>2, FaultType DEF DropStream, LaneType, castleVars, ledgers, history
  <2>3. CASE RestartOperator
    <3>1. faults' \in 0 .. MaxFaults /\ restarts' \in 0 .. MaxRestarts
      BY <1>1, <2>3, LaneAssumption DEF RestartOperator, LaneType, LaneAssumption
    <3>2. IdleProc \in ProcRecord /\ <<>> \in Seq(Assignment) /\ Len(<<>>) <= 1
      BY <1>1 DEF IdleProc, ProcRecord, Step
    <3> QED BY <1>1, <2>1, <2>3, <3>1, <3>2 DEF RestartOperator, LaneType, castleVars, history
  <2> QED BY <1>4, <2>1, <2>2, <2>3
<1> QED BY <1>2, <1>3, <1>4

LEMMA RunMovesTypes ==
  ASSUME LInv, RunProgress \/ LandVerdict \/ DeleteRun
  PROVE  LaneType' /\ RunsMove /\ UNCHANGED <<castleVars, intake, proc, ledgers, budgets, history>>
<1>1. LaneType
  BY DEF LInv
<1>2. ASSUME NEW a \in Assignment, NEW i \in DOMAIN crs[a], NEW run \in RunRecord, Becomes(a, i, run),
             Deleted(crs[a][i]) => Deleted(run),
             \A kind : Tells(crs[a][i], kind) => Tells(run, kind)
      PROVE  LaneType' /\ RunsMove /\ UNCHANGED <<castleVars, intake, proc, ledgers, budgets, history>>
  BY <1>1, <1>2, OneRunMoves DEF Becomes, LaneType, castleVars, intake, ledgers, budgets, history
<1>3. ASSUME NEW a \in Assignment, NEW i \in DOMAIN crs[a], NEW phase \in {"Running", "Failed", "Succeeded"},
             NEW v \in Verdict, Becomes(a, i, [crs[a][i] EXCEPT !.phase = phase, !.verdict = v]),
             ~Deleted(crs[a][i]), Settled(crs[a][i]) => phase # "Running" /\ ~Complete(crs[a][i])
      PROVE  LaneType' /\ RunsMove /\ UNCHANGED <<castleVars, intake, proc, ledgers, budgets, history>>
  <2> DEFINE run == [crs[a][i] EXCEPT !.phase = phase, !.verdict = v]
  <2>1. crs[a][i] \in RunRecord
    BY <1>1, <1>3 DEF LaneType
  <2>2. run \in RunRecord /\ run.phase = phase
    BY <2>1 DEF RunRecord, Phase
  <2>3. \A kind : Tells(crs[a][i], kind) => Tells(run, kind)
    BY <1>3, <2>2 DEF Tells, Settled, Complete
  <2> HIDE DEF run
  <2> QED BY <1>2, <1>3, <2>2, <2>3 DEF run
<1>4. CASE RunProgress
  <2>0. PICK a \in Assignment : \E i \in DOMAIN crs[a] :
          LET run == crs[a][i]
          IN \/ run.phase = "" /\ Becomes(a, i, [run EXCEPT !.phase = "Running"])
             \/ run.phase \in {"", "Running"} /\ Becomes(a, i, [run EXCEPT !.phase = "Failed"])
             \/ /\ run.phase = "Running"
                /\ \E v \in {"", "handler_complete"} :
                     Becomes(a, i, [run EXCEPT !.phase = "Succeeded", !.verdict = v])
    BY <1>4 DEF RunProgress
  <2>1. PICK i \in DOMAIN crs[a] :
             \/ crs[a][i].phase = "" /\ Becomes(a, i, [crs[a][i] EXCEPT !.phase = "Running"])
             \/ crs[a][i].phase \in {"", "Running"} /\ Becomes(a, i, [crs[a][i] EXCEPT !.phase = "Failed"])
             \/ /\ crs[a][i].phase = "Running"
                /\ \E v \in {"", "handler_complete"} :
                     Becomes(a, i, [crs[a][i] EXCEPT !.phase = "Succeeded", !.verdict = v])
    BY <2>0
  <2>2. crs[a][i] \in RunRecord
    BY <1>1 DEF LaneType
  <2>3. \A phase : [crs[a][i] EXCEPT !.phase = phase] = [crs[a][i] EXCEPT !.phase = phase, !.verdict = crs[a][i].verdict]
    BY <2>2 DEF RunRecord
  <2>4. ~Deleted(crs[a][i]) /\ ~Settled(crs[a][i])
    BY <2>1 DEF Deleted, Settled
  <2>5. crs[a][i].verdict \in Verdict
    BY <2>2 DEF RunRecord
  <2> QED BY <1>3, <2>1, <2>3, <2>4, <2>5 DEF Verdict
<1>5. CASE LandVerdict
  <2>0. PICK a \in Assignment : \E i \in DOMAIN crs[a] :
          /\ Settled(crs[a][i]) /\ crs[a][i].verdict = ""
          /\ \E outcome \in {<<"Succeeded", "handler_complete">>, <<"Failed", "failed">>} :
               Becomes(a, i, [crs[a][i] EXCEPT !.phase = outcome[1], !.verdict = outcome[2]])
    BY <1>5 DEF LandVerdict
  <2>1. PICK i \in DOMAIN crs[a] :
          /\ Settled(crs[a][i]) /\ crs[a][i].verdict = ""
          /\ \E outcome \in {<<"Succeeded", "handler_complete">>, <<"Failed", "failed">>} :
               Becomes(a, i, [crs[a][i] EXCEPT !.phase = outcome[1], !.verdict = outcome[2]])
    BY <2>0
  <2>2. ~Deleted(crs[a][i]) /\ ~Complete(crs[a][i])
    BY <2>1 DEF Deleted, Settled, Complete
  <2>3. PICK outcome \in {<<"Succeeded", "handler_complete">>, <<"Failed", "failed">>} :
               Becomes(a, i, [crs[a][i] EXCEPT !.phase = outcome[1], !.verdict = outcome[2]])
    BY <2>1
  <2>4. outcome[1] \in {"Failed", "Succeeded"} /\ outcome[2] \in Verdict
    <3>1. CASE outcome = <<"Succeeded", "handler_complete">>
      BY <3>1 DEF Verdict
    <3>2. CASE outcome = <<"Failed", "failed">>
      BY <3>2 DEF Verdict
    <3> QED BY <3>1, <3>2
  <2> QED BY <1>3, <2>2, <2>3, <2>4
<1>6. CASE DeleteRun
  <2>0. PICK a \in Assignment : \E i \in Existing(a) : Becomes(a, i, Gone)
    BY <1>6 DEF DeleteRun
  <2>1. PICK i \in Existing(a) : Becomes(a, i, Gone)
    BY <2>0
  <2>2. i \in DOMAIN crs[a] /\ Gone \in RunRecord /\ Deleted(Gone)
    BY DEF Existing, Gone, RunRecord, Phase, Verdict, Deleted
  <2>3. \A kind : Tells(Gone, kind)
    BY <2>2 DEF Tells
  <2> QED BY <1>2, <2>1, <2>2, <2>3
<1> QED BY <1>4, <1>5, <1>6

LEMMA TypesStep ==
  ASSUME LInv, [Next]_vars
  PROVE  LaneType'
<1>1. CASE Process
  BY <1>1, IntakeTypes, DecideTypes, SubmitTypes, WorkTypes DEF Process
<1>2. CASE UNCHANGED vars
  BY <1>2 DEF LInv, LaneType, vars, castleVars, intake, ledgers, budgets, history
<1> QED BY <1>1, <1>2, IntakeTypes, WorldTypes, RunMovesTypes DEF Next

-----------------------------------------------------------------------------
(* The rows: what a step does to the three invariants of runs and events.   *)
LEMMA RowsStep ==
  ASSUME LInv, LaneType', [Next]_vars
  PROVE  Answered' /\ OneRun' /\ RowAnswersRun'
<1>1. LaneType /\ Answered /\ OneRun /\ RowAnswersRun
  BY DEF LInv
<1>2. CASE \/ Receive \/ Enqueue \/ Take \/ OwnedByUs \/ FindRecordedRun \/ Deliver \/ BridgeStep
           \/ DropStream \/ RestartOperator \/ UNCHANGED vars
           \/ \E a \in Assignment : Lease(a) \/ ExpireLease(a)
  <2>1. UNCHANGED <<recorded, outcomes, crs>> /\ blind \subseteq blind'
    BY <1>2 DEF Receive, Enqueue, Take, OwnedByUs, FindRecordedRun, Deliver, BridgeStep, DropStream,
                RestartOperator, Lease, ExpireLease, castleVars, history, vars
  <2> QED BY <1>1, <2>1, RowsStill
<1>3. CASE MarkAttempts \/ RunProgress \/ LandVerdict \/ DeleteRun
  <2>1. RunsMove
    BY <1>3, WorkTypes, RunMovesTypes
  <2>2. UNCHANGED <<recorded, outcomes, blind>>
    BY <1>3, RunMovesTypes DEF MarkAttempts, castleVars, history
  <2> QED BY <1>1, <2>1, <2>2, RowsUnderMoves
<1>4. CASE CreateRun
  <2>1. UNCHANGED <<recorded, outcomes, blind>> /\ proc.step = "create"
    BY <1>4 DEF CreateRun, castleVars, history
  <2>2. proc.asg \in Assignment /\ (UNCHANGED crs \/ RunAdded(proc.asg))
    BY <1>4, WorkTypes
  <2>3. CASE UNCHANGED crs
    BY <1>1, <2>1, <2>3, RowsStill
  <2>4. CASE RunAdded(proc.asg)
    BY <2>1, <2>2, <2>4, RowsUnderCreate
  <2> QED BY <2>2, <2>3, <2>4
<1>5. CASE FailAssignmentClosed \/ EnsureStarted \/ BridgeTerminal \/ BridgeRecordLost
  <2>1. proc.asg \in Assignment /\ blind' = blind
    BY <1>5, SubmitTypes
  <2>2. UNCHANGED crs
    BY <1>5 DEF FailAssignmentClosed, EnsureStarted, BridgeTerminal, BridgeRecordLost
  <2>3. \A a, corr, kind : Acked(a, corr, kind) \/ Failed(a, corr, kind) => Submitted(a, corr, kind)
    BY DEF Acked, Failed, Submitted, Record, castleVars
  <2>4. CASE FailAssignmentClosed
    <3>1. Submitted(proc.asg, <<"failclosed", 0>>, "failed") /\ proc.step = "failclosed"
      BY <2>3, <2>4 DEF FailAssignmentClosed
    <3> QED BY <2>1, <2>2, <3>1, RowsUnderSubmit
  <2>5. CASE EnsureStarted
    <3>1. Submitted(proc.asg, <<"started", proc.attempts>>, "started") /\ proc.step = "submitStarted"
      BY <2>3, <2>5 DEF EnsureStarted
    <3> QED BY <2>1, <2>2, <3>1, RowsUnderSubmit
  <2>6. CASE BridgeTerminal
    <3>1. Submitted(proc.asg, <<"terminal", proc.attempts>>, proc.payload) /\ proc.step = "submitTerminal"
      BY <2>3, <2>6 DEF BridgeTerminal
    <3> QED BY <2>1, <2>2, <3>1, RowsUnderSubmit
  <2>7. CASE BridgeRecordLost
    <3>1. Submitted(proc.asg, <<"terminal", proc.attempts>>, "failed") /\ proc.step = "submitLost"
      BY <2>3, <2>7 DEF BridgeRecordLost
    <3> QED BY <2>1, <2>2, <3>1, RowsUnderSubmit
  <2> QED BY <1>5, <2>4, <2>5, <2>6, <2>7
<1> QED BY <1>2, <1>3, <1>4, <1>5 DEF Next, Process

-----------------------------------------------------------------------------
(* The processor. *)
LEMMA OrderUnderMoves ==
  ASSUME LaneType, ProcOrder, RunsMove, UNCHANGED <<proc, terminal, blind>>, LaneType'
  PROVE  ProcOrder'
<1>1. proc.step # "idle" => proc.asg \in Assignment
  BY DEF ProcOrder, LaneType, ProcRecord
<1>2. proc.step \in Attending =>
        /\ proc.run \in DOMAIN crs'[proc.asg]
        /\ Deleted(TheRun) => Deleted(TheRun)'
        /\ \A kind : Tells(TheRun, kind) => Tells(TheRun', kind)
  BY <1>1 DEF ProcOrder, RunsMove, TheRun, Deleted, Attending, Bridging
<1>3. proc.step = "create" => Existing(proc.asg)' = {} \/ proc.asg \in blind
  <2>1. proc.step = "create" => Existing(proc.asg)' \subseteq Existing(proc.asg)
    BY <1>1, RunsStay
  <2> QED BY <2>1 DEF ProcOrder
<1>4. {"submitLost", "submitTerminal"} \subseteq Attending
  BY DEF Attending, Bridging
<1>5. proc.step = "submitTerminal" => Tells(TheRun, proc.payload)'
  BY <1>2, <1>4 DEF ProcOrder, Tells, Deleted, Settled, Complete
<1> QED BY <1>2, <1>3, <1>4, <1>5 DEF ProcOrder

LEMMA OrderStep ==
  ASSUME LInv, LaneType', [Next]_vars
  PROVE  ProcOrder'
<1>1. LaneType /\ ProcOrder
  BY DEF LInv
<1>2. CASE \/ Receive \/ Enqueue \/ DropStream \/ UNCHANGED vars
           \/ \E a \in Assignment : Lease(a) \/ ExpireLease(a)
  <2>1. UNCHANGED <<proc, crs, terminal, blind>>
    BY <1>2 DEF Receive, Enqueue, DropStream, Lease, ExpireLease, vars, ledgers, history
  <2> QED BY <1>1, <2>1 DEF ProcOrder, Existing, TheRun
<1>3. CASE RunProgress \/ LandVerdict \/ DeleteRun
  <2>1. RunsMove /\ UNCHANGED <<proc, terminal, blind>>
    BY <1>3, RunMovesTypes DEF ledgers, history
  <2> QED BY <1>1, <2>1, OrderUnderMoves
<1>4. ASSUME proc' = IdleProc
      PROVE  ProcOrder'
  BY <1>4, LaneAssumption DEF ProcOrder, IdleProc, Attending, Bridging, LaneAssumption
<1>5. CASE Take
  <2>1. Head(queue) \in Assignment
    BY <1>1, <1>5 DEF Take, LaneType
  <2>2. /\ proc'.asg = Head(queue) /\ proc'.asg # NoAsg
        /\ proc'.step \in {"failclosed", "gate"} /\ (Head(queue) \in Bad => proc'.step = "failclosed")
    BY <1>5, <2>1, LaneAssumption DEF Take, Stampable, IdleProc, LaneAssumption
  <2> QED BY <2>2 DEF ProcOrder, Attending, Bridging
<1>6. CASE OwnedByUs
  <2>1. proc' = IdleProc \/ proc' = At("find")
    BY <1>6 DEF OwnedByUs
  <2>2. CASE proc' = At("find")
    <3>1. proc'.step = "find" /\ proc'.asg = proc.asg /\ proc.step = "gate"
      BY <1>1, <1>6, <2>2 DEF OwnedByUs, At, LaneType, ProcRecord
    <3> QED BY <1>1, <3>1 DEF ProcOrder, Attending, Bridging
  <2> QED BY <1>4, <2>1, <2>2
<1>7. CASE FindRecordedRun
  <2>1. proc.asg \in Assignment \ Bad /\ proc.step = "find" /\ UNCHANGED <<crs, terminal>>
    BY <1>1, <1>7, DecideTypes DEF FindRecordedRun, ProcOrder, ledgers
  <2>2. CASE proc' = At("create") /\ (Existing(proc.asg) = {} \/ proc.asg \in blind')
    <3>1. proc'.step = "create" /\ proc'.asg = proc.asg
      BY <1>1, <2>2 DEF At, LaneType, ProcRecord
    <3> QED BY <1>1, <2>1, <2>2, <3>1 DEF ProcOrder, Attending, Bridging, Existing
  <2>3. CASE Existing(proc.asg) # {} /\ proc' = Attached(proc.asg)
    <3>1. proc'.step = "mark" /\ proc'.asg = proc.asg /\ proc'.run \in Existing(proc.asg)
      BY <1>1, <2>1, <2>3, FirstRun DEF Attached, At, LaneType, ProcRecord
    <3>2. proc'.run \in DOMAIN crs[proc.asg]
      BY <3>1 DEF Existing
    <3> QED BY <1>1, <2>1, <3>1, <3>2 DEF ProcOrder, Attending, Bridging
  <2> QED BY <1>7, <2>2, <2>3 DEF FindRecordedRun
<1>8. CASE MarkAttempts
  <2>1. RunsMove /\ proc.asg \in Assignment
    BY <1>8, WorkTypes
  <2>2. proc'.step = "deliver" /\ proc'.asg = proc.asg /\ proc'.run = proc.run /\ proc.step = "mark"
    BY <1>1, <1>8 DEF MarkAttempts, At, LaneType, ProcRecord
  <2>3. proc.run \in DOMAIN crs'[proc.asg]
    BY <1>1, <2>1, <2>2 DEF RunsMove, ProcOrder, Attending
  <2> QED BY <1>1, <2>2, <2>3 DEF ProcOrder, Attending, Bridging
<1>9. CASE CreateRun
  <2>1. proc.asg \in Assignment \ Bad /\ proc.step = "create"
    BY <1>1, <1>9, WorkTypes DEF CreateRun, ProcOrder
  <2>2. CASE /\ crs' = [crs EXCEPT ![proc.asg] = Append(@, Fresh)]
             /\ proc' = [At("deliver") EXCEPT !.run = Len(Append(crs[proc.asg], Fresh)), !.attempts = 1]
    <3>1. /\ proc'.step = "deliver" /\ proc'.asg = proc.asg
          /\ proc'.run = Len(Append(crs[proc.asg], Fresh))
      BY <1>1, <2>2 DEF At, LaneType, ProcRecord
    <3>2. Fresh \in RunRecord /\ ~Deleted(Fresh)
      BY DEF Fresh, RunRecord, Phase, Verdict, Deleted
    <3>3. Len(crs[proc.asg]) + 1 \in DOMAIN crs'[proc.asg] /\ Len(Append(crs[proc.asg], Fresh)) = Len(crs[proc.asg]) + 1
      BY <1>1, <2>1, <2>2, <3>2, AddedRun DEF RunAdded, LaneType
    <3> QED BY <1>1, <2>1, <3>1, <3>3 DEF ProcOrder, Attending, Bridging
  <2>3. CASE Existing(proc.asg) # {} /\ proc' = Attached(proc.asg) /\ UNCHANGED crs
    <3>1. proc'.step = "mark" /\ proc'.asg = proc.asg /\ proc'.run \in Existing(proc.asg)
      BY <1>1, <2>1, <2>3, FirstRun DEF Attached, At, LaneType, ProcRecord
    <3>2. proc'.run \in DOMAIN crs[proc.asg]
      BY <3>1 DEF Existing
    <3> QED BY <1>1, <2>1, <2>3, <3>1, <3>2 DEF ProcOrder, Attending, Bridging
  <2>4. [crs EXCEPT ![proc.asg] = Append(@, Fresh)][proc.asg] = Append(crs[proc.asg], Fresh)
    BY <1>1, <2>1 DEF LaneType
  <2> QED BY <1>4, <1>9, <2>2, <2>3, <2>4 DEF CreateRun
<1>10. CASE Deliver
  <2>1. proc' = IdleProc \/ (proc' = At("bridge") /\ proc.asg \notin terminal)
    BY <1>10 DEF Deliver
  <2>2. CASE proc' = At("bridge") /\ proc.asg \notin terminal
    <3>1. /\ proc'.step = "bridge" /\ proc'.asg = proc.asg /\ proc'.run = proc.run /\ proc.step = "deliver"
          /\ UNCHANGED <<crs, terminal>>
      BY <1>1, <1>10, <2>2 DEF Deliver, At, LaneType, ProcRecord, ledgers
    <3> QED BY <1>1, <2>2, <3>1 DEF ProcOrder, Attending, Bridging
  <2> QED BY <1>4, <2>1, <2>2
<1>11. CASE BridgeStep
  <2>1. /\ proc.step = "bridge" /\ UNCHANGED <<crs, terminal, blind>> /\ proc.asg \notin terminal
        /\ proc.run \in DOMAIN crs[proc.asg] /\ proc.asg \in Assignment \ Bad
    BY <1>1, <1>11, DecideTypes DEF BridgeStep, ProcOrder, Attending, Bridging, ledgers, history
  <2>2. CASE Deleted(TheRun) /\ proc' = At("submitLost")
    <3>1. proc'.step = "submitLost" /\ proc'.asg = proc.asg /\ proc'.run = proc.run
      BY <1>1, <2>2 DEF At, LaneType, ProcRecord
    <3> QED BY <1>1, <2>1, <2>2, <3>1 DEF ProcOrder, Attending, Bridging, TheRun
  <2>3. CASE Settled(TheRun) /\ proc' = [At("submitTerminal") EXCEPT !.payload = TerminalPayload(TheRun)]
    <3>1. /\ proc'.step = "submitTerminal" /\ proc'.asg = proc.asg /\ proc'.run = proc.run
          /\ proc'.payload = TerminalPayload(TheRun)
      BY <1>1, <2>3 DEF At, LaneType, ProcRecord
    <3>2. TerminalPayload(TheRun) \in Kind /\ Tells(TheRun, TerminalPayload(TheRun)) /\ TheRun' = TheRun
      BY <2>1, <2>3, <3>1 DEF TerminalPayload, Kind, Tells, Complete, TheRun
    <3>3. Tells(TheRun, proc.payload)'
      BY <3>1, <3>2 DEF Tells, Deleted, Settled, Complete
    <3> QED BY <1>1, <2>1, <3>1, <3>2, <3>3 DEF ProcOrder, Attending, Bridging
  <2>4. CASE proc' = At("submitStarted")
    <3>1. proc'.step = "submitStarted" /\ proc'.asg = proc.asg /\ proc'.run = proc.run
      BY <1>1, <2>4 DEF At, LaneType, ProcRecord
    <3> QED BY <1>1, <2>1, <3>1 DEF ProcOrder, Attending, Bridging
  <2> QED BY <1>11, <2>1, <2>2, <2>3, <2>4 DEF BridgeStep, TheRun, Deleted
<1>12. CASE EnsureStarted \/ BridgeTerminal
  <2>1. /\ proc.step \in {"submitStarted", "submitTerminal"} /\ UNCHANGED <<crs, blind>>
        /\ \/ proc' = IdleProc
           \/ proc' = At("bridge") /\ terminal' = terminal
    BY <1>12 DEF EnsureStarted, BridgeTerminal, history
  <2>2. CASE proc' = At("bridge") /\ terminal' = terminal
    <3>1. proc'.step = "bridge" /\ proc'.asg = proc.asg /\ proc'.run = proc.run
      BY <1>1, <2>2 DEF At, LaneType, ProcRecord
    <3> QED BY <1>1, <2>1, <2>2, <3>1 DEF ProcOrder, Attending, Bridging
  <2> QED BY <1>4, <2>1, <2>2
<1>13. CASE FailAssignmentClosed \/ BridgeRecordLost \/ RestartOperator
  BY <1>4, <1>13 DEF FailAssignmentClosed, BridgeRecordLost, RestartOperator
<1> QED BY <1>2, <1>3, <1>5, <1>6, <1>7, <1>8, <1>9, <1>10, <1>11, <1>12, <1>13 DEF Next, Process

-----------------------------------------------------------------------------
(* One terminal event of the bridge: a row that has it is safe from a second. *)
Safe(a) == a \in terminal \/ ~AtHand(a) \/ Repeats(a)
Watched(a) == Existing(a) = DOMAIN crs[a] /\ Bridged(a)

LEMMA TerminalStill ==
  ASSUME LInv, LaneType', RunsMove, UNCHANGED <<recorded, outcomes>>,
         \A a \in Assignment : Watched(a) /\ Safe(a) => Safe(a)'
  PROVE  OneTerminal'
<1>1. ASSUME NEW a \in Assignment, Existing(a)' = DOMAIN crs'[a]
      PROVE  /\ Len(outcomes'[a]) <= Answers(a)'
             /\ Bridged(a)' => crs'[a] # <<>> /\ Safe(a)'
  <2>1. /\ Existing(a) = DOMAIN crs[a] /\ (crs[a] = <<>> <=> crs'[a] = <<>>)
        /\ (Bridged(a)' <=> Bridged(a)) /\ Answers(a)' = Answers(a)
    BY <1>1, RunsStay DEF LInv, Bridged, Answers, FailedClosed
  <2>2. Len(outcomes[a]) <= Answers(a) /\ (Bridged(a) => crs[a] # <<>> /\ Safe(a))
    BY <1>1, <2>1 DEF LInv, OneTerminal, Safe
  <2> QED BY <1>1, <2>1, <2>2 DEF Watched
<1> QED BY <1>1 DEF OneTerminal, Safe

LEMMA NothingMoves == LaneType /\ UNCHANGED crs => RunsMove
BY DEF RunsMove

\* A step of the processor with the row it has: nothing new is at hand.
LEMMA ProcStays ==
  ASSUME LInv, NEW a \in Assignment, UNCHANGED intake, proc'.asg \in {proc.asg, NoAsg}
  PROVE  AtHand(a)' => AtHand(a)
BY LaneAssumption DEF AtHand, Waits, intake, LaneAssumption

LEMMA KeepsRow ==
  ASSUME LInv, \/ FailAssignmentClosed \/ OwnedByUs \/ FindRecordedRun \/ MarkAttempts \/ CreateRun
               \/ Deliver \/ EnsureStarted \/ BridgeTerminal \/ BridgeRecordLost
  PROVE  proc'.asg \in {proc.asg, NoAsg}
<1>1. proc \in ProcRecord
  BY DEF LInv, LaneType
<1>2. /\ IdleProc.asg = NoAsg
      /\ \A step : At(step).asg = proc.asg
      /\ \A step, n : [At(step) EXCEPT !.attempts = n].asg = proc.asg
      /\ \A step, r, n : [At(step) EXCEPT !.run = r, !.attempts = n].asg = proc.asg
      /\ \A a : Attached(a).asg = proc.asg
  BY <1>1 DEF At, IdleProc, ProcRecord, Attached
<1>3. CASE FailAssignmentClosed \/ OwnedByUs \/ Deliver \/ EnsureStarted \/ BridgeTerminal \/ BridgeRecordLost
  BY <1>2, <1>3 DEF FailAssignmentClosed, OwnedByUs, Deliver, EnsureStarted, BridgeTerminal, BridgeRecordLost
<1>4. CASE FindRecordedRun
  <2>1. proc' = At("create") \/ proc' = Attached(proc.asg)
    BY <1>4 DEF FindRecordedRun
  <2> QED BY <1>2, <2>1
<1>5. CASE MarkAttempts
  <2>1. \E n : proc' = [At("deliver") EXCEPT !.attempts = n]
    BY <1>5 DEF MarkAttempts
  <2> QED BY <1>2, <2>1
<1>6. CASE CreateRun
  <2>1. \/ \E r : proc' = [At("deliver") EXCEPT !.run = r, !.attempts = 1]
        \/ proc' = Attached(proc.asg) \/ proc' = IdleProc
    BY <1>6 DEF CreateRun
  <2>2. \A r : proc' = [At("deliver") EXCEPT !.run = r, !.attempts = 1] => proc'.asg = proc.asg
    BY <1>2
  <2>3. proc' = Attached(proc.asg) \/ proc' = IdleProc => proc'.asg \in {proc.asg, NoAsg}
    BY <1>2
  <2> QED BY <2>1, <2>2, <2>3
<1> QED BY <1>3, <1>4, <1>5, <1>6

LEMMA TerminalSubmit ==
  ASSUME LInv, LaneType', NEW a \in Assignment, a = proc.asg, NEW corr, NEW kind,
         Submitted(a, corr, kind), UNCHANGED <<crs, intake>>, terminal \subseteq terminal',
         proc'.asg \in {proc.asg, NoAsg},
         \/ proc.step = "failclosed" /\ corr = <<"failclosed", 0>> /\ kind = "failed"
         \/ /\ proc.step = "submitStarted" /\ corr = <<"started", proc.attempts>> /\ kind = "started"
            /\ proc' = At("bridge")
         \/ /\ proc.step = "submitTerminal" /\ corr = <<"terminal", proc.attempts>> /\ kind \in Kind
            /\ \/ Record(a, corr, kind) /\ (a \in terminal' \/ proc' = At("bridge"))
               \/ UNCHANGED castleVars /\ proc' = At("bridge")
         \/ proc.step = "submitLost"
  PROVE  OneTerminal'
<1>1. LaneType /\ ProcOrder /\ OneTerminal
  BY DEF LInv
<1>2. \A b \in Assignment : Existing(b)' = Existing(b)
  BY DEF Existing
<1>3. \A b \in Assignment \ {a} : outcomes'[b] = outcomes[b] /\ recorded'[b] = recorded[b]
  BY <1>1, SMTT(30) DEF Submitted, Record, castleVars, LaneType
<1>4. ASSUME NEW b \in Assignment, b # a, Existing(b) = DOMAIN crs[b]
      PROVE  Len(outcomes'[b]) <= Answers(b)' /\ (Bridged(b)' => crs[b] # <<>> /\ Safe(b)')
  <2>1. Safe(b) => Safe(b)'
    <3>1. ~Repeats(b)
      BY <1>4 DEF Repeats
    <3>2. AtHand(b)' => AtHand(b)
      BY ProcStays
    <3> QED BY <3>1, <3>2 DEF Safe
  <2>2. Answers(b)' = Answers(b) /\ (Bridged(b)' <=> Bridged(b))
    BY <1>3, <1>4 DEF Answers, FailedClosed, Bridged
  <2> QED BY <1>1, <1>3, <1>4, <2>1, <2>2 DEF OneTerminal, Safe
<1>5. ASSUME Existing(a) = DOMAIN crs[a]
      PROVE  Len(outcomes'[a]) <= Answers(a)' /\ (Bridged(a)' => crs[a] # <<>> /\ Safe(a)')
  <2>1. proc.step # "submitLost"
    BY <1>1, <1>5 DEF ProcOrder, Deleted, TheRun, Existing, Attending, Bridging
  <2>2. /\ outcomes[a] \in Seq(Kind) /\ Len(outcomes[a]) \in Nat /\ Len(outcomes[a]) <= Answers(a)
        /\ Bridged(a) => crs[a] # <<>> /\ Safe(a)
    <3>1. outcomes[a] \in Seq(Kind)
      BY <1>1 DEF LaneType
    <3>2. Len(outcomes[a]) \in Nat
      BY <3>1
    <3>3. Len(outcomes[a]) <= Answers(a) /\ (Bridged(a) => crs[a] # <<>> /\ Safe(a))
      BY <1>1, <1>5 DEF OneTerminal, Safe
    <3> QED BY <3>1, <3>2, <3>3
  <2>3. /\ recorded[a] \subseteq recorded'[a] /\ recorded'[a] \subseteq recorded[a] \cup {corr}
        /\ Record(a, corr, kind) => corr \in recorded'[a]
        /\ \/ outcomes'[a] = outcomes[a]
           \/ /\ kind # "started" /\ corr \notin recorded[a] /\ corr \in recorded'[a]
              /\ outcomes'[a] = Append(outcomes[a], kind)
    <3>1. CASE Record(a, corr, kind)
      <4>1. recorded'[a] = recorded[a] \cup {corr}
        BY <1>1, <3>1 DEF Record, LaneType
      <4> QED BY <1>1, <3>1, <4>1 DEF Record, LaneType
    <3>2. CASE UNCHANGED castleVars /\ ~Record(a, corr, kind)
      BY <3>2 DEF castleVars
    <3> QED BY <3>1, <3>2 DEF Submitted
  <2>4. <<"failclosed", 0>>[1] = "failclosed" /\ <<"started", proc.attempts>>[1] = "started"
        /\ <<"terminal", proc.attempts>>[1] = "terminal"
    OBVIOUS
  <2>5. proc' = At("bridge") => proc'.asg = a /\ proc'.step = "bridge" /\ proc'.attempts = proc.attempts
    BY <1>1 DEF At, LaneType, ProcRecord
  <2>6. proc' = At("bridge") /\ <<"terminal", proc.attempts>> \in recorded'[a] => Repeats(a)'
    BY <2>5 DEF Repeats, Bridging
  <2>7. CASE proc.step = "failclosed"
    <3>1. Bridged(a)' <=> Bridged(a)
      BY <2>3, <2>4, <2>7 DEF Bridged
    <3>2. Safe(a) => Safe(a)'
      <4>1. ~Repeats(a) /\ (AtHand(a)' => AtHand(a))
        BY <2>7, ProcStays DEF Repeats, Bridging
      <4> QED BY <4>1 DEF Safe
    <3>3. CASE outcomes'[a] = outcomes[a]
      <4>1. Answers(a) <= Answers(a)' /\ Answers(a) \in Nat /\ Answers(a)' \in Nat
        BY <2>3, <3>1 DEF Answers, FailedClosed
      <4> QED BY <2>2, <3>1, <3>2, <3>3, <4>1
    <3>4. CASE corr \notin recorded[a] /\ corr \in recorded'[a] /\ outcomes'[a] = Append(outcomes[a], kind)
      <4>1. Answers(a)' = Answers(a) + 1 /\ Answers(a) \in Nat
        BY <2>7, <3>1, <3>4 DEF Answers, FailedClosed
      <4>2. Len(outcomes'[a]) = Len(outcomes[a]) + 1
        BY <2>2, <2>7, <3>4
      <4> QED BY <2>2, <3>1, <3>2, <4>1, <4>2
    <3> QED BY <2>3, <3>3, <3>4
  <2>8. CASE proc.step \in {"submitStarted", "submitTerminal"}
    <3>1. AtHand(a) /\ a \notin terminal /\ proc.run \in DOMAIN crs[a] /\ crs[a] # <<>>
      BY <1>1, <2>8 DEF AtHand, ProcOrder, Attending, Bridging
    <3>2. Bridged(a) => <<"terminal", proc.attempts>> \in recorded[a]
      BY <2>2, <3>1 DEF Safe, Repeats
    <3>3. FailedClosed(a)' <=> FailedClosed(a)
      BY <2>3, <2>4, <2>8 DEF FailedClosed
    <3>4. CASE proc.step = "submitStarted"
      <4>1. outcomes'[a] = outcomes[a] /\ proc' = At("bridge") /\ (Bridged(a)' <=> Bridged(a))
        BY <2>3, <2>4, <3>4 DEF Bridged
      <4>2. Answers(a)' = Answers(a)
        BY <3>3, <4>1 DEF Answers
      <4> QED BY <2>2, <2>3, <2>6, <3>1, <3>2, <4>1, <4>2 DEF Safe
    <3>5. CASE proc.step = "submitTerminal"
      <4>1. corr = <<"terminal", proc.attempts>> /\ kind \in Kind
        BY <3>5
      <4>2. CASE Record(a, corr, kind) /\ (a \in terminal' \/ proc' = At("bridge"))
        <5>1. Safe(a)' /\ Bridged(a)'
          BY <2>3, <2>4, <2>6, <4>1, <4>2 DEF Safe, Bridged
        <5>2. CASE outcomes'[a] = outcomes[a]
          <6>1. Answers(a) <= Answers(a)' /\ Answers(a) \in Nat /\ Answers(a)' \in Nat
            BY <3>3, <5>1 DEF Answers
          <6> QED BY <2>2, <3>1, <5>1, <5>2, <6>1
        <5>3. CASE corr \notin recorded[a] /\ outcomes'[a] = Append(outcomes[a], kind)
          <6>1. ~Bridged(a)
            BY <3>2, <4>1, <5>3
          <6>2. Answers(a)' = Answers(a) + 1 /\ Answers(a) \in Nat
            BY <3>3, <5>1, <6>1 DEF Answers
          <6>3. Len(outcomes'[a]) = Len(outcomes[a]) + 1
            BY <2>2, <4>1, <5>3, AppendKind
          <6> QED BY <2>2, <3>1, <5>1, <6>2, <6>3
        <5> QED BY <2>3, <5>2, <5>3
      <4>3. CASE UNCHANGED castleVars /\ proc' = At("bridge")
        <5>1. recorded' = recorded /\ outcomes' = outcomes
          BY <4>3 DEF castleVars
        <5>2. (Bridged(a)' <=> Bridged(a)) /\ Answers(a)' = Answers(a)
          BY <5>1 DEF Bridged, Answers, FailedClosed
        <5> QED BY <2>2, <2>6, <3>1, <3>2, <4>3, <5>1, <5>2 DEF Safe
      <4> QED BY <3>5, <4>2, <4>3
    <3> QED BY <2>8, <3>4, <3>5
  <2> QED BY <2>1, <2>7, <2>8
<1> QED BY <1>2, <1>4, <1>5 DEF OneTerminal, Safe

LEMMA TerminalCreate ==
  ASSUME LInv, LaneType', NEW a \in Assignment, a = proc.asg, proc.step = "create", RunAdded(a),
         UNCHANGED <<castleVars, intake, ledgers>>, proc'.asg \in {proc.asg, NoAsg}
  PROVE  OneTerminal'
<1>1. \A b \in Assignment \ {a} : crs'[b] = crs[b] /\ Existing(b)' = Existing(b)
  BY AddedRun DEF LInv, Existing
<1>2. Existing(a)' = DOMAIN crs'[a] => Existing(a) = DOMAIN crs[a]
  <2>1. /\ DOMAIN crs'[a] = 1 .. Len(crs[a]) + 1 /\ DOMAIN crs[a] = 1 .. Len(crs[a]) /\ Len(crs[a]) \in Nat
        /\ Existing(a)' = Existing(a) \cup {Len(crs[a]) + 1}
    BY AddedRun DEF LInv
  <2>2. Existing(a) \subseteq DOMAIN crs[a]
    BY DEF Existing
  <2>3. \A i \in 1 .. Len(crs[a]) : i \in 1 .. Len(crs[a]) + 1 /\ i # Len(crs[a]) + 1
    BY <2>1
  <2> QED BY <2>1, <2>2, <2>3
<1>3. crs'[a] # <<>>
  <2>1. Len(crs'[a]) = Len(crs[a]) + 1 /\ Len(crs[a]) \in Nat
    BY AddedRun DEF LInv
  <2> QED BY <2>1
<1>4. \A b \in Assignment : (AtHand(b)' => AtHand(b)) /\ ~Repeats(b)
  BY ProcStays DEF Repeats, Bridging
<1>5. terminal' = terminal /\ outcomes' = outcomes /\ recorded' = recorded
  BY DEF ledgers, castleVars
<1>6. \A b \in Assignment : (Bridged(b)' <=> Bridged(b)) /\ Answers(b)' = Answers(b)
  BY <1>5 DEF Bridged, Answers, FailedClosed
<1> QED BY <1>1, <1>2, <1>3, <1>4, <1>5, <1>6 DEF LInv, OneTerminal

LEMMA TerminalStep ==
  ASSUME LInv, LaneType', [Next]_vars
  PROVE  OneTerminal'
<1>1. LaneType /\ ProcOrder
  BY DEF LInv
<1>2. CASE Receive \/ Enqueue
  <2>1. \A a \in Assignment : AtHand(a)' => AtHand(a)
    <3>1. CASE Receive
      <4>1. stream \in Seq(Assignment) /\ stream # <<>> /\ held' = Head(stream) /\ stream' = Tail(stream)
            /\ UNCHANGED <<proc, queue>>
        BY <1>1, <3>1 DEF Receive, LaneType
      <4>2. /\ 1 \in DOMAIN stream /\ held' = stream[1]
            /\ \A i \in DOMAIN stream' : i + 1 \in DOMAIN stream /\ stream'[i] = stream[i + 1]
        BY <4>1
      <4> QED BY <4>1, <4>2 DEF AtHand, Waits
    <3>2. CASE Enqueue
      <4>1. queue' = <<held>> /\ held' = NoAsg /\ UNCHANGED <<proc, stream>>
        BY <3>2 DEF Enqueue
      <4>2. \A a : Waits(a, queue') => a = held
        BY <4>1 DEF Waits
      <4> QED BY <4>1, <4>2, LaneAssumption DEF AtHand, LaneAssumption
    <3> QED BY <1>2, <3>1, <3>2
  <2>2. UNCHANGED <<recorded, outcomes, crs, terminal, proc>>
    BY <1>2 DEF Receive, Enqueue, castleVars, ledgers
  <2> QED BY <1>1, <2>1, <2>2, NothingMoves, TerminalStill DEF Safe, Repeats
<1>3. CASE Take
  <2>1. queue \in Seq(Assignment) /\ queue # <<>> /\ queue' = Tail(queue) /\ proc.step = "idle"
        /\ UNCHANGED <<recorded, outcomes, crs, terminal, held, stream>>
    BY <1>1, <1>3 DEF Take, LaneType, castleVars, ledgers
  <2>2. proc'.asg = Head(queue)
    BY <1>3 DEF Take, IdleProc
  <2>3. /\ 1 \in DOMAIN queue /\ proc'.asg = queue[1]
        /\ \A i \in DOMAIN queue' : i + 1 \in DOMAIN queue /\ queue'[i] = queue[i + 1]
    BY <2>1, <2>2
  <2>4. \A a \in Assignment : (AtHand(a)' => AtHand(a)) /\ ~Repeats(a)
    BY <2>1, <2>3 DEF AtHand, Waits, Repeats, Bridging
  <2> QED BY <1>1, <2>1, <2>4, NothingMoves, TerminalStill DEF Safe
<1>4. CASE OwnedByUs \/ FindRecordedRun \/ MarkAttempts \/ Deliver \/ (CreateRun /\ UNCHANGED crs)
  <2>1. RunsMove /\ UNCHANGED <<recorded, outcomes, intake, terminal>> /\ proc.step \notin Bridging
    BY <1>1, <1>4, WorkTypes, NothingMoves DEF OwnedByUs, FindRecordedRun, MarkAttempts, Deliver, CreateRun,
       castleVars, ledgers, Bridging
  <2>2. proc'.asg \in {proc.asg, NoAsg}
    BY <1>4, KeepsRow
  <2>3. \A a \in Assignment : (AtHand(a)' => AtHand(a)) /\ ~Repeats(a)
    BY <2>1, <2>2, ProcStays DEF Repeats
  <2> QED BY <2>1, <2>3, TerminalStill DEF Safe
<1>5. CASE CreateRun /\ ~UNCHANGED crs
  <2>1. proc.asg \in Assignment /\ RunAdded(proc.asg)
    BY <1>5, WorkTypes
  <2>2. proc.step = "create" /\ UNCHANGED <<castleVars, intake, ledgers>>
    BY <1>5 DEF CreateRun
  <2>3. proc'.asg \in {proc.asg, NoAsg}
    BY <1>5, KeepsRow
  <2> QED BY <2>1, <2>2, <2>3, TerminalCreate
<1>6. CASE BridgeStep
  <2>1. UNCHANGED <<recorded, outcomes, crs, intake, terminal>> /\ proc.asg \notin terminal
    BY <1>1, <1>6 DEF BridgeStep, castleVars, ledgers, ProcOrder, Bridging
  <2>2. proc'.asg = proc.asg /\ proc'.step \in Bridging /\ proc'.attempts = proc.attempts
    BY <1>1, <1>6, <2>1 DEF BridgeStep, At, Bridging, LaneType, ProcRecord
  <2>3. \A a \in Assignment : (AtHand(a)' => AtHand(a)) /\ (Repeats(a) => Repeats(a)')
    BY <2>1, <2>2, ProcStays DEF Repeats
  <2> QED BY <1>1, <2>1, <2>3, NothingMoves, TerminalStill DEF Safe
<1>7. CASE FailAssignmentClosed \/ EnsureStarted \/ BridgeTerminal \/ BridgeRecordLost
  <2>1. proc.asg \in Assignment /\ UNCHANGED <<crs, intake>>
    BY <1>7, SubmitTypes DEF FailAssignmentClosed, EnsureStarted, BridgeTerminal, BridgeRecordLost
  <2>2. terminal \subseteq terminal'
    BY <1>7 DEF FailAssignmentClosed, EnsureStarted, BridgeTerminal, BridgeRecordLost, ledgers
  <2>3. proc'.asg \in {proc.asg, NoAsg}
    BY <1>7, KeepsRow
  <2>4. \A a, corr, kind : /\ Acked(a, corr, kind) => Record(a, corr, kind)
                           /\ Failed(a, corr, kind) => UNCHANGED castleVars \/ Record(a, corr, kind)
    BY DEF Acked, Failed
  <2>5. CASE FailAssignmentClosed
    <3>1. Submitted(proc.asg, <<"failclosed", 0>>, "failed") /\ proc.step = "failclosed"
      BY <2>4, <2>5 DEF FailAssignmentClosed, Submitted
    <3> QED BY <2>1, <2>2, <2>3, <3>1, TerminalSubmit
  <2>6. CASE EnsureStarted
    <3>1. /\ Submitted(proc.asg, <<"started", proc.attempts>>, "started") /\ proc.step = "submitStarted"
          /\ proc' = At("bridge")
      BY <2>4, <2>6 DEF EnsureStarted, Submitted
    <3> QED BY <2>1, <2>2, <2>3, <3>1, TerminalSubmit
  <2>7. CASE BridgeTerminal
    <3>1. /\ proc.step = "submitTerminal"
          /\ \/ /\ Record(proc.asg, <<"terminal", proc.attempts>>, proc.payload)
                /\ proc.asg \in terminal' \/ proc' = At("bridge")
             \/ UNCHANGED castleVars /\ proc' = At("bridge")
      BY <2>4, <2>7 DEF BridgeTerminal
    <3>2. Submitted(proc.asg, <<"terminal", proc.attempts>>, proc.payload)
      BY <3>1 DEF Submitted
    <3>3. proc.payload \in Kind
      BY <1>1, <3>1 DEF ProcOrder
    <3> QED BY <2>1, <2>2, <2>3, <3>1, <3>2, <3>3, TerminalSubmit
  <2>8. CASE BridgeRecordLost
    <3>1. Submitted(proc.asg, <<"terminal", proc.attempts>>, "failed") /\ proc.step = "submitLost"
      BY <2>4, <2>8 DEF BridgeRecordLost, Submitted
    <3> QED BY <2>1, <2>2, <2>3, <3>1, TerminalSubmit
  <2> QED BY <1>7, <2>5, <2>6, <2>7, <2>8
<1>8. CASE DropStream \/ \E a \in Assignment : Lease(a) \/ ExpireLease(a)
  <2>1. UNCHANGED <<recorded, outcomes, crs, terminal, proc, held, queue>>
    BY <1>8 DEF DropStream, Lease, ExpireLease, castleVars, ledgers, intake
  <2>2. \A a \in Assignment : Closed(a) /\ AtHand(a)' => AtHand(a)
    BY <1>8, <2>1, WorldTypes DEF AtHand
  <2>3. \A a \in Assignment : Watched(a) /\ Safe(a) => Safe(a)'
    BY <2>1, <2>2 DEF Safe, Repeats, Watched, LInv, Answered
  <2> QED BY <1>1, <2>1, <2>3, NothingMoves, TerminalStill
<1>9. CASE RestartOperator
  <2>1. /\ UNCHANGED <<recorded, outcomes, crs>> /\ held' = NoAsg /\ queue' = <<>> /\ proc'.asg = NoAsg
        /\ \A a \in Assignment : Waits(a, stream') => ~Closed(a)
    BY <1>1, <1>9, RedeliveredType DEF RestartOperator, castleVars, IdleProc
  <2>2. \A a \in Assignment : Closed(a) => ~AtHand(a)'
    BY <2>1, LaneAssumption DEF AtHand, Waits, LaneAssumption
  <2>3. \A a \in Assignment : Watched(a) => Safe(a)'
    BY <2>2 DEF Safe, Watched, LInv, Answered
  <2> QED BY <1>1, <2>1, <2>3, NothingMoves, TerminalStill
<1>10. CASE RunProgress \/ LandVerdict \/ DeleteRun \/ UNCHANGED vars
  <2>1. RunsMove /\ UNCHANGED <<recorded, outcomes, held, stream, queue, proc, terminal>>
    BY <1>1, <1>10, RunMovesTypes, NothingMoves DEF castleVars, intake, ledgers, vars
  <2> QED BY <2>1, TerminalStill DEF Safe, AtHand, Repeats
<1> QED BY <1>2, <1>3, <1>4, <1>5, <1>6, <1>7, <1>8, <1>9, <1>10 DEF Next, Process

-----------------------------------------------------------------------------
LEMMA LaneInit == Init => LInv
<1> SUFFICES ASSUME Init PROVE LInv
  OBVIOUS
<1>1. LaneType
  <2>1. IsFiniteSet({}) /\ <<>> \in Seq(Assignment) /\ Len(<<>>) <= 1
        /\ <<>> \in Seq(Kind) /\ <<>> \in Seq(RunRecord)
    BY FS_EmptySet
  <2>2. IdleProc \in ProcRecord
    BY DEF IdleProc, ProcRecord, Step
  <2> QED BY <2>1, <2>2, LaneAssumption DEF Init, LaneType, LaneAssumption
<1>2. \A a \in Assignment : /\ crs[a] = <<>> /\ outcomes[a] = <<>> /\ Len(outcomes[a]) = 0
                           /\ Existing(a) = {} /\ recorded[a] = {}
  BY DEF Init, Existing
<1>3. ProcOrder
  BY LaneAssumption DEF Init, ProcOrder, IdleProc, Attending, Bridging, LaneAssumption
<1>4. \A a \in Assignment : /\ ~Bridged(a) /\ ~FailedClosed(a) /\ ~Closed(a) /\ Answers(a) = 0
                           /\ ~Contains(outcomes[a], "completed")
  BY <1>2 DEF Bridged, FailedClosed, Closed, Answers, Contains
<1>5. Answered /\ OneRun /\ OneTerminal /\ RowAnswersRun
  BY <1>2, <1>4, LaneAssumption DEF Answered, OneRun, OneTerminal, RowAnswersRun, LaneAssumption
<1> QED BY <1>1, <1>3, <1>5 DEF LInv

LEMMA LaneNext == LInv /\ [Next]_vars => LInv'
BY TypesStep, RowsStep, OrderStep, TerminalStep DEF LInv

LEMMA LaneHolds == Spec => []LInv
BY LaneInit, LaneNext, PTL DEF Spec

(* agent.go's reattachment and CRI-142, for every number of failures: the   *)
(* types, one run per assignment unless a listing failed, and unless a run  *)
(* of the row was deleted one terminal event, or two when a delivery of it  *)
(* was refused although others were not.                                    *)
THEOREM OneRunOneEvent == Spec => []Inv
<1>1. LInv => TypeOK
  BY DEF LInv, LaneType, TypeOK, ProcRecord, RunRecord, Kind
<1>2. LInv => OneRunPerAssignment
  <2> SUFFICES ASSUME LInv, NEW a \in Assignment, a \notin blind
               PROVE  ~(Cardinality(Existing(a)) > 1)
    BY DEF OneRunPerAssignment
  <2>1. \A i, j \in Existing(a) : i = j
    BY DEF LInv, OneRun
  <2>2. CASE Existing(a) = {}
    BY <2>2, FS_EmptySet
  <2>3. CASE Existing(a) # {}
    <3>1. PICK i : Existing(a) = {i}
      BY <2>1, <2>3
    <3> QED BY <3>1, FS_Singleton
  <2> QED BY <2>2, <2>3
<1>3. LInv => OneTerminalPerRow
  <2> SUFFICES ASSUME LInv, NEW a \in Assignment, Existing(a) = DOMAIN crs[a]
               PROVE  Len(outcomes[a]) <= IF a \notin Bad /\ FailedClosed(a) THEN 2 ELSE 1
    BY DEF OneTerminalPerRow
  <2>1. Len(outcomes[a]) <= Answers(a) /\ (a \in Bad => ~Bridged(a)) /\ Len(outcomes[a]) \in Nat
    BY LaneAssumption DEF LInv, LaneType, OneTerminal, Answered, LaneAssumption
  <2> QED BY <2>1 DEF Answers
<1> QED BY <1>1, <1>2, <1>3, LaneHolds, PTL DEF Inv

(* agentbridge.go, the terminal payload: a row that the bridge closed tells *)
(* what its run did, and no row is completed but by a run that did its work,*)
(* whatever was repeated, misjudged or lost in between.                     *)
THEOREM ClosedRowTellsTheTruth == Spec => []RowAnswersRun
BY LaneHolds, PTL DEF LInv

=============================================================================
