------------------------ MODULE KanboardWatcherProofs ------------------------
(***************************************************************************)
(* Proofs about KanboardWatcher, for every combination of the features and *)
(* every bound on runs, moves, failed calls and restarts: what a poll has  *)
(* read is old when it acts, and yet one run of the ticket is in flight,   *)
(* a refire follows a move, and Done stands for a delivered verdict.       *)
(***************************************************************************)
EXTENDS KanboardWatcher, FiniteSetTheorems, SequenceTheorems, WellFoundedInduction, TLAPS

PollStep == {"idle", "list", "reconcile", "prune", "fire", "mirror"}
Summary == [anyRun : BOOLEAN, active : BOOLEAN, run : 0 .. MaxRuns,
            phase : RunPhase, verdict : Verdict, class : Class]
PollRecord == [step : PollStep, index : Summary, card : Column \cup {NoColumn}, tag : BOOLEAN]
AsgRecord == [state : {"queued", "bound", "over"}, class : Class]
\* The assignments that have, or have had, a run, or were abandoned.
Taken == {a \in DOMAIN assignments : assignments[a].state # "queued"}

WatcherType ==
  /\ lane \in Lanes /\ scene \in Scenes /\ column \in Column /\ tagged \in BOOLEAN
  /\ runs \in Seq(RunRecord) /\ assignments \in Seq(AsgRecord)
  /\ lastRuns \in Summary /\ lastCards \in Column \cup {NoColumn}
  /\ book \in [asg : 0 .. Len(assignments), terminal : BOOLEAN, decided : BOOLEAN]
  /\ poll \in PollRecord
  /\ moves \in 0 .. scene.moves /\ faults \in 0 .. scene.faults /\ restarts \in 0 .. scene.restarts
  /\ comments \in [1 .. MaxRuns -> Nat] /\ entered \in BOOLEAN /\ armed \in BOOLEAN
Bounded ==
  /\ Len(assignments) <= scene.runs
  /\ CastleLane => Len(runs) <= Cardinality(Taken)
  /\ ~CastleLane => assignments = <<>> /\ Len(runs) <= scene.runs

\* The poll has an index, has a copy of the card, may fire.
Indexed == poll.step # "idle"
HasCard == poll.step \notin {"idle", "list"}
BeforeFire == poll.step \in {"list", "reconcile", "prune", "fire"}

\* What is read of a run once it is settled, is true of it for good.
Over(r) == Settled(r) \/ r.phase = "gone"
Tells(ph, rs) ==
  ph.anyRun =>
    /\ ph.run \in DOMAIN rs
    /\ Settled(ph) => Over(rs[ph.run])
    /\ ph.phase = "Succeeded" /\ ph.verdict = "handler_complete" =>
         rs[ph.run].phase \in {"Succeeded", "gone"} /\ rs[ph.run].verdict = "handler_complete"
IndexTells ==
  /\ Indexed => Tells(poll.index, runs)
  /\ Indexed => poll.index.phase # "gone"
  /\ Indexed /\ ~poll.index.anyRun => poll.index = NoSummary
  /\ HasCard => poll.card \in Column
  /\ ~CastleLane /\ BeforeFire =>
       /\ ~poll.index.active => AllSettled
       /\ \A j \in Kept : poll.index.anyRun /\ j <= poll.index.run

\* Only the newest run can be in flight, and in the castle lane the book has
\* the one assignment that may still get a run or has it.
OnlyNewest ==
  /\ BookKept => \A i \in DOMAIN runs : i < Len(runs) => Over(runs[i])
  /\ BookKept /\ CastleLane =>
       /\ \A a \in DOMAIN assignments : assignments[a].state # "over" => a = book.asg
       /\ ~AllSettled => \E a \in DOMAIN assignments : assignments[a].state = "bound"
  /\ book.terminal => book.asg # 0 /\ assignments[book.asg].state = "over"

\* The card has not moved since the fire: the memo still says so, and keeps
\* saying so because a run or a submission of the ticket is known.
Known == runs # <<>> \/ InFlight(book)
Remembered ==
  /\ MemosKept => \A i \in DOMAIN runs : runs[i].phase # "gone"
  /\ MemosKept /\ runs = <<>> => \A a \in DOMAIN assignments : assignments[a].state = "queued"
  /\ MemosKept /\ ~entered =>
       /\ Known /\ lastCards = column
       /\ HasCard => poll.card = column
       /\ BeforeFire => poll.index.anyRun \/ InFlight(book)

\* A failure that was commented is in the memo, or behind it.
Plain == MemosKept /\ BookKept /\ ~On("lateVerdict")
Reads(ph, rs) ==
  ph.anyRun =>
    /\ ph.run \in DOMAIN rs /\ ph.class = rs[ph.run].class
    /\ Settled(ph) =>
         /\ ph.phase = rs[ph.run].phase /\ ph.verdict = rs[ph.run].verdict
         /\ ~ph.active
Commented ==
  Plain =>
    /\ Reads(lastRuns, runs) /\ (Indexed => Reads(poll.index, runs))
    /\ ~lastRuns.anyRun => lastRuns = NoSummary
    /\ lastRuns.run <= Len(runs) /\ (Indexed => lastRuns.run <= poll.index.run)
    /\ poll.step \in {"list", "reconcile"} /\ lastRuns.anyRun /\ lastRuns.run = poll.index.run /\ Settled(lastRuns)
         => poll.index = lastRuns
    /\ \A i \in DOMAIN comments :
         /\ comments[i] <= 1
         /\ comments[i] # 0 => i <= lastRuns.run /\ (i = lastRuns.run => lastRuns.phase = "Failed")

WInv == WatcherType /\ Bounded /\ IndexTells /\ OnlyNewest /\ Remembered /\ Commented

-----------------------------------------------------------------------------
(* What the poll reads. *)
LEMMA TakenIsBounded ==
  ASSUME WatcherType
  PROVE  IsFiniteSet(Taken) /\ Cardinality(Taken) \in Nat /\ Cardinality(Taken) <= Len(assignments)
<1>1. Len(assignments) \in Nat /\ DOMAIN assignments = 1 .. Len(assignments)
  BY DEF WatcherType
<1>2. IsFiniteSet(1 .. Len(assignments)) /\ Cardinality(1 .. Len(assignments)) = Len(assignments)
  <2>1. \A n \in Nat : IsFiniteSet(1 .. n) /\ Cardinality(1 .. n) = n
    <3> SUFFICES ASSUME NEW n \in Nat PROVE IsFiniteSet(1 .. n) /\ Cardinality(1 .. n) = n
      OBVIOUS
    <3>1. IsFiniteSet(1 .. n) /\ Cardinality(1 .. n) = IF 1 > n THEN 0 ELSE n - 1 + 1
      BY FS_Interval
    <3> QED BY <3>1
  <2> QED BY <1>1, <2>1
<1>3. Taken \subseteq 1 .. Len(assignments)
  BY <1>1 DEF Taken
<1> QED BY <1>2, <1>3, FS_Subset, FS_CardinalityType

LEMMA RunsAreBounded ==
  ASSUME WatcherType, Bounded
  PROVE  /\ Len(runs) \in Nat /\ DOMAIN runs = 1 .. Len(runs)
         /\ scene.runs \in Nat /\ MaxRuns \in Nat /\ scene.runs <= MaxRuns
         /\ Len(runs) <= scene.runs
<1>1. Len(runs) \in Nat /\ DOMAIN runs = 1 .. Len(runs) /\ Len(assignments) \in Nat
  BY DEF WatcherType
<1>2. scene.runs \in 1 .. MaxRuns /\ MaxRuns \in Nat
  BY WatcherAssumption DEF WatcherType, WatcherAssumption, Scene
<1>3. Cardinality(Taken) \in Nat /\ Cardinality(Taken) <= Len(assignments)
  BY TakenIsBounded
<1> QED BY <1>1, <1>2, <1>3 DEF Bounded

LEMMA NewestKept ==
  ASSUME WatcherType, Kept # {}
  PROVE  LET latest == CHOOSE i \in Kept : \A j \in Kept : j <= i
         IN latest \in Kept /\ \A j \in Kept : j <= latest
<1> DEFINE n == Len(runs)
           T == {n - i : i \in Kept}
<1>1. n \in Nat /\ Kept \subseteq 1 .. n
  BY DEF WatcherType, Kept
<1> HIDE DEF n
<1>2. T \subseteq Nat /\ T # {}
  <2>1. \A i \in Kept : n - i \in Nat
    BY <1>1
  <2> QED BY <2>1
<1>3. PICK t \in T : \A s \in T : ~(<<s, t>> \in OpToRel(<, Nat))
  BY <1>2, WFMin, NatLessThanWellFounded
<1>4. \A s \in T : ~(s < t)
  BY <1>2, <1>3 DEF OpToRel
<1>5. PICK i \in Kept : t = n - i
  OBVIOUS
<1>6. \A j \in Kept : j <= i
  <2> SUFFICES ASSUME NEW j \in Kept PROVE j <= i
    OBVIOUS
  <2>1. ~(n - j < n - i)
    BY <1>4, <1>5
  <2> QED BY <1>1, <2>1
<1> QED BY <1>6

LEMMA EmptySummary ==
  ASSUME MaxRuns \in Nat
  PROVE  /\ NoSummary \in Summary /\ NoSummary.run = 0
         /\ NoSummary.anyRun = FALSE /\ NoSummary.active = FALSE /\ NoSummary.phase = ""
<1>1. /\ NoSummary.anyRun = FALSE /\ NoSummary.active = FALSE /\ NoSummary.phase = "" /\ NoSummary.run = 0
      /\ NoSummary \in [anyRun : BOOLEAN, active : BOOLEAN, run : {0}, phase : {""}, verdict : {""}, class : {"dev"}]
  BY DEF NoSummary
<1>2. 0 \in 0 .. MaxRuns
  OBVIOUS
<1>3. NoSummary \in Summary
  BY <1>1, <1>2 DEF Summary, RunPhase, Verdict, Class
<1> QED BY <1>1, <1>3

LEMMA IndexReads ==
  ASSUME WatcherType, Bounded, NEW ph, ph = IndexRunPhases
  PROVE  /\ ph \in Summary /\ ph.phase # "gone"
         /\ ~ph.anyRun => ph = NoSummary /\ Kept = {}
         /\ ph.anyRun => /\ ph.run \in Kept /\ \A j \in Kept : j <= ph.run
                         /\ ph.phase = runs[ph.run].phase /\ ph.verdict = runs[ph.run].verdict
                         /\ ph.class = runs[ph.run].class
         /\ ph.active => \E i \in Kept : ~Settled(runs[i])
         /\ ~ph.active => AllSettled
<1>1. CASE Kept = {}
  <2>1. ph = NoSummary
    BY <1>1 DEF IndexRunPhases
  <2>2. ph \in Summary /\ ph.phase # "gone" /\ ph.anyRun = FALSE /\ ph.active = FALSE
    BY <2>1, EmptySummary, RunsAreBounded
  <2>3. AllSettled
    BY <1>1 DEF Kept, AllSettled
  <2> QED BY <1>1, <2>1, <2>2, <2>3
<1>2. CASE Kept # {}
  <2>1. PICK latest \in Kept : (\A j \in Kept : j <= latest)
          /\ latest = CHOOSE i \in Kept : \A j \in Kept : j <= i
    BY <1>2, NewestKept
  <2> DEFINE busy == \E i \in Kept : ~Settled(runs[i])
  <2>2. ph = [anyRun |-> TRUE, active |-> busy, run |-> latest, phase |-> runs[latest].phase,
              verdict |-> runs[latest].verdict, class |-> runs[latest].class]
    BY <1>2, <2>1 DEF IndexRunPhases
  <2>3. busy \in BOOLEAN
    OBVIOUS
  <2>4. ~busy => AllSettled
    BY DEF Kept, AllSettled
  <2>5. latest \in DOMAIN runs /\ runs[latest].phase # "gone" /\ runs[latest] \in RunRecord /\ latest \in 0 .. MaxRuns
    BY <2>1, RunsAreBounded DEF Kept, WatcherType
  <2> HIDE DEF busy
  <2>6. /\ ph.anyRun = TRUE /\ ph.active = busy /\ ph.run = latest /\ ph.phase = runs[latest].phase
        /\ ph.verdict = runs[latest].verdict /\ ph.class = runs[latest].class
    BY <2>2
  <2>7. ph \in Summary
    BY <2>2, <2>3, <2>5 DEF Summary, RunRecord
  <2> QED BY <2>1, <2>4, <2>5, <2>6, <2>7 DEF busy
<1> QED BY <1>1, <1>2

-----------------------------------------------------------------------------
(* What becomes of a run: it settles once, and what is delivered stays.     *)
Ages(a, b) ==
  /\ b \in RunRecord /\ b.class = a.class
  /\ Over(a) => Over(b)
  /\ a.phase = "gone" => b.phase = "gone"
  /\ b.phase = "gone" => a.phase = "gone" \/ On("retention")
  /\ a.phase \in {"Succeeded", "gone"} /\ a.verdict = "handler_complete"
       => b.phase \in {"Succeeded", "gone"} /\ b.verdict = "handler_complete"
  /\ Settled(a) /\ ~On("lateVerdict") /\ ~On("retention") => b = a
RunsAge ==
  /\ UNCHANGED <<setting, board, assignments, memos, poll, budgets, history>>
  /\ runs' \in Seq(RunRecord) /\ Len(runs') = Len(runs) /\ DOMAIN runs' = DOMAIN runs
  /\ \A i \in DOMAIN runs : Ages(runs[i], runs'[i])

LEMMA OneRunAges ==
  ASSUME WatcherType, NEW i \in DOMAIN runs, NEW b, Ages(runs[i], b), runs' = [runs EXCEPT ![i] = b],
         UNCHANGED <<setting, board, assignments, memos, poll, budgets, history>>
  PROVE  RunsAge
<1>1. runs \in Seq(RunRecord) /\ b \in RunRecord
  BY DEF WatcherType, Ages
<1>2. /\ runs' \in Seq(RunRecord) /\ Len(runs') = Len(runs) /\ DOMAIN runs' = DOMAIN runs
      /\ \A j \in DOMAIN runs : runs'[j] = IF j = i THEN b ELSE runs[j]
  BY <1>1
<1>3. \A j \in DOMAIN runs : runs[j] \in RunRecord
  BY <1>1
<1>4. \A a \in RunRecord : Ages(a, a)
  BY DEF Ages
<1> QED BY <1>2, <1>3, <1>4 DEF RunsAge

LEMMA RunsAgeSteps ==
  ASSUME WatcherType, RunProgress \/ RunAges
  PROVE  RunsAge
<1>1. UNCHANGED <<setting, board, assignments, memos, poll, budgets, history>>
  BY DEF RunProgress, RunAges
<1>2. PICK i \in DOMAIN runs : StartRun(i) \/ SettleRun(i) \/ LandVerdict(i) \/ CollectRun(i)
  BY DEF RunProgress, RunAges
<1>3. runs[i] \in RunRecord /\ runs[i].phase \in RunPhase /\ runs[i].verdict \in Verdict /\ runs[i].class \in Class
  <2>1. runs[i] \in RunRecord
    BY DEF WatcherType
  <2> QED BY <2>1 DEF RunRecord
<1>4. \A p \in RunPhase, v \in Verdict :
        LET b == [runs[i] EXCEPT !.phase = p, !.verdict = v]
        IN b \in RunRecord /\ b.phase = p /\ b.verdict = v /\ b.class = runs[i].class
  BY <1>3 DEF RunRecord
<1>5. \A p \in RunPhase, v \in Verdict :
        runs' = [runs EXCEPT ![i] = [@ EXCEPT !.phase = p, !.verdict = v]]
          => \E b \in RunRecord : /\ runs' = [runs EXCEPT ![i] = b]
                                  /\ b.phase = p /\ b.verdict = v /\ b.class = runs[i].class
  BY <1>4, ZenonT(60)
<1>6. \A p \in RunPhase :
        LET b == [runs[i] EXCEPT !.phase = p]
        IN b \in RunRecord /\ b.phase = p /\ b.verdict = runs[i].verdict /\ b.class = runs[i].class
  BY <1>3 DEF RunRecord
<1>7. \A p \in RunPhase :
        runs' = [runs EXCEPT ![i].phase = p]
          => \E b \in RunRecord : /\ runs' = [runs EXCEPT ![i] = b]
                                  /\ b.phase = p /\ b.verdict = runs[i].verdict /\ b.class = runs[i].class
  BY <1>6
<1>8. \E b : runs' = [runs EXCEPT ![i] = b] /\ Ages(runs[i], b)
  <2>1. CASE StartRun(i)
    <3>1. PICK b \in RunRecord : /\ runs' = [runs EXCEPT ![i] = b]
                                 /\ b.phase = "Running" /\ b.verdict = runs[i].verdict /\ b.class = runs[i].class
      BY <1>7, <2>1 DEF StartRun, RunPhase
    <3> QED BY <2>1, <3>1 DEF StartRun, Ages, Over, Settled
  <2>2. CASE SettleRun(i)
    <3>1. PICK p \in {"Succeeded", "Failed"}, v \in Verdict :
            runs' = [runs EXCEPT ![i] = [@ EXCEPT !.phase = p, !.verdict = v]]
      BY <2>2 DEF SettleRun
    <3>2. p \in RunPhase
      BY DEF RunPhase
    <3>3. PICK b \in RunRecord : /\ runs' = [runs EXCEPT ![i] = b]
                                 /\ b.phase = p /\ b.verdict = v /\ b.class = runs[i].class
      BY <1>5, <3>1, <3>2, ZenonT(60)
    <3> QED BY <2>2, <3>3 DEF SettleRun, Ages, Over, Settled
  <2>3. CASE LandVerdict(i)
    <3>1. PICK outcome \in {<<"Succeeded", "handler_complete">>, <<"Succeeded", "failed">>, <<"Failed", "failed">>} :
            runs' = [runs EXCEPT ![i] = [@ EXCEPT !.phase = outcome[1], !.verdict = outcome[2]]]
      BY <2>3 DEF LandVerdict
    <3>2. outcome[1] \in {"Succeeded", "Failed"} /\ outcome[2] \in {"handler_complete", "failed"}
      <4>1. CASE outcome = <<"Succeeded", "handler_complete">>
        BY <4>1
      <4>2. CASE outcome = <<"Succeeded", "failed">>
        BY <4>2
      <4>3. CASE outcome = <<"Failed", "failed">>
        BY <4>3
      <4> QED BY <4>1, <4>2, <4>3
    <3>3. PICK b \in RunRecord : /\ runs' = [runs EXCEPT ![i] = b]
                                 /\ b.phase = outcome[1] /\ b.verdict = outcome[2] /\ b.class = runs[i].class
      <4>1. outcome[1] \in RunPhase /\ outcome[2] \in Verdict
        BY <3>2 DEF RunPhase, Verdict
      <4> QED BY <1>5, <3>1, <4>1, ZenonT(60)
    <3> QED BY <2>3, <3>2, <3>3 DEF LandVerdict, Ages, Over, Settled
  <2>4. CASE CollectRun(i)
    <3>1. PICK b \in RunRecord : /\ runs' = [runs EXCEPT ![i] = b]
                                 /\ b.phase = "gone" /\ b.verdict = runs[i].verdict /\ b.class = runs[i].class
      BY <1>7, <2>4 DEF CollectRun, RunPhase
    <3> QED BY <2>4, <3>1 DEF CollectRun, Ages, Over, Settled
  <2> QED BY <1>2, <2>1, <2>2, <2>3, <2>4
<1> QED BY <1>1, <1>8, OneRunAges

(* A run or an assignment more. *)
Fresh(class) == [phase |-> "", verdict |-> "", class |-> class]
RunBorn == \E class \in Class : runs' = Append(runs, Fresh(class))
LEMMA BornRun ==
  ASSUME WatcherType, RunBorn
  PROVE  /\ runs' \in Seq(RunRecord) /\ Len(runs') = Len(runs) + 1 /\ Len(runs) \in Nat
         /\ DOMAIN runs = 1 .. Len(runs) /\ DOMAIN runs' = 1 .. Len(runs) + 1
         /\ \A i \in DOMAIN runs : i \in DOMAIN runs' /\ i < Len(runs') /\ runs'[i] = runs[i]
         /\ runs'[Len(runs) + 1].phase = "" /\ runs' # <<>>
         /\ \A i \in DOMAIN runs' : i \in DOMAIN runs \/ (i = Len(runs') /\ ~(i < Len(runs')))
         /\ \A m \in Nat : (m <= Len(runs) => m <= Len(runs')) /\ (Len(runs) < m => Len(runs') <= m)
<1>1. PICK class \in Class : runs' = Append(runs, Fresh(class))
  BY DEF RunBorn
<1>2. PICK run \in RunRecord : runs' = Append(runs, run) /\ run.phase = ""
  <2>1. Fresh(class) \in RunRecord /\ Fresh(class).phase = ""
    BY DEF Fresh, RunRecord, RunPhase, Verdict
  <2> QED BY <1>1, <2>1
<1>3. runs \in Seq(RunRecord)
  BY DEF WatcherType
<1>4. /\ runs' \in Seq(RunRecord) /\ Len(runs') = Len(runs) + 1 /\ Len(runs) \in Nat
      /\ DOMAIN runs = 1 .. Len(runs) /\ DOMAIN runs' = 1 .. Len(runs) + 1
      /\ runs'[Len(runs) + 1] = run
  <2>1. runs' \in Seq(RunRecord) /\ Len(runs') = Len(runs) + 1 /\ runs'[Len(runs) + 1] = run
    BY <1>2, <1>3, AppendProperties
  <2>2. Len(runs) \in Nat /\ DOMAIN runs = 1 .. Len(runs) /\ DOMAIN runs' = 1 .. Len(runs')
    BY <1>3, <2>1, LenProperties
  <2> QED BY <2>1, <2>2
<1>5. \A i \in 1 .. Len(runs) : runs'[i] = runs[i]
  BY <1>2, <1>3, AppendProperties, ZenonT(60)
<1>6. \A i \in 1 .. Len(runs) : i \in 1 .. Len(runs) + 1 /\ i < Len(runs) + 1
  BY <1>4
<1>7. runs' # <<>>
  BY <1>4
<1>8. PICK n \in Nat : n = Len(runs)
  BY <1>4
<1>9. \A i \in 1 .. n + 1 : i \in 1 .. n \/ (i = n + 1 /\ ~(i < n + 1))
  OBVIOUS
<1>10. \A m \in Nat : (m <= n => m <= n + 1) /\ (n < m => n + 1 <= m)
  OBVIOUS
<1> QED BY <1>2, <1>4, <1>5, <1>6, <1>7, <1>8, <1>9, <1>10

AsgBorn == \E class \in Class : assignments' = Append(assignments, [state |-> "queued", class |-> class])
LEMMA BornAsg ==
  ASSUME WatcherType, AsgBorn
  PROVE  /\ assignments' \in Seq(AsgRecord) /\ Len(assignments') = Len(assignments) + 1
         /\ Len(assignments) \in Nat
         /\ DOMAIN assignments = 1 .. Len(assignments) /\ DOMAIN assignments' = 1 .. Len(assignments) + 1
         /\ \A a \in DOMAIN assignments : assignments'[a] = assignments[a]
         /\ assignments'[Len(assignments) + 1].state = "queued"
         /\ Taken' = Taken
<1>1. PICK class \in Class : assignments' = Append(assignments, [state |-> "queued", class |-> class])
  BY DEF AsgBorn
<1>2. PICK asg \in AsgRecord : assignments' = Append(assignments, asg) /\ asg.state = "queued"
  BY <1>1 DEF AsgRecord
<1>3. assignments \in Seq(AsgRecord)
  BY DEF WatcherType
<1>4. /\ assignments' \in Seq(AsgRecord) /\ Len(assignments') = Len(assignments) + 1
      /\ Len(assignments) \in Nat
      /\ DOMAIN assignments = 1 .. Len(assignments) /\ DOMAIN assignments' = 1 .. Len(assignments) + 1
      /\ \A a \in 1 .. Len(assignments) : assignments'[a] = assignments[a]
      /\ assignments'[Len(assignments) + 1].state = "queued"
  BY <1>2, <1>3
<1>5. Taken' = Taken
  <2>1. \A a : a \in 1 .. Len(assignments) + 1 <=> a \in 1 .. Len(assignments) \/ a = Len(assignments) + 1
    BY <1>4
  <2>2. Len(assignments) + 1 \notin 1 .. Len(assignments)
    BY <1>4
  <2>3. \A a : a \in Taken' <=> a \in Taken
    BY <1>4, <2>1, <2>2 DEF Taken
  <2> QED BY <2>3 DEF Taken
<1> QED BY <1>4, <1>5

-----------------------------------------------------------------------------
LEMMA WatcherInit == Init => WInv
<1> SUFFICES ASSUME Init PROVE WInv
  OBVIOUS
<1> USE DEF Init
<1>1. /\ scene.runs \in 1 .. MaxRuns /\ MaxRuns \in Nat
      /\ scene.moves \in Nat /\ scene.faults \in Nat /\ scene.restarts \in Nat
  BY WatcherAssumption DEF WatcherAssumption, Scene
<1>2. /\ NoSummary \in Summary /\ NoSummary.run = 0 /\ NoSummary.anyRun = FALSE
  BY <1>1, EmptySummary
<1>3. IdlePoll \in PollRecord /\ IdlePoll.step = "idle"
  BY <1>2 DEF IdlePoll, PollRecord, PollStep
<1>4. NoEntry \in [asg : 0 .. Len(assignments), terminal : BOOLEAN, decided : BOOLEAN]
      /\ NoEntry.asg = 0 /\ NoEntry.terminal = FALSE
  BY DEF NoEntry
<1>5. /\ runs \in Seq(RunRecord) /\ assignments \in Seq(AsgRecord)
      /\ Len(runs) = 0 /\ Len(assignments) = 0 /\ DOMAIN runs = {} /\ DOMAIN assignments = {}
  OBVIOUS
<1>6. WatcherType
  <2>1. column \in Column /\ comments \in [1 .. MaxRuns -> Nat]
    BY DEF Column
  <2>2. moves \in 0 .. scene.moves /\ faults \in 0 .. scene.faults /\ restarts \in 0 .. scene.restarts
    BY <1>1
  <2> QED BY <1>2, <1>3, <1>4, <1>5, <2>1, <2>2 DEF WatcherType
<1>7. Bounded
  <2>1. Taken = {}
    BY <1>5 DEF Taken
  <2> QED BY <1>1, <1>5, <2>1, FS_EmptySet DEF Bounded
<1>8. IndexTells
  BY <1>3 DEF IndexTells, Indexed, HasCard, BeforeFire
<1>9. OnlyNewest
  BY <1>4, <1>5 DEF OnlyNewest, AllSettled
<1>10. Remembered
  BY <1>5 DEF Remembered
<1>11. Commented
  <2>1. \A i \in DOMAIN comments : comments[i] = 0
    OBVIOUS
  <2> QED BY <1>2, <1>3, <1>5, <2>1 DEF Commented, Reads, Indexed
<1> QED BY <1>6, <1>7, <1>8, <1>9, <1>10, <1>11 DEF WInv

(* The poll reads the runs, then the board.                                *)
LEMMA ListStep ==
  ASSUME WInv, ListRuns, UNCHANGED setting
  PROVE  WInv'
<1>1. PICK ph : ph = IndexRunPhases
  OBVIOUS
<1>2. /\ ph \in Summary /\ ph.phase # "gone"
      /\ ~ph.anyRun => ph = NoSummary /\ Kept = {}
      /\ ph.anyRun => /\ ph.run \in Kept /\ \A j \in Kept : j <= ph.run
                      /\ ph.phase = runs[ph.run].phase /\ ph.verdict = runs[ph.run].verdict
                      /\ ph.class = runs[ph.run].class
      /\ ph.active => \E i \in Kept : ~Settled(runs[i])
      /\ ~ph.active => AllSettled
  BY <1>1, IndexReads DEF WInv
<1>3. /\ poll \in PollRecord /\ poll' = [poll EXCEPT !.step = "list", !.index = ph]
      /\ UNCHANGED <<lane, scene, column, tagged, runs, assignments, lastRuns, lastCards, book,
                     moves, faults, restarts, comments, entered, armed>>
  BY <1>1 DEF ListRuns, At, setting, board, memos, budgets, history, WInv, WatcherType
<1>4. poll' \in PollRecord /\ poll'.step = "list" /\ poll'.index = ph
  BY <1>2, <1>3 DEF PollRecord, PollStep
<1>5. WatcherType'
  BY <1>3, <1>4 DEF WInv, WatcherType
<1>6. Bounded'
  BY <1>3 DEF WInv, Bounded, Taken, CastleLane
<1>7. IndexTells'
  <2>1. Tells(ph, runs)
    BY <1>2 DEF Tells, Kept, Over, Settled
  <2> QED BY <1>2, <1>3, <1>4, <2>1 DEF IndexTells, Indexed, HasCard, BeforeFire, CastleLane, AllSettled, Kept
<1>8. OnlyNewest'
  BY <1>3 DEF WInv, OnlyNewest, BookKept, CastleLane, AllSettled, On
<1>9. Remembered'
  <2>1. ASSUME MemosKept, runs # <<>>
        PROVE  ph.anyRun
    <3>1. 1 \in DOMAIN runs
      BY <2>1 DEF WInv, WatcherType
    <3> QED BY <1>2, <2>1, <3>1 DEF WInv, Remembered, Kept
  <2> QED BY <1>3, <1>4, <2>1 DEF WInv, Remembered, MemosKept, Known, InFlight, HasCard, BeforeFire
<1>10. Commented'
  <2> SUFFICES ASSUME Plain' PROVE Commented'
    BY DEF Commented
  <2>1. Plain
    BY <1>3 DEF Plain, MemosKept, BookKept, CastleLane, On
  <2>2. Len(runs) \in Nat /\ DOMAIN runs = 1 .. Len(runs)
    BY DEF WInv, WatcherType
  <2>3. Kept = DOMAIN runs
    BY <2>1 DEF WInv, Remembered, Plain, Kept
  <2>4. \A i \in DOMAIN runs : i < Len(runs) => Over(runs[i])
    BY <2>1 DEF WInv, OnlyNewest, Plain
  <2>5. ph.anyRun => ph.run = Len(runs)
    BY <1>2, <2>2, <2>3, SMTT(30)
  <2>6. ph.anyRun /\ Settled(ph) => ~ph.active
    BY <1>2, <2>2, <2>3, <2>4, <2>5 DEF Over, Settled, Kept
  <2>7. Reads(ph, runs)
    BY <1>2, <2>3, <2>6 DEF Reads
  <2>8. ~ph.anyRun => Len(runs) = 0 /\ ph.run = 0
    <3>1. NoSummary.run = 0
      BY DEF NoSummary
    <3>2. DOMAIN runs = {} => Len(runs) = 0
      BY <2>2
    <3> QED BY <1>2, <2>3, <3>1, <3>2
  <2>9. Reads(lastRuns, runs) /\ lastRuns.run <= Len(runs) /\ lastRuns \in Summary
        /\ (~lastRuns.anyRun => lastRuns = NoSummary)
    BY <2>1 DEF WInv, Commented, WatcherType
  <2>10. lastRuns.run <= ph.run
    BY <2>5, <2>8, <2>9
  <2>11. ASSUME lastRuns.anyRun, lastRuns.run = ph.run, Settled(lastRuns)
         PROVE  ph = lastRuns
    <3>1. ph.anyRun
      BY <2>8, <2>9, <2>11, <2>2 DEF Reads
    <3>2. ph.phase = lastRuns.phase /\ ph.verdict = lastRuns.verdict /\ ph.class = lastRuns.class
      BY <1>2, <2>9, <2>11, <3>1 DEF Reads
    <3>3. Settled(ph)
      BY <2>11, <3>2 DEF Settled
    <3>4. ~ph.active /\ ~lastRuns.active
      BY <2>6, <2>9, <2>11, <3>1, <3>3 DEF Reads
    <3>5. ph \in Summary /\ lastRuns \in Summary
      BY <1>2, <2>9
    <3> QED BY <2>11, <3>1, <3>2, <3>4, <3>5 DEF Summary
  <2>12. \A i \in DOMAIN comments :
           /\ comments[i] <= 1
           /\ comments[i] # 0 => i <= lastRuns.run /\ (i = lastRuns.run => lastRuns.phase = "Failed")
    BY <2>1 DEF WInv, Commented
  <2> QED BY <1>3, <1>4, <2>7, <2>9, <2>10, <2>11, <2>12 DEF Commented
<1> QED BY <1>5, <1>6, <1>7, <1>8, <1>9, <1>10 DEF WInv

LEMMA BudgetsHold ==
  ASSUME WatcherType, UNCHANGED scene, NoFault \/ Fault
  PROVE  /\ moves' \in 0 .. scene'.moves /\ faults' \in 0 .. scene'.faults /\ restarts' \in 0 .. scene'.restarts
         /\ UNCHANGED <<moves, restarts>>
<1>1. scene.moves \in Nat /\ scene.faults \in Nat /\ scene.restarts \in Nat
  BY WatcherAssumption DEF WatcherAssumption, WatcherType, Scene
<1>2. moves \in 0 .. scene.moves /\ faults \in 0 .. scene.faults /\ restarts \in 0 .. scene.restarts
  BY DEF WatcherType
<1>3. CASE NoFault
  BY <1>2, <1>3 DEF NoFault, budgets
<1>4. CASE Fault
  BY <1>1, <1>2, <1>4 DEF Fault
<1> QED BY <1>3, <1>4

LEMMA BoardStep ==
  ASSUME WInv, GetAllTasks, UNCHANGED setting
  PROVE  WInv'
<1>1. /\ poll.step = "list" /\ poll \in PollRecord /\ column \in Column /\ tagged \in BOOLEAN
      /\ poll' = [poll EXCEPT !.step = "reconcile", !.card = column, !.tag = tagged]
      /\ UNCHANGED <<lane, scene, column, tagged, runs, assignments, lastRuns, lastCards, book,
                     moves, faults, restarts, comments, entered, armed>>
  BY DEF GetAllTasks, At, setting, board, memos, budgets, history, WInv, WatcherType
<1>2. /\ poll' \in PollRecord /\ poll'.step = "reconcile" /\ poll'.index = poll.index /\ poll'.card = column
  BY <1>1 DEF PollRecord, PollStep
<1>3. WatcherType'
  BY <1>1, <1>2 DEF WInv, WatcherType
<1>4. Bounded'
  BY <1>1 DEF WInv, Bounded, Taken, CastleLane
<1>5. IndexTells'
  BY <1>1, <1>2 DEF WInv, IndexTells, Indexed, HasCard, BeforeFire, CastleLane, AllSettled, Kept
<1>6. OnlyNewest'
  BY <1>1 DEF WInv, OnlyNewest, BookKept, CastleLane, AllSettled, On
<1>7. Remembered'
  BY <1>1, <1>2 DEF WInv, Remembered, MemosKept, Known, InFlight, HasCard, BeforeFire
<1>8. Commented'
  BY <1>1, <1>2 DEF WInv, Commented, Plain, MemosKept, BookKept, CastleLane, On, Indexed
<1> QED BY <1>3, <1>4, <1>5, <1>6, <1>7, <1>8 DEF WInv

LEMMA AbortStep ==
  ASSUME WInv, AbortPoll, UNCHANGED setting
  PROVE  WInv'
<1>1. /\ poll' = IdlePoll /\ Fault
      /\ UNCHANGED <<lane, scene, column, tagged, runs, assignments, lastRuns, lastCards, book,
                     comments, entered, armed>>
  BY DEF AbortPoll, setting, board, memos, history
<1>2. IdlePoll \in PollRecord /\ IdlePoll.step = "idle"
  BY EmptySummary, RunsAreBounded DEF WInv, IdlePoll, PollRecord, PollStep
<1>3. /\ moves' \in 0 .. scene'.moves /\ faults' \in 0 .. scene'.faults /\ restarts' \in 0 .. scene'.restarts
      /\ UNCHANGED <<moves, restarts>>
  BY <1>1, BudgetsHold DEF WInv
<1>4. WatcherType'
  BY <1>1, <1>2, <1>3 DEF WInv, WatcherType
<1>5. Bounded'
  BY <1>1 DEF WInv, Bounded, Taken, CastleLane
<1>6. IndexTells'
  BY <1>1, <1>2 DEF IndexTells, Indexed, HasCard, BeforeFire
<1>7. OnlyNewest'
  BY <1>1, <1>3 DEF WInv, OnlyNewest, BookKept, CastleLane, AllSettled, On
<1>8. Remembered'
  BY <1>1, <1>2, <1>3 DEF WInv, Remembered, MemosKept, Known, InFlight, HasCard, BeforeFire
<1>9. Commented'
  BY <1>1, <1>2, <1>3 DEF WInv, Commented, Plain, MemosKept, BookKept, CastleLane, On, Indexed
<1> QED BY <1>4, <1>5, <1>6, <1>7, <1>8, <1>9 DEF WInv

(* Reconciling: the board, the memo and the comment in one step.           *)
LEMMA ReconcileReads ==
  ASSUME WInv, ReconcileTaskColumn, UNCHANGED setting,
         NEW ph, ph = poll.index, NEW target, target = Decision(ph, poll.card)
  PROVE  /\ poll.step = "reconcile" /\ poll' \in PollRecord /\ poll'.step = "prune" /\ poll'.index = ph
         /\ target \in Column /\ poll.card \in Column
         /\ lastRuns' = IF Due(ph) THEN ph ELSE lastRuns
         /\ UNCHANGED <<lane, scene, tagged, runs, assignments, lastCards, book>>
         /\ NoFault \/ Fault
         /\ column' \in {column, target} /\ poll'.card \in {poll.card, target}
         /\ ~entered' => ~entered /\ column' = column /\ (poll.card = column => poll'.card = column)
         /\ armed' \in BOOLEAN /\ entered' \in BOOLEAN
         /\ \/ comments' = comments
            \/ /\ Due(ph) /\ ph.phase = "Failed"
               /\ \/ comments' = [comments EXCEPT ![ph.run] = @ + 0]
                  \/ comments' = [comments EXCEPT ![ph.run] = @ + 1]
<1>1. /\ poll.step = "reconcile" /\ poll \in PollRecord /\ poll.card \in Column
      /\ armed \in BOOLEAN /\ entered \in BOOLEAN
      /\ UNCHANGED <<lane, scene, tagged, runs, assignments, lastCards, book>>
  BY DEF ReconcileTaskColumn, WInv, IndexTells, HasCard, WatcherType, setting
<1>2. target \in Column
  BY <1>1 DEF Decision, Column
<1>3. \A p : p = [poll EXCEPT !.step = "prune"] =>
        p \in PollRecord /\ p.step = "prune" /\ p.index = ph /\ p.card = poll.card
  BY <1>1 DEF PollRecord, PollStep
<1>4. \A p : p = [poll EXCEPT !.step = "prune", !.card = target] =>
        p \in PollRecord /\ p.step = "prune" /\ p.index = ph /\ p.card = target
  BY <1>1, <1>2 DEF PollRecord, PollStep
<1>5. lastRuns' = IF Due(ph) THEN ph ELSE lastRuns
  BY DEF ReconcileTaskColumn
<1>6. CASE Due(ph) /\ target # poll.card
  <2>1. MoveCard(target)
    BY <1>6 DEF ReconcileTaskColumn
  <2>2. CASE /\ column' = target
             /\ poll' = [At("prune") EXCEPT !.card = target]
             /\ \/ NoFault /\ comments' = IF ph.phase = "Failed" THEN [comments EXCEPT ![ph.run] = @ + 1] ELSE comments
                \/ /\ ph.phase = "Failed" /\ Fault
                   /\ comments' = IF ph.phase = "Failed" THEN [comments EXCEPT ![ph.run] = @ + 0] ELSE comments
             /\ entered' = (entered \/ column # target) /\ armed' = FALSE
    <3>1. poll' = [poll EXCEPT !.step = "prune", !.card = target]
      BY <1>1, <2>2 DEF At, PollRecord
    <3>2. /\ NoFault \/ Fault
          /\ \/ comments' = comments
             \/ /\ ph.phase = "Failed"
                /\ \/ comments' = [comments EXCEPT ![ph.run] = @ + 0]
                   \/ comments' = [comments EXCEPT ![ph.run] = @ + 1]
      BY <2>2
    <3>3. entered' \in BOOLEAN /\ (~entered' => ~entered /\ column = target)
      BY <2>2
    <3> QED BY <1>1, <1>2, <1>4, <1>5, <1>6, <2>2, <3>1, <3>2, <3>3
  <2>3. CASE /\ Fault
             /\ poll' = At("prune")
             /\ \/ column' = column /\ UNCHANGED <<armed, entered>>
                \/ column' = target /\ entered' = TRUE /\ armed' = FALSE
             /\ UNCHANGED comments
    <3>1. /\ poll' \in PollRecord /\ poll'.step = "prune" /\ poll'.index = ph
          /\ poll'.card = poll.card /\ comments' = comments /\ (NoFault \/ Fault)
      BY <1>3, <2>3 DEF At
    <3>2. CASE column' = column /\ UNCHANGED <<armed, entered>>
      BY <1>1, <1>2, <1>5, <3>1, <3>2
    <3>3. CASE column' = target /\ entered' = TRUE /\ armed' = FALSE
      BY <1>1, <1>2, <1>5, <3>1, <3>3
    <3> QED BY <2>3, <3>2, <3>3
  <2> QED BY <2>1, <2>2, <2>3 DEF MoveCard
<1>7. CASE ~(Due(ph) /\ target # poll.card)
  <2>1. poll' = At("prune") /\ UNCHANGED <<column, budgets, history>>
    BY <1>7 DEF ReconcileTaskColumn
  <2> QED BY <1>1, <1>2, <1>3, <1>5, <2>1 DEF At, history, NoFault
<1> QED BY <1>6, <1>7

LEMMA ReconcileStep ==
  ASSUME WInv, ReconcileTaskColumn, UNCHANGED setting
  PROVE  WInv'
<1>1. PICK ph, target : ph = poll.index /\ target = Decision(ph, poll.card)
  OBVIOUS
<1>2. /\ poll.step = "reconcile" /\ poll' \in PollRecord /\ poll'.step = "prune" /\ poll'.index = ph
      /\ target \in Column /\ poll.card \in Column
      /\ lastRuns' = IF Due(ph) THEN ph ELSE lastRuns
      /\ UNCHANGED <<lane, scene, tagged, runs, assignments, lastCards, book>>
      /\ NoFault \/ Fault
      /\ column' \in {column, target} /\ poll'.card \in {poll.card, target}
      /\ ~entered' => ~entered /\ column' = column /\ (poll.card = column => poll'.card = column)
      /\ armed' \in BOOLEAN /\ entered' \in BOOLEAN
      /\ \/ comments' = comments
         \/ /\ Due(ph) /\ ph.phase = "Failed"
            /\ \/ comments' = [comments EXCEPT ![ph.run] = @ + 0]
               \/ comments' = [comments EXCEPT ![ph.run] = @ + 1]
  BY <1>1, ReconcileReads
<1>5. /\ moves' \in 0 .. scene'.moves /\ faults' \in 0 .. scene'.faults /\ restarts' \in 0 .. scene'.restarts
      /\ UNCHANGED <<moves, restarts>>
  BY <1>2, BudgetsHold DEF WInv
<1>6. ph \in Summary /\ lastRuns \in Summary /\ comments \in [1 .. MaxRuns -> Nat] /\ entered \in BOOLEAN
      /\ column \in Column
  BY <1>1 DEF WInv, WatcherType, PollRecord
<1>7. /\ comments' \in [1 .. MaxRuns -> Nat] /\ DOMAIN comments' = DOMAIN comments
      /\ \A i \in DOMAIN comments : comments'[i] \in {comments[i], comments[i] + 1}
      /\ \A i \in DOMAIN comments : comments'[i] # comments[i] => i = ph.run /\ Due(ph) /\ ph.phase = "Failed"
  <2>1. CASE comments' = comments
    BY <1>6, <2>1
  <2>2. \A run : \A d \in 0 .. 1 :
          comments' = [comments EXCEPT ![run] = @ + d] =>
            /\ comments' \in [1 .. MaxRuns -> Nat] /\ DOMAIN comments' = DOMAIN comments
            /\ \A i \in DOMAIN comments : comments'[i] = IF i = run THEN comments[i] + d ELSE comments[i]
    <3> SUFFICES ASSUME NEW run, NEW d \in 0 .. 1, comments' = [comments EXCEPT ![run] = @ + d]
                 PROVE  /\ comments' \in [1 .. MaxRuns -> Nat] /\ DOMAIN comments' = DOMAIN comments
                        /\ \A i \in DOMAIN comments : comments'[i] = IF i = run THEN comments[i] + d ELSE comments[i]
      OBVIOUS
    <3>1. CASE run \in 1 .. MaxRuns
      <4>1. comments[run] + d \in Nat
        BY <1>6, <3>1
      <4> QED BY <1>6, <3>1, <4>1
    <3>2. CASE run \notin 1 .. MaxRuns
      BY <1>6, <3>2
    <3> QED BY <3>1, <3>2
  <2>3. CASE /\ Due(ph) /\ ph.phase = "Failed"
             /\ \/ comments' = [comments EXCEPT ![ph.run] = @ + 0]
                \/ comments' = [comments EXCEPT ![ph.run] = @ + 1]
    <3>1. PICK d \in 0 .. 1 : comments' = [comments EXCEPT ![ph.run] = @ + d]
      BY <2>3
    <3>2. /\ comments' \in [1 .. MaxRuns -> Nat] /\ DOMAIN comments' = DOMAIN comments
          /\ \A i \in DOMAIN comments : comments'[i] = IF i = ph.run THEN comments[i] + d ELSE comments[i]
      BY <2>2, <3>1
    <3>3. \A i \in DOMAIN comments : comments[i] + d \in {comments[i], comments[i] + 1}
      BY <1>6
    <3> QED BY <2>3, <3>2, <3>3
  <2> QED BY <1>2, <2>1, <2>3
<1>8. WatcherType'
  <2>1. lastRuns' \in Summary /\ column' \in Column /\ entered' \in BOOLEAN
    BY <1>2, <1>6
  <2> QED BY <1>2, <1>5, <1>7, <2>1 DEF WInv, WatcherType
<1>9. Bounded'
  BY <1>2 DEF WInv, Bounded, Taken, CastleLane
<1>10. IndexTells'
  <2>1. poll'.card \in Column
    BY <1>2
  <2> QED BY <1>1, <1>2, <2>1 DEF WInv, IndexTells, Indexed, HasCard, BeforeFire, CastleLane, AllSettled, Kept
<1>11. OnlyNewest'
  BY <1>2, <1>5 DEF WInv, OnlyNewest, BookKept, CastleLane, AllSettled, On
<1>12. Remembered'
  <2>1. MemosKept' = MemosKept /\ Known' = Known /\ InFlight(book)' = InFlight(book)
    BY <1>2, <1>5 DEF MemosKept, Known, InFlight
  <2>2. ASSUME MemosKept, ~entered'
        PROVE  ~entered /\ column' = column /\ poll'.card = column
    <3>1. ~entered
      BY <1>2, <2>2
    <3>2. poll.card = column
      BY <1>2, <2>2, <3>1 DEF WInv, Remembered, HasCard
    <3> QED BY <1>2, <2>2, <3>1, <3>2
  <2> QED BY <1>1, <1>2, <2>1, <2>2 DEF WInv, Remembered, HasCard, BeforeFire
<1>13. Commented'
  <2> SUFFICES ASSUME Plain' PROVE Commented'
    BY DEF Commented
  <2>1. Plain
    BY <1>2, <1>5 DEF Plain, MemosKept, BookKept, CastleLane, On
  <2>2. /\ Reads(lastRuns, runs) /\ Reads(ph, runs)
        /\ ~lastRuns.anyRun => lastRuns = NoSummary
        /\ lastRuns.run <= Len(runs) /\ lastRuns.run <= ph.run
        /\ lastRuns.anyRun /\ lastRuns.run = ph.run /\ Settled(lastRuns) => ph = lastRuns
        /\ \A i \in DOMAIN comments :
             /\ comments[i] <= 1
             /\ comments[i] # 0 => i <= lastRuns.run /\ (i = lastRuns.run => lastRuns.phase = "Failed")
    BY <1>1, <1>2, <2>1 DEF WInv, Commented, Indexed
  <2>3. /\ Len(runs) \in Nat /\ DOMAIN runs = 1 .. Len(runs) /\ lastRuns.run \in Nat /\ ph.run \in Nat
        /\ MaxRuns \in Nat /\ NoSummary.run = 0
    <3>1. Len(runs) \in Nat /\ DOMAIN runs = 1 .. Len(runs) /\ MaxRuns \in Nat
      BY RunsAreBounded DEF WInv
    <3>2. lastRuns.run \in 0 .. MaxRuns /\ ph.run \in 0 .. MaxRuns
      BY <1>6 DEF Summary
    <3>3. NoSummary.run = 0
      BY DEF NoSummary
    <3> QED BY <3>1, <3>2, <3>3
  <2>4. \A i \in DOMAIN comments : Due(ph) /\ i = ph.run => comments[i] = 0
    <3> SUFFICES ASSUME NEW i \in DOMAIN comments, Due(ph), i = ph.run, comments[i] # 0
                 PROVE  FALSE
      BY <1>6
    <3>1. i <= lastRuns.run /\ i \in 1 .. MaxRuns /\ (i = lastRuns.run => lastRuns.phase = "Failed")
      BY <1>6, <2>2
    <3>2. lastRuns.run = ph.run /\ lastRuns.run # 0 /\ lastRuns.phase = "Failed"
      BY <2>2, <2>3, <3>1
    <3>3. lastRuns.anyRun /\ Settled(lastRuns)
      BY <2>2, <2>3, <3>2 DEF Settled
    <3> QED BY <2>2, <3>2, <3>3 DEF Due
  <2>5. CASE Due(ph)
    <3>1. lastRuns' = ph /\ ph.anyRun
      BY <1>2, <2>5 DEF Due
    <3>2. ph.run <= Len(runs)
      BY <2>2, <2>3, <3>1 DEF Reads
    <3>3. \A i \in DOMAIN comments :
            /\ comments'[i] <= 1
            /\ comments'[i] # 0 => i <= ph.run /\ (i = ph.run => ph.phase = "Failed")
      <4> SUFFICES ASSUME NEW i \in DOMAIN comments
                   PROVE  /\ comments'[i] <= 1
                          /\ comments'[i] # 0 => i <= ph.run /\ (i = ph.run => ph.phase = "Failed")
        OBVIOUS
      <4>1. i \in 1 .. MaxRuns /\ comments[i] \in Nat
        BY <1>6
      <4>2. CASE i = ph.run
        BY <1>7, <2>3, <2>4, <2>5, <4>1, <4>2
      <4>3. CASE i # ph.run
        BY <1>7, <2>2, <2>3, <4>1, <4>3
      <4> QED BY <4>2, <4>3
    <3> QED BY <1>2, <1>7, <2>2, <2>3, <3>1, <3>2, <3>3 DEF Commented
  <2>6. CASE ~Due(ph)
    <3>1. lastRuns' = lastRuns
      BY <1>2, <2>6
    <3>2. comments' = comments
      BY <1>2, <2>6
    <3> QED BY <1>2, <2>2, <3>1, <3>2 DEF Commented
  <2> QED BY <2>5, <2>6
<1> QED BY <1>8, <1>9, <1>10, <1>11, <1>12, <1>13 DEF WInv

LEMMA PruneStep ==
  ASSUME WInv, PruneMemos, UNCHANGED setting
  PROVE  WInv'
<1>1. /\ poll.step = "prune" /\ poll \in PollRecord /\ poll' = [poll EXCEPT !.step = "fire"]
      /\ lastRuns' = IF poll.index.anyRun THEN lastRuns ELSE NoSummary
      /\ lastCards' = IF poll.index.anyRun \/ InFlight(book) THEN lastCards ELSE NoColumn
      /\ UNCHANGED <<lane, scene, column, tagged, runs, assignments, book,
                     moves, faults, restarts, comments, entered, armed>>
  BY DEF PruneMemos, At, setting, board, budgets, history, WInv, WatcherType
<1>2. poll' \in PollRecord /\ poll'.step = "fire" /\ poll'.index = poll.index /\ poll'.card = poll.card
  BY <1>1 DEF PollRecord, PollStep
<1>3. NoSummary \in Summary /\ NoSummary.run = 0 /\ NoSummary.anyRun = FALSE
  BY EmptySummary, RunsAreBounded DEF WInv
<1>4. WatcherType'
  BY <1>1, <1>2, <1>3 DEF WInv, WatcherType
<1>5. Bounded'
  BY <1>1 DEF WInv, Bounded, Taken, CastleLane
<1>6. IndexTells'
  BY <1>1, <1>2 DEF WInv, IndexTells, Indexed, HasCard, BeforeFire, CastleLane, AllSettled, Kept
<1>7. OnlyNewest'
  BY <1>1 DEF WInv, OnlyNewest, BookKept, CastleLane, AllSettled, On
<1>8. Remembered'
  BY <1>1, <1>2 DEF WInv, Remembered, MemosKept, Known, InFlight, HasCard, BeforeFire
<1>9. Commented'
  <2> SUFFICES ASSUME Plain' PROVE Commented'
    BY DEF Commented
  <2>1. Plain
    BY <1>1 DEF Plain, MemosKept, BookKept, CastleLane, On
  <2>2. /\ Reads(lastRuns, runs) /\ Reads(poll.index, runs)
        /\ ~lastRuns.anyRun => lastRuns = NoSummary
        /\ lastRuns.run <= Len(runs) /\ lastRuns.run <= poll.index.run
        /\ \A i \in DOMAIN comments :
             /\ comments[i] <= 1
             /\ comments[i] # 0 => i <= lastRuns.run /\ (i = lastRuns.run => lastRuns.phase = "Failed")
    BY <1>1, <2>1 DEF WInv, Commented, Indexed
  <2>3. Len(runs) \in Nat /\ DOMAIN comments = 1 .. MaxRuns /\ MaxRuns \in Nat /\ lastRuns.run \in Nat
    <3>1. lastRuns.run \in 0 .. MaxRuns
      BY DEF WInv, WatcherType, Summary
    <3> QED BY <3>1, RunsAreBounded DEF WInv, WatcherType
  <2>4. CASE poll.index.anyRun
    BY <1>1, <1>2, <2>2, <2>4 DEF Commented
  <2>5. CASE ~poll.index.anyRun
    <3>1. lastRuns.run = 0
      BY <1>1, <1>3, <2>2, <2>3, <2>5 DEF WInv, IndexTells, Indexed
    <3>2. \A i \in DOMAIN comments : comments[i] = 0
      BY <2>2, <2>3, <3>1
    <3>3. poll.index.run = 0
      BY <1>1, <1>3, <2>5 DEF WInv, IndexTells, Indexed
    <3>4. Reads(NoSummary, runs)
      BY <1>3 DEF Reads
    <3> QED BY <1>1, <1>2, <1>3, <2>2, <2>3, <2>5, <3>2, <3>3, <3>4 DEF Commented
  <2> QED BY <2>4, <2>5
<1> QED BY <1>4, <1>5, <1>6, <1>7, <1>8, <1>9 DEF WInv

-----------------------------------------------------------------------------
(* Firing.  What an old summary tells of the runs, it tells of more runs.  *)
LEMMA GrownRunsAreRead ==
  ASSUME WatcherType, RunBorn
  PROVE  \A ph : (Tells(ph, runs) => Tells(ph, runs')) /\ (Reads(ph, runs) => Reads(ph, runs'))
<1> SUFFICES ASSUME NEW ph
             PROVE  (Tells(ph, runs) => Tells(ph, runs')) /\ (Reads(ph, runs) => Reads(ph, runs'))
  OBVIOUS
<1>1. \A i \in DOMAIN runs : i \in DOMAIN runs' /\ runs'[i] = runs[i]
  BY BornRun
<1> QED BY <1>1 DEF Tells, Reads

LEMMA FireReads ==
  ASSUME WInv, FireCard, UNCHANGED setting
  PROVE  /\ poll.step = "fire" /\ poll.card \in Column /\ lastCards' = poll.card
         /\ poll' \in PollRecord /\ ~BeforeFire'
         /\ Indexed' => poll'.index = poll.index /\ HasCard'
         /\ HasCard' => poll'.card = poll.card /\ poll'.step = "mirror"
         /\ UNCHANGED <<lane, scene, column, tagged, lastRuns, comments>>
<1>1. /\ poll.step = "fire" /\ poll \in PollRecord /\ poll.card \in Column /\ lastCards' = poll.card
      /\ poll' = (IF CastleLane THEN At("mirror") ELSE IdlePoll)
      /\ UNCHANGED <<lane, scene, column, tagged, lastRuns, comments>>
  BY DEF FireCard, board, setting, WInv, WatcherType, IndexTells, HasCard
<1>2. IdlePoll \in PollRecord /\ IdlePoll.step = "idle"
  BY EmptySummary, RunsAreBounded DEF WInv, IdlePoll, PollRecord, PollStep
<1>3. At("mirror") \in PollRecord /\ At("mirror").step = "mirror"
      /\ At("mirror").index = poll.index /\ At("mirror").card = poll.card
  BY <1>1 DEF At, PollRecord, PollStep
<1> QED BY <1>1, <1>2, <1>3 DEF Indexed, HasCard, BeforeFire

LEMMA NoFireStep ==
  ASSUME WInv, FireCard, UNCHANGED setting, NoFault \/ Fault,
         UNCHANGED <<runs, assignments, book, entered, armed>>
  PROVE  WInv'
<1>1. /\ poll.step = "fire" /\ poll.card \in Column /\ lastCards' = poll.card
      /\ poll' \in PollRecord /\ ~BeforeFire'
      /\ Indexed' => poll'.index = poll.index /\ HasCard'
      /\ HasCard' => poll'.card = poll.card /\ poll'.step = "mirror"
      /\ UNCHANGED <<lane, scene, column, tagged, lastRuns, comments>>
  BY FireReads
<1>2. /\ moves' \in 0 .. scene'.moves /\ faults' \in 0 .. scene'.faults /\ restarts' \in 0 .. scene'.restarts
      /\ UNCHANGED <<moves, restarts>>
  BY <1>1, BudgetsHold DEF WInv
<1>3. WatcherType'
  BY <1>1, <1>2 DEF WInv, WatcherType
<1>4. Bounded'
  BY <1>1 DEF WInv, Bounded, Taken, CastleLane
<1>5. IndexTells'
  BY <1>1 DEF WInv, IndexTells, Indexed
<1>6. OnlyNewest'
  BY <1>1, <1>2 DEF WInv, OnlyNewest, BookKept, CastleLane, AllSettled, On
<1>7. Remembered'
  BY <1>1, <1>2 DEF WInv, Remembered, MemosKept, Known, InFlight, HasCard
<1>8. Commented'
  <2>1. poll.step = "fire" => Indexed
    BY DEF Indexed
  <2>2. ~(poll'.step \in {"list", "reconcile"})
    BY <1>1 DEF BeforeFire
  <2> QED BY <1>1, <1>2, <2>1, <2>2 DEF WInv, Commented, Plain, MemosKept, BookKept, CastleLane, On
<1> QED BY <1>3, <1>4, <1>5, <1>6, <1>7, <1>8 DEF WInv

LEMMA CreateStep ==
  ASSUME WInv, FireCard, UNCHANGED setting, ~CastleLane, Fires, RunBorn, Len(runs) < scene.runs, NoFault,
         entered' = (column # poll.card), armed' = FALSE, UNCHANGED <<assignments, book>>
  PROVE  WInv'
<1>1. /\ poll.step = "fire" /\ poll.card \in Column /\ lastCards' = poll.card
      /\ poll' \in PollRecord /\ ~BeforeFire'
      /\ Indexed' => poll'.index = poll.index /\ HasCard'
      /\ HasCard' => poll'.card = poll.card /\ poll'.step = "mirror"
      /\ UNCHANGED <<lane, scene, column, tagged, lastRuns, comments>>
  BY FireReads
<1>2. /\ moves' \in 0 .. scene'.moves /\ faults' \in 0 .. scene'.faults /\ restarts' \in 0 .. scene'.restarts
      /\ UNCHANGED <<moves, restarts>>
  BY <1>1, BudgetsHold DEF WInv
<1>3. /\ runs' \in Seq(RunRecord) /\ Len(runs') = Len(runs) + 1 /\ Len(runs) \in Nat
      /\ DOMAIN runs = 1 .. Len(runs) /\ DOMAIN runs' = 1 .. Len(runs) + 1
      /\ \A i \in DOMAIN runs : i \in DOMAIN runs' /\ i < Len(runs') /\ runs'[i] = runs[i]
      /\ runs'[Len(runs) + 1].phase = "" /\ runs' # <<>>
  BY BornRun DEF WInv
<1>4. \A ph : (Tells(ph, runs) => Tells(ph, runs')) /\ (Reads(ph, runs) => Reads(ph, runs'))
  BY GrownRunsAreRead DEF WInv
<1>5. AllSettled
  BY <1>1 DEF WInv, IndexTells, Fires, BeforeFire
<1>6. WatcherType'
  <2>1. entered' \in BOOLEAN
    OBVIOUS
  <2> QED BY <1>1, <1>2, <1>3, <2>1 DEF WInv, WatcherType
<1>7. Bounded'
  <2>1. scene.runs \in Nat
    BY RunsAreBounded DEF WInv
  <2>2. Len(runs') <= scene.runs
    BY <2>1, BornRun DEF WInv
  <2> QED BY <1>1, <2>2 DEF WInv, Bounded, CastleLane
<1>8. IndexTells'
  <2>1. Indexed' => Indexed
    BY <1>1 DEF Indexed
  <2> QED BY <1>1, <1>4, <2>1 DEF WInv, IndexTells, Indexed
<1>9. OnlyNewest'
  <2>1. \A i \in DOMAIN runs' : i < Len(runs') => i \in DOMAIN runs
    BY BornRun DEF WInv
  <2>2. \A i \in DOMAIN runs' : i < Len(runs') => Over(runs'[i])
    BY <1>3, <1>5, <2>1 DEF AllSettled, Over
  <2> QED BY <1>1, <2>2 DEF WInv, OnlyNewest, CastleLane
<1>10. Remembered'
  <2>1. MemosKept' = MemosKept
    BY <1>1, <1>2 DEF MemosKept
  <2>2. \A i \in DOMAIN runs' : i \in DOMAIN runs \/ runs'[i].phase = ""
    <3>1. \A i \in DOMAIN runs' : i \in DOMAIN runs \/ i = Len(runs) + 1
      BY <1>3, BornRun DEF WInv
    <3> QED BY <1>3, <3>1
  <2>3. MemosKept' => \A i \in DOMAIN runs' : runs'[i].phase # "gone"
    BY <1>3, <2>1, <2>2 DEF WInv, Remembered
  <2>4. ~entered' => column = poll.card
    OBVIOUS
  <2> QED BY <1>1, <1>3, <2>3, <2>4 DEF Remembered, Known, HasCard
<1>11. Commented'
  <2> SUFFICES ASSUME Plain' PROVE Commented'
    BY DEF Commented
  <2>1. Plain
    BY <1>1, <1>2 DEF Plain, MemosKept, BookKept, CastleLane, On
  <2>2. /\ Reads(lastRuns, runs) /\ Reads(poll.index, runs)
        /\ ~lastRuns.anyRun => lastRuns = NoSummary
        /\ lastRuns.run <= Len(runs) /\ lastRuns.run <= poll.index.run
        /\ \A i \in DOMAIN comments :
             /\ comments[i] <= 1
             /\ comments[i] # 0 => i <= lastRuns.run /\ (i = lastRuns.run => lastRuns.phase = "Failed")
    BY <1>1, <2>1 DEF WInv, Commented, Indexed
  <2>3. ~(poll'.step \in {"list", "reconcile"})
    BY <1>1 DEF BeforeFire
  <2>4. lastRuns.run <= Len(runs')
    <3>1. lastRuns.run \in 0 .. MaxRuns
      BY DEF WInv, WatcherType, Summary
    <3>2. lastRuns.run \in Nat
      BY <3>1
    <3> QED BY <2>2, <3>2, BornRun DEF WInv
  <2> QED BY <1>1, <1>4, <2>2, <2>3, <2>4 DEF Commented
<1> QED BY <1>6, <1>7, <1>8, <1>9, <1>10, <1>11 DEF WInv

LEMMA SubmitStep ==
  ASSUME WInv, FireCard, UNCHANGED setting, CastleLane, Fires, AsgBorn, Len(assignments) < scene.runs,
         NoFault \/ Fault, armed' \in BOOLEAN, entered' \in BOOLEAN, UNCHANGED runs,
         \/ /\ book' = [NoEntry EXCEPT !.asg = Len(assignments')]
            /\ entered' = (column # poll.card)
         \/ On("lostAck") /\ UNCHANGED <<book, entered>>
  PROVE  WInv'
<1>1. /\ poll.step = "fire" /\ poll.card \in Column /\ lastCards' = poll.card
      /\ poll' \in PollRecord /\ ~BeforeFire'
      /\ Indexed' => poll'.index = poll.index /\ HasCard'
      /\ HasCard' => poll'.card = poll.card /\ poll'.step = "mirror"
      /\ UNCHANGED <<lane, scene, column, tagged, lastRuns, comments>>
  BY FireReads
<1>2. /\ moves' \in 0 .. scene'.moves /\ faults' \in 0 .. scene'.faults /\ restarts' \in 0 .. scene'.restarts
      /\ UNCHANGED <<moves, restarts>>
  BY <1>1, BudgetsHold DEF WInv
<1>3. /\ assignments' \in Seq(AsgRecord) /\ Len(assignments') = Len(assignments) + 1
      /\ Len(assignments) \in Nat
      /\ DOMAIN assignments = 1 .. Len(assignments) /\ DOMAIN assignments' = 1 .. Len(assignments) + 1
      /\ \A a \in DOMAIN assignments : assignments'[a] = assignments[a]
      /\ assignments'[Len(assignments) + 1].state = "queued"
      /\ Taken' = Taken
  BY BornAsg DEF WInv
<1>4. /\ book \in [asg : 0 .. Len(assignments), terminal : BOOLEAN, decided : BOOLEAN]
      /\ book.asg \in 0 .. Len(assignments) /\ book.terminal \in BOOLEAN
  BY DEF WInv, WatcherType
<1>5. PICK n \in Nat : n = Len(assignments) /\ Len(assignments') = n + 1
  BY <1>3
<1>6. /\ \A a : a \in DOMAIN assignments' <=> a \in DOMAIN assignments \/ a = n + 1
      /\ n + 1 # 0 /\ n + 1 \in 0 .. n + 1 /\ \A a \in 0 .. n : a \in 0 .. n + 1
      /\ \A a \in DOMAIN assignments : a # 0
      /\ \A m \in Nat : n < m => n + 1 <= m
  BY <1>3, <1>5
<1>7. \A e : e = [NoEntry EXCEPT !.asg = n + 1] =>
        /\ e \in [asg : 0 .. n + 1, terminal : BOOLEAN, decided : BOOLEAN]
        /\ e.asg = n + 1 /\ e.terminal = FALSE
  BY <1>6 DEF NoEntry
<1>8. book' = book \/ book' = [NoEntry EXCEPT !.asg = n + 1]
  BY <1>5
<1>9. book' \in [asg : 0 .. Len(assignments'), terminal : BOOLEAN, decided : BOOLEAN]
  <2>1. CASE book' = book
    BY <1>4, <1>5, <1>6, <2>1
  <2>2. CASE book' = [NoEntry EXCEPT !.asg = n + 1]
    BY <1>5, <1>7, <2>2
  <2> QED BY <1>8, <2>1, <2>2
<1>10. WatcherType'
  BY <1>1, <1>2, <1>3, <1>9 DEF WInv, WatcherType
<1>11. Bounded'
  <2>1. scene.runs \in Nat
    BY RunsAreBounded DEF WInv
  <2>2. Len(assignments') <= scene.runs
    BY <1>5, <1>6, <2>1
  <2> QED BY <1>1, <1>3, <2>2 DEF WInv, Bounded, CastleLane
<1>12. IndexTells'
  <2>1. Indexed' => Indexed
    BY <1>1 DEF Indexed
  <2> QED BY <1>1, <2>1 DEF WInv, IndexTells, Indexed
<1>13. OnlyNewest'
  <2>1. BookKept' = BookKept /\ AllSettled' = AllSettled
    BY <1>1, <1>2 DEF BookKept, CastleLane, On, AllSettled
  <2>2. book'.terminal => book'.asg # 0 /\ assignments'[book'.asg].state = "over"
    <3>1. CASE book' = book
      <4>1. book.terminal => book.asg # 0 /\ assignments[book.asg].state = "over"
        BY DEF WInv, OnlyNewest
      <4>2. book.asg # 0 => assignments'[book.asg] = assignments[book.asg]
        BY <1>3, <1>4, <1>5
      <4> QED BY <3>1, <4>1, <4>2
    <3>2. CASE book' = [NoEntry EXCEPT !.asg = n + 1]
      BY <1>7, <3>2
    <3> QED BY <1>8, <3>1, <3>2
  <2>3. ASSUME BookKept PROVE
          /\ \A a \in DOMAIN assignments' : assignments'[a].state # "over" => a = book'.asg
          /\ AllSettled
    <3>1. book' = [NoEntry EXCEPT !.asg = n + 1]
      BY <1>5, <2>3 DEF BookKept
    <3>2. book.asg = 0 \/ (book.asg # 0 /\ assignments[book.asg].state = "over")
      BY DEF Fires, InFlight, WInv, OnlyNewest
    <3>3. \A a \in DOMAIN assignments : assignments[a].state = "over"
      BY <1>6, <2>3, <3>2 DEF WInv, OnlyNewest
    <3>4. \A a \in DOMAIN assignments' : assignments'[a].state # "over" => a = book'.asg
      BY <1>3, <1>6, <1>7, <3>1, <3>3
    <3>5. AllSettled
      BY <2>3, <3>3 DEF WInv, OnlyNewest
    <3> QED BY <3>4, <3>5
  <2>4. BookKept => \A i \in DOMAIN runs : i < Len(runs) => Over(runs[i])
    BY DEF WInv, OnlyNewest
  <2> QED BY <2>1, <2>2, <2>3, <2>4 DEF OnlyNewest
<1>14. Remembered'
  <2>1. MemosKept' = MemosKept
    BY <1>1, <1>2 DEF MemosKept
  <2>2. ASSUME MemosKept, runs = <<>>
        PROVE  \A a \in DOMAIN assignments' : assignments'[a].state = "queued"
    BY <1>3, <1>5, <1>6, <2>2 DEF WInv, Remembered
  <2>3. ASSUME MemosKept, ~entered'
        PROVE  Known' /\ lastCards' = column' /\ (HasCard' => poll'.card = column')
    <3>1. CASE book' = [NoEntry EXCEPT !.asg = n + 1] /\ entered' = (column # poll.card)
      <4>1. column = poll.card
        BY <2>3, <3>1
      <4>2. InFlight(book')
        BY <1>6, <1>7, <3>1 DEF InFlight
      <4> QED BY <1>1, <4>1, <4>2 DEF Known
    <3>2. CASE UNCHANGED <<book, entered>>
      <4>1. poll.card = column /\ Known
        BY <1>1, <2>3, <3>2 DEF WInv, Remembered, HasCard
      <4> QED BY <1>1, <3>2, <4>1 DEF Known
    <3> QED BY <1>5, <3>1, <3>2
  <2>4. MemosKept => \A i \in DOMAIN runs : runs[i].phase # "gone"
    BY DEF WInv, Remembered
  <2> QED BY <1>1, <2>1, <2>2, <2>3, <2>4 DEF Remembered
<1>15. Commented'
  <2>1. poll.step = "fire" => Indexed
    BY DEF Indexed
  <2>2. ~(poll'.step \in {"list", "reconcile"})
    BY <1>1 DEF BeforeFire
  <2> QED BY <1>1, <1>2, <2>1, <2>2 DEF WInv, Commented, Plain, MemosKept, BookKept, CastleLane, On
<1> QED BY <1>10, <1>11, <1>12, <1>13, <1>14, <1>15 DEF WInv

LEMMA FireStep ==
  ASSUME WInv, FireCard, UNCHANGED setting
  PROVE  WInv'
<1>1. armed \in BOOLEAN /\ entered \in BOOLEAN /\ poll.card \in Column /\ RouteClass(poll.card) \in Class
  BY DEF WInv, WatcherType, FireCard, IndexTells, HasCard, RouteClass, Class
<1>2. CASE ~Fires /\ UNCHANGED <<runs, assignments, book, budgets, entered, armed>>
  BY <1>2, NoFireStep DEF NoFault
<1>3. CASE Fires /\ CreateRun
  <2>1. ~CastleLane /\ Len(runs) < scene.runs /\ UNCHANGED <<assignments, book>>
    BY <1>3 DEF CreateRun
  <2>2. CASE Fault /\ UNCHANGED <<runs, entered, armed>>
    BY <2>1, <2>2, NoFireStep
  <2>3. CASE /\ NoFault
             /\ runs' = Append(runs, [phase |-> "", verdict |-> "", class |-> RouteClass(poll.card)])
             /\ entered' = (column # poll.card) /\ armed' = FALSE
    <3>1. RunBorn
      BY <1>1, <2>3 DEF RunBorn, Fresh
    <3> QED BY <1>3, <2>1, <2>3, <3>1, CreateStep
  <2> QED BY <1>3, <2>2, <2>3 DEF CreateRun
<1>4. CASE Fires /\ SubmitAssignment
  <2>1. CastleLane /\ Len(assignments) < scene.runs /\ UNCHANGED runs
    BY <1>4 DEF SubmitAssignment
  <2>2. CASE Fault /\ UNCHANGED <<assignments, book, entered, armed>>
    BY <2>1, <2>2, NoFireStep
  <2>3. CASE /\ NoFault
             /\ assignments' = Append(assignments, [state |-> "queued", class |-> RouteClass(poll.card)])
             /\ book' = [NoEntry EXCEPT !.asg = Len(assignments')]
             /\ entered' = (column # poll.card) /\ armed' = FALSE
    <3>1. AsgBorn
      BY <1>1, <2>3 DEF AsgBorn
    <3>2. armed' \in BOOLEAN /\ entered' \in BOOLEAN
      BY <2>3
    <3> QED BY <1>4, <2>1, <2>3, <3>1, <3>2, SubmitStep
  <2>4. CASE /\ On("lostAck") /\ Fault
             /\ assignments' = Append(assignments, [state |-> "queued", class |-> RouteClass(poll.card)])
             /\ UNCHANGED <<book, entered, armed>>
    <3>1. AsgBorn
      BY <1>1, <2>4 DEF AsgBorn
    <3>2. armed' \in BOOLEAN /\ entered' \in BOOLEAN
      BY <1>1, <2>4
    <3> QED BY <1>4, <2>1, <2>4, <3>1, <3>2, SubmitStep
  <2> QED BY <1>4, <2>2, <2>3, <2>4 DEF SubmitAssignment
<1> QED BY <1>2, <1>3, <1>4 DEF FireCard

(* The mirror forgets a submission only when it is over and a run is seen.  *)
LEMMA MirrorStep ==
  ASSUME WInv, Mirror, UNCHANGED setting
  PROVE  WInv'
<1>1. /\ poll.step = "mirror" /\ poll' = IdlePoll
      /\ UNCHANGED <<lane, scene, column, tagged, runs, assignments, lastRuns, lastCards,
                     comments, entered, armed>>
  BY DEF Mirror, setting, board, history
<1>2. IdlePoll \in PollRecord /\ IdlePoll.step = "idle"
  BY EmptySummary, RunsAreBounded DEF WInv, IdlePoll, PollRecord, PollStep
<1>3. NoFault \/ Fault
  BY DEF Mirror
<1>4. /\ moves' \in 0 .. scene'.moves /\ faults' \in 0 .. scene'.faults /\ restarts' \in 0 .. scene'.restarts
      /\ UNCHANGED <<moves, restarts>>
  BY <1>1, <1>3, BudgetsHold DEF WInv
<1>5. /\ book \in [asg : 0 .. Len(assignments), terminal : BOOLEAN, decided : BOOLEAN]
      /\ Len(assignments) \in Nat
  BY DEF WInv, WatcherType
<1>6. book.terminal => book.asg # 0 /\ assignments[book.asg].state = "over"
  BY DEF WInv, OnlyNewest
<1>7. PICK over : over = (book.asg # 0 /\ assignments[book.asg].state = "over")
  OBVIOUS
<1>8. \/ book' = book
      \/ book' = NoEntry /\ (book.asg = 0 \/ (book.terminal /\ poll.index.anyRun))
      \/ \E d \in BOOLEAN : book' = [book EXCEPT !.terminal = (@ \/ over), !.decided = d]
  <2>1. CASE UNCHANGED book
    BY <2>1
  <2>2. CASE ~UNCHANGED book /\ (book.asg = 0 \/ (book.terminal /\ book.decided /\ poll.index.anyRun))
    BY <2>2 DEF Mirror
  <2>3. CASE ~UNCHANGED book /\ ~(book.asg = 0 \/ (book.terminal /\ book.decided /\ poll.index.anyRun))
    <3>1. PICK e : e = [book EXCEPT !.terminal = @ \/ over]
      OBVIOUS
    <3>2. book' = [e EXCEPT !.decided = @ \/ (e.terminal /\ poll.index.anyRun)]
      BY <1>7, <2>3, <3>1 DEF Mirror
    <3>3. PICK d : d = (e.decided \/ (e.terminal /\ poll.index.anyRun))
      OBVIOUS
    <3>4. d \in BOOLEAN
      BY <3>3
    <3>5. book' = [e EXCEPT !.decided = d]
      BY <3>2, <3>3
    <3>6. [e EXCEPT !.decided = d] = [book EXCEPT !.terminal = (@ \/ over), !.decided = d]
      BY <1>5, <3>1
    <3> QED BY <3>4, <3>5, <3>6
  <2> QED BY <2>1, <2>2, <2>3
<1>9. NoEntry \in [asg : 0 .. Len(assignments), terminal : BOOLEAN, decided : BOOLEAN]
      /\ NoEntry.asg = 0 /\ NoEntry.terminal = FALSE
  BY <1>5 DEF NoEntry
<1>10. /\ book' \in [asg : 0 .. Len(assignments), terminal : BOOLEAN, decided : BOOLEAN]
       /\ \/ book'.asg = book.asg /\ (book'.terminal => book.terminal \/ over)
          \/ book'.asg = 0 /\ ~book'.terminal /\ (book.asg = 0 \/ (book.terminal /\ poll.index.anyRun))
  <2>1. CASE book' = book
    BY <1>5, <2>1
  <2>2. CASE book' = NoEntry /\ (book.asg = 0 \/ (book.terminal /\ poll.index.anyRun))
    BY <1>9, <2>2
  <2>3. ASSUME NEW d \in BOOLEAN, book' = [book EXCEPT !.terminal = (@ \/ over), !.decided = d]
        PROVE  /\ book' \in [asg : 0 .. Len(assignments), terminal : BOOLEAN, decided : BOOLEAN]
               /\ book'.asg = book.asg /\ (book'.terminal => book.terminal \/ over)
    <3>1. PICK t \in BOOLEAN : t = (book.terminal \/ over)
      OBVIOUS
    <3>2. book' = [book EXCEPT !.terminal = t, !.decided = d]
      BY <2>3, <3>1
    <3>3. book' \in [asg : 0 .. Len(assignments), terminal : BOOLEAN, decided : BOOLEAN]
          /\ book'.asg = book.asg /\ book'.terminal = t
      BY <1>5, <3>2
    <3> QED BY <3>1, <3>3
  <2> QED BY <1>8, <2>1, <2>2, <2>3
<1>11. WatcherType'
  BY <1>1, <1>2, <1>4, <1>10 DEF WInv, WatcherType
<1>12. Bounded'
  BY <1>1 DEF WInv, Bounded, Taken, CastleLane
<1>13. IndexTells'
  BY <1>1, <1>2 DEF IndexTells, Indexed, HasCard, BeforeFire
<1>14. OnlyNewest'
  <2>1. BookKept' = BookKept /\ AllSettled' = AllSettled
    BY <1>1, <1>4 DEF BookKept, CastleLane, On, AllSettled
  <2>2. book'.terminal => book'.asg # 0 /\ assignments[book'.asg].state = "over"
    BY <1>6, <1>7, <1>10
  <2>3. ASSUME BookKept, CastleLane, NEW a \in DOMAIN assignments, assignments[a].state # "over"
        PROVE  a = book'.asg
    BY <1>6, <1>10, <2>3 DEF WInv, OnlyNewest
  <2> QED BY <1>1, <2>1, <2>2, <2>3 DEF WInv, OnlyNewest, CastleLane
<1>15. Remembered'
  <2>1. MemosKept' = MemosKept
    BY <1>1, <1>4 DEF MemosKept
  <2>2. ASSUME MemosKept, ~entered
        PROVE  runs # <<>> \/ InFlight(book')
    <3>1. CASE runs # <<>>
      BY <3>1
    <3>2. CASE runs = <<>>
      <4>1. InFlight(book) /\ \A a \in DOMAIN assignments : assignments[a].state = "queued"
        BY <2>2, <3>2 DEF WInv, Remembered, Known
      <4>2. book.asg \in DOMAIN assignments
        BY <1>5, <4>1 DEF InFlight, WInv, WatcherType
      <4>3. over = FALSE
        BY <1>7, <4>1, <4>2
      <4> QED BY <1>10, <4>1, <4>3 DEF InFlight
    <3> QED BY <3>1, <3>2
  <2> QED BY <1>1, <1>2, <2>1, <2>2 DEF WInv, Remembered, Known, HasCard, BeforeFire
<1>16. Commented'
  BY <1>1, <1>2, <1>4 DEF WInv, Commented, Plain, MemosKept, BookKept, CastleLane, On, Indexed
<1> QED BY <1>11, <1>12, <1>13, <1>14, <1>15, <1>16 DEF WInv

LEMMA RestartStep ==
  ASSUME WInv, RestartWatcher
  PROVE  WInv'
<1>1. /\ restarts < scene.restarts /\ restarts' = restarts + 1 /\ poll' = IdlePoll
      /\ lastRuns' = NoSummary /\ lastCards' = NoColumn /\ book' = NoEntry
      /\ UNCHANGED <<lane, scene, column, tagged, runs, assignments, moves, faults, comments, entered, armed>>
  BY DEF RestartWatcher, setting, board, history
<1>2. IdlePoll \in PollRecord /\ IdlePoll.step = "idle" /\ NoSummary \in Summary
  BY EmptySummary, RunsAreBounded DEF WInv, IdlePoll, PollRecord, PollStep
<1>3. NoEntry \in [asg : 0 .. Len(assignments), terminal : BOOLEAN, decided : BOOLEAN]
      /\ NoEntry.terminal = FALSE
  <2>1. Len(assignments) \in Nat
    BY DEF WInv, WatcherType
  <2> QED BY <2>1 DEF NoEntry
<1>4. restarts' \in 0 .. scene.restarts /\ restarts' # 0
  <2>1. scene.restarts \in Nat /\ restarts \in 0 .. scene.restarts
    BY WatcherAssumption DEF WatcherAssumption, WInv, WatcherType, Scene
  <2> QED BY <1>1, <2>1
<1>5. WatcherType'
  BY <1>1, <1>2, <1>3, <1>4 DEF WInv, WatcherType
<1>6. Bounded'
  BY <1>1 DEF WInv, Bounded, Taken, CastleLane
<1>7. IndexTells'
  BY <1>1, <1>2 DEF IndexTells, Indexed, HasCard, BeforeFire
<1>8. OnlyNewest'
  <2>1. BookKept' => ~CastleLane /\ BookKept
    BY <1>1, <1>4 DEF BookKept, CastleLane
  <2> QED BY <1>1, <1>3, <2>1 DEF WInv, OnlyNewest, CastleLane
<1>9. ~MemosKept'
  BY <1>4 DEF MemosKept
<1>10. Remembered' /\ Commented'
  BY <1>9 DEF Remembered, Commented, Plain
<1> QED BY <1>5, <1>6, <1>7, <1>8, <1>10 DEF WInv

LEMMA MoveStep ==
  ASSUME WInv, TagCard \/ \E to \in Column : MoveByOthers(to)
  PROVE  WInv'
<1>1. /\ moves < scene.moves /\ moves' = moves + 1 /\ armed' \in BOOLEAN
      /\ entered' = TRUE \/ UNCHANGED <<entered, column>>
      /\ column' \in Column /\ tagged' \in BOOLEAN /\ entered' \in BOOLEAN
      /\ UNCHANGED <<lane, scene, runs, assignments, lastRuns, lastCards, book, poll, faults, restarts, comments>>
  <2>0. column \in Column /\ tagged \in BOOLEAN /\ entered \in BOOLEAN
    BY DEF WInv, WatcherType
  <2>1. CASE TagCard
    BY <2>0, <2>1 DEF TagCard, Moving, setting, memos
  <2>2. CASE \E to \in Column : MoveByOthers(to)
    <3>1. PICK to \in Column : MoveByOthers(to)
      BY <2>2
    <3>2. armed' \in BOOLEAN
      BY <3>1 DEF MoveByOthers
    <3> QED BY <2>0, <3>1, <3>2 DEF MoveByOthers, Moving, setting, memos
  <2> QED BY <2>1, <2>2
<1>2. moves' \in 0 .. scene.moves
  <2>1. scene.moves \in Nat /\ moves \in 0 .. scene.moves
    BY WatcherAssumption DEF WatcherAssumption, WInv, WatcherType, Scene
  <2> QED BY <1>1, <2>1
<1>3. WatcherType'
  BY <1>1, <1>2 DEF WInv, WatcherType
<1>4. Bounded'
  BY <1>1 DEF WInv, Bounded, Taken, CastleLane
<1>5. IndexTells'
  BY <1>1 DEF WInv, IndexTells, Indexed, HasCard, BeforeFire, CastleLane, AllSettled, Kept
<1>6. OnlyNewest'
  BY <1>1 DEF WInv, OnlyNewest, BookKept, CastleLane, AllSettled, On
<1>7. Remembered'
  BY <1>1 DEF WInv, Remembered, MemosKept, Known, InFlight, HasCard, BeforeFire
<1>8. Commented'
  BY <1>1 DEF WInv, Commented, Plain, MemosKept, BookKept, CastleLane, On, Indexed
<1> QED BY <1>3, <1>4, <1>5, <1>6, <1>7, <1>8 DEF WInv

-----------------------------------------------------------------------------
(* Castle and the runs.                                                    *)
LEMMA AssignmentTurns ==
  ASSUME WatcherType, NEW a \in DOMAIN assignments, NEW s \in {"queued", "bound", "over"},
         assignments' = [assignments EXCEPT ![a].state = s]
  PROVE  /\ assignments' \in Seq(AsgRecord) /\ Len(assignments') = Len(assignments)
         /\ DOMAIN assignments' = DOMAIN assignments
         /\ assignments'[a].state = s
         /\ \A b \in DOMAIN assignments : b # a => assignments'[b] = assignments[b]
<1>1. assignments \in Seq(AsgRecord) /\ assignments[a] \in AsgRecord
  BY DEF WatcherType
<1>2. PICK r \in AsgRecord : r.state = s /\ assignments' = [assignments EXCEPT ![a] = r]
  <2>1. [assignments[a] EXCEPT !.state = s] \in AsgRecord
        /\ [assignments[a] EXCEPT !.state = s].state = s
    BY <1>1 DEF AsgRecord
  <2> QED BY <2>1
<1> QED BY <1>1, <1>2

LEMMA AttachStep ==
  ASSUME WInv, AttachRun
  PROVE  WInv'
<1>1. PICK a \in DOMAIN assignments :
        /\ assignments[a].state = "queued"
        /\ assignments' = [assignments EXCEPT ![a].state = "bound"]
        /\ runs' = Append(runs, [phase |-> "", verdict |-> "", class |-> assignments[a].class])
  BY DEF AttachRun
<1>2. UNCHANGED <<lane, scene, column, tagged, lastRuns, lastCards, book, poll,
                  moves, faults, restarts, comments, entered, armed>>
  BY DEF AttachRun, setting, board, memos, budgets, history
<1>3. /\ assignments' \in Seq(AsgRecord) /\ Len(assignments') = Len(assignments)
      /\ DOMAIN assignments' = DOMAIN assignments
      /\ assignments'[a].state = "bound"
      /\ \A b \in DOMAIN assignments : b # a => assignments'[b] = assignments[b]
  BY <1>1, AssignmentTurns DEF WInv
<1>4. RunBorn
  <2>1. assignments[a] \in AsgRecord
    BY DEF WInv, WatcherType
  <2> QED BY <1>1, <2>1 DEF RunBorn, Fresh, AsgRecord
<1>5. /\ runs' \in Seq(RunRecord) /\ Len(runs') = Len(runs) + 1 /\ Len(runs) \in Nat
      /\ DOMAIN runs = 1 .. Len(runs) /\ DOMAIN runs' = 1 .. Len(runs) + 1
      /\ \A i \in DOMAIN runs : i \in DOMAIN runs' /\ i < Len(runs') /\ runs'[i] = runs[i]
      /\ runs'[Len(runs) + 1].phase = "" /\ runs' # <<>>
  BY <1>4, BornRun DEF WInv
<1>6. \A ph : (Tells(ph, runs) => Tells(ph, runs')) /\ (Reads(ph, runs) => Reads(ph, runs'))
  BY <1>4, GrownRunsAreRead DEF WInv
<1>7. CastleLane
  BY DEF WInv, Bounded
<1>8. WatcherType'
  BY <1>2, <1>3, <1>5 DEF WInv, WatcherType
<1>9. Bounded'
  <2>1. IsFiniteSet(Taken) /\ Cardinality(Taken) \in Nat
    BY TakenIsBounded DEF WInv
  <2>2. a \notin Taken /\ Taken' = Taken \cup {a}
    BY <1>1, <1>3 DEF Taken
  <2>3. Cardinality(Taken') = Cardinality(Taken) + 1
    BY <2>1, <2>2, FS_AddElement
  <2>4. Len(runs) <= Cardinality(Taken)
    BY <1>7 DEF WInv, Bounded
  <2>5. Len(runs') <= Cardinality(Taken')
    <3>1. PICK n \in Nat : n = Len(runs) /\ Len(runs') = n + 1
      BY <1>5
    <3>2. PICK k \in Nat : k = Cardinality(Taken) /\ Cardinality(Taken') = k + 1
      BY <2>1, <2>3
    <3>3. n <= k => n + 1 <= k + 1
      OBVIOUS
    <3> QED BY <2>4, <3>1, <3>2, <3>3
  <2> QED BY <1>2, <1>3, <1>7, <2>5 DEF WInv, Bounded, CastleLane
<1>10. IndexTells'
  BY <1>2, <1>6, <1>7 DEF WInv, IndexTells, Indexed, HasCard, CastleLane
<1>11. OnlyNewest'
  <2>1. BookKept' = BookKept
    BY <1>2 DEF BookKept, CastleLane, On
  <2>2. ASSUME BookKept
        PROVE  /\ AllSettled
               /\ \A b \in DOMAIN assignments : assignments[b].state # "over" => b = book.asg
    <3>1. \A b \in DOMAIN assignments : assignments[b].state # "over" => b = book.asg
      BY <1>7, <2>2 DEF WInv, OnlyNewest
    <3>2. ~\E b \in DOMAIN assignments : assignments[b].state = "bound"
      BY <1>1, <3>1
    <3> QED BY <1>7, <2>2, <3>1, <3>2 DEF WInv, OnlyNewest
  <2>3. \A i \in DOMAIN runs' : i < Len(runs') => i \in DOMAIN runs
    BY <1>4, BornRun DEF WInv
  <2>4. ASSUME BookKept, NEW i \in DOMAIN runs', i < Len(runs')
        PROVE  Over(runs'[i])
    BY <1>5, <2>2, <2>3, <2>4 DEF AllSettled, Over
  <2>5. ASSUME BookKept, NEW b \in DOMAIN assignments, assignments'[b].state # "over"
        PROVE  b = book.asg
    BY <1>1, <1>3, <2>2, <2>5
  <2>6. book.terminal => book.asg # 0 /\ assignments'[book.asg].state = "over"
    <3>1. book.terminal => book.asg # 0 /\ assignments[book.asg].state = "over"
      BY DEF WInv, OnlyNewest
    <3>2. book.asg # 0 => book.asg \in DOMAIN assignments
      BY DEF WInv, WatcherType
    <3> QED BY <1>1, <1>3, <3>1, <3>2
  <2> QED BY <1>2, <1>3, <2>1, <2>4, <2>5, <2>6 DEF OnlyNewest
<1>12. Remembered'
  <2>1. MemosKept' = MemosKept
    BY <1>2 DEF MemosKept
  <2>2. \A i \in DOMAIN runs' : i \in DOMAIN runs \/ i = Len(runs) + 1
    BY <1>4, <1>5, BornRun DEF WInv
  <2>3. MemosKept' => \A i \in DOMAIN runs' : runs'[i].phase # "gone"
    BY <1>5, <2>1, <2>2 DEF WInv, Remembered
  <2> QED BY <1>2, <1>5, <2>1, <2>3 DEF WInv, Remembered, Known, HasCard, BeforeFire, InFlight
<1>13. Commented'
  <2>1. Plain' = Plain
    BY <1>2 DEF Plain, MemosKept, BookKept, CastleLane, On
  <2>2. lastRuns.run <= Len(runs) => lastRuns.run <= Len(runs')
    <3>1. lastRuns.run \in 0 .. MaxRuns /\ MaxRuns \in Nat
      BY RunsAreBounded DEF WInv, WatcherType, Summary
    <3>2. lastRuns.run \in Nat
      BY <3>1
    <3> QED BY <1>4, <3>2, BornRun DEF WInv
  <2> QED BY <1>2, <1>6, <2>1, <2>2 DEF WInv, Commented, Indexed
<1> QED BY <1>8, <1>9, <1>10, <1>11, <1>12, <1>13 DEF WInv

LEMMA CloseStep ==
  ASSUME WInv, CloseAssignment
  PROVE  WInv'
<1>1. PICK a \in DOMAIN assignments :
        /\ \/ assignments[a].state = "bound" /\ \A i \in DOMAIN runs : Settled(runs[i])
           \/ On("abandon") /\ assignments[a].state = "queued"
        /\ assignments' = [assignments EXCEPT ![a].state = "over"]
  BY DEF CloseAssignment
<1>2. UNCHANGED <<lane, scene, column, tagged, runs, lastRuns, lastCards, book, poll,
                  moves, faults, restarts, comments, entered, armed>>
  BY DEF CloseAssignment, setting, board, memos, budgets, history
<1>3. /\ assignments' \in Seq(AsgRecord) /\ Len(assignments') = Len(assignments)
      /\ DOMAIN assignments' = DOMAIN assignments
      /\ assignments'[a].state = "over"
      /\ \A b \in DOMAIN assignments : b # a => assignments'[b] = assignments[b]
  BY <1>1, AssignmentTurns DEF WInv
<1>4. CastleLane
  BY DEF WInv, Bounded
<1>5. WatcherType'
  BY <1>2, <1>3 DEF WInv, WatcherType
<1>6. Bounded'
  <2>1. IsFiniteSet(Taken) /\ Cardinality(Taken) \in Nat /\ IsFiniteSet(Taken') /\ Cardinality(Taken') \in Nat
    <3>1. IsFiniteSet(Taken) /\ Cardinality(Taken) \in Nat
      BY TakenIsBounded DEF WInv
    <3>2. Taken' = Taken \cup {a}
      BY <1>1, <1>3 DEF Taken
    <3> QED BY <3>1, <3>2, FS_AddElement, FS_CardinalityType
  <2>2. Taken \subseteq Taken'
    BY <1>1, <1>3 DEF Taken
  <2>3. Cardinality(Taken) <= Cardinality(Taken')
    BY <2>1, <2>2, FS_Subset
  <2>4. Len(runs) <= Cardinality(Taken) /\ Len(runs) \in Nat
    BY <1>4, RunsAreBounded DEF WInv, Bounded
  <2>5. Len(runs) <= Cardinality(Taken')
    BY <2>1, <2>3, <2>4
  <2> QED BY <1>2, <1>3, <1>4, <2>5 DEF WInv, Bounded, CastleLane
<1>7. IndexTells'
  BY <1>2, <1>4 DEF WInv, IndexTells, Indexed, HasCard, CastleLane
<1>8. OnlyNewest'
  <2>1. BookKept' = BookKept /\ AllSettled' = AllSettled
    BY <1>2 DEF BookKept, CastleLane, On, AllSettled
  <2>2. ASSUME BookKept
        PROVE  AllSettled
    <3>1. CASE assignments[a].state = "bound" /\ \A i \in DOMAIN runs : Settled(runs[i])
      BY <3>1 DEF AllSettled
    <3>2. CASE assignments[a].state = "queued"
      <4>1. \A b \in DOMAIN assignments : assignments[b].state = "bound" => b = a
        BY <1>4, <2>2, <3>2 DEF WInv, OnlyNewest
      <4> QED BY <1>4, <2>2, <3>2, <4>1 DEF WInv, OnlyNewest
    <3> QED BY <1>1, <3>1, <3>2
  <2>3. ASSUME BookKept, NEW b \in DOMAIN assignments, assignments'[b].state # "over"
        PROVE  b = book.asg
    BY <1>3, <1>4, <2>3 DEF WInv, OnlyNewest
  <2>4. book.terminal => book.asg # 0 /\ assignments'[book.asg].state = "over"
    <3>1. book.terminal => book.asg # 0 /\ assignments[book.asg].state = "over"
      BY DEF WInv, OnlyNewest
    <3>2. book.asg # 0 => book.asg \in DOMAIN assignments
      BY DEF WInv, WatcherType
    <3> QED BY <1>3, <3>1, <3>2
  <2>5. BookKept => \A i \in DOMAIN runs : i < Len(runs) => Over(runs[i])
    BY DEF WInv, OnlyNewest
  <2> QED BY <1>2, <1>3, <2>1, <2>2, <2>3, <2>4, <2>5 DEF OnlyNewest
<1>9. Remembered'
  <2>1. MemosKept' = MemosKept
    BY <1>2 DEF MemosKept
  <2>2. ASSUME MemosKept
        PROVE  runs # <<>>
    <3>1. assignments[a].state = "bound"
      BY <1>1, <2>2 DEF MemosKept, On
    <3> QED BY <2>2, <3>1 DEF WInv, Remembered
  <2> QED BY <1>2, <2>1, <2>2 DEF WInv, Remembered, Known, HasCard, BeforeFire, InFlight
<1>10. Commented'
  BY <1>2 DEF WInv, Commented, Plain, MemosKept, BookKept, CastleLane, On, Indexed
<1> QED BY <1>5, <1>6, <1>7, <1>8, <1>9, <1>10 DEF WInv

LEMMA AgeStep ==
  ASSUME WInv, RunsAge
  PROVE  WInv'
<1>1. /\ UNCHANGED <<lane, scene, column, tagged, assignments, lastRuns, lastCards, book, poll,
                     moves, faults, restarts, comments, entered, armed>>
      /\ runs' \in Seq(RunRecord) /\ Len(runs') = Len(runs) /\ DOMAIN runs' = DOMAIN runs
      /\ \A i \in DOMAIN runs : Ages(runs[i], runs'[i])
  BY DEF RunsAge, setting, board, memos, budgets, history
<1>2. \A i \in DOMAIN runs :
        /\ runs'[i].class = runs[i].class
        /\ Over(runs[i]) => Over(runs'[i])
        /\ runs[i].phase = "gone" => runs'[i].phase = "gone"
        /\ runs'[i].phase = "gone" => runs[i].phase = "gone" \/ On("retention")
        /\ runs[i].phase \in {"Succeeded", "gone"} /\ runs[i].verdict = "handler_complete"
             => runs'[i].phase \in {"Succeeded", "gone"} /\ runs'[i].verdict = "handler_complete"
        /\ Settled(runs[i]) /\ ~On("lateVerdict") /\ ~On("retention") => runs'[i] = runs[i]
  BY <1>1 DEF Ages
<1>3. AllSettled => AllSettled'
  BY <1>1, <1>2 DEF AllSettled, Over
<1>4. \A ph : Tells(ph, runs) => Tells(ph, runs')
  <2> SUFFICES ASSUME NEW ph, Tells(ph, runs) PROVE Tells(ph, runs')
    OBVIOUS
  <2>1. CASE ~ph.anyRun
    BY <2>1 DEF Tells
  <2>2. CASE ph.anyRun
    BY <1>1, <1>2, <2>2 DEF Tells
  <2> QED BY <2>1, <2>2
<1>5. WatcherType'
  BY <1>1 DEF WInv, WatcherType
<1>6. Bounded'
  BY <1>1 DEF WInv, Bounded, Taken, CastleLane
<1>7. IndexTells'
  <2>1. Kept' \subseteq Kept
    BY <1>1, <1>2 DEF Kept
  <2> QED BY <1>1, <1>3, <1>4, <2>1 DEF WInv, IndexTells, Indexed, HasCard, BeforeFire, CastleLane
<1>8. OnlyNewest'
  <2>1. BookKept' = BookKept
    BY <1>1 DEF BookKept, CastleLane, On
  <2> QED BY <1>1, <1>2, <1>3, <2>1 DEF WInv, OnlyNewest, CastleLane
<1>9. Remembered'
  <2>1. MemosKept' = MemosKept
    BY <1>1 DEF MemosKept
  <2>2. MemosKept => ~On("retention")
    BY DEF MemosKept, On
  <2>3. runs = <<>> <=> runs' = <<>>
    <3>1. runs \in Seq(RunRecord)
      BY DEF WInv, WatcherType
    <3> QED BY <1>1, <3>1, EmptySeq
  <2>4. MemosKept => \A i \in DOMAIN runs' : runs'[i].phase # "gone"
    BY <1>1, <1>2, <2>2 DEF WInv, Remembered
  <2> QED BY <1>1, <2>1, <2>3, <2>4 DEF WInv, Remembered, Known, HasCard, BeforeFire, InFlight
<1>10. Commented'
  <2> SUFFICES ASSUME Plain' PROVE Commented'
    BY DEF Commented
  <2>1. Plain /\ ~On("lateVerdict") /\ ~On("retention")
    BY <1>1 DEF Plain, MemosKept, BookKept, CastleLane, On
  <2>2. ASSUME NEW ph, Reads(ph, runs) PROVE Reads(ph, runs')
    <3>1. CASE ~ph.anyRun
      BY <3>1 DEF Reads
    <3>2. CASE ph.anyRun /\ Settled(ph)
      <4>1. ph.run \in DOMAIN runs /\ Settled(runs[ph.run])
        BY <2>2, <3>2 DEF Reads, Settled
      <4> QED BY <1>1, <1>2, <2>1, <2>2, <3>2, <4>1 DEF Reads
    <3>3. CASE ph.anyRun /\ ~Settled(ph)
      BY <1>1, <1>2, <2>2, <3>3 DEF Reads
    <3> QED BY <3>1, <3>2, <3>3
  <2> QED BY <1>1, <2>1, <2>2 DEF WInv, Commented, Indexed
<1> QED BY <1>5, <1>6, <1>7, <1>8, <1>9, <1>10 DEF WInv

LEMMA WatcherStep == WInv /\ [Next]_vars => WInv'
<1> SUFFICES ASSUME WInv, [Next]_vars PROVE WInv'
  OBVIOUS
<1>1. CASE Poll
  <2>1. UNCHANGED setting
    BY <1>1 DEF Poll
  <2> QED BY <1>1, <2>1, ListStep, BoardStep, AbortStep, ReconcileStep, PruneStep, FireStep, MirrorStep DEF Poll
<1>2. CASE RestartWatcher
  BY <1>2, RestartStep
<1>3. CASE Others
  BY <1>3, MoveStep, AttachStep, CloseStep, RunsAgeSteps, AgeStep DEF Others, WInv
<1>4. CASE UNCHANGED vars
  <2>1. UNCHANGED <<lane, scene, column, tagged, runs, assignments, lastRuns, lastCards, book, poll,
                    moves, faults, restarts, comments, entered, armed>>
    BY <1>4 DEF vars, setting, board, memos, budgets, history
  <2>2. WatcherType' /\ Bounded' /\ IndexTells'
    BY <2>1 DEF WInv, WatcherType, Bounded, Taken, CastleLane, IndexTells, Indexed, HasCard, BeforeFire, AllSettled, Kept
  <2>3. OnlyNewest' /\ Remembered'
    BY <2>1 DEF WInv, OnlyNewest, BookKept, CastleLane, AllSettled, On, Remembered, MemosKept, Known, InFlight,
                HasCard, BeforeFire
  <2>4. Commented'
    BY <2>1 DEF WInv, Commented, Plain, MemosKept, BookKept, CastleLane, On, Indexed
  <2> QED BY <2>2, <2>3, <2>4 DEF WInv
<1> QED BY <1>1, <1>2, <1>3, <1>4 DEF Next

LEMMA WatcherAlways == Spec => []WInv
<1> QED BY WatcherInit, WatcherStep, PTL DEF Spec

-----------------------------------------------------------------------------
LEMMA BelowOrLast == \A n \in Nat : \A k \in 1 .. n : k < n \/ k = n
  OBVIOUS

LEMMA InvFollows == WInv => Inv
<1> SUFFICES ASSUME WInv PROVE Inv
  OBVIOUS
<1>1. TypeOK
  <2>1. Len(runs) <= scene.runs
    BY RunsAreBounded DEF WInv
  <2>2. DOMAIN lastRuns = DOMAIN NoSummary /\ lastRuns.run \in 0 .. MaxRuns
    BY DEF WInv, WatcherType, Summary, NoSummary
  <2>3. poll.step \in {"idle", "list", "reconcile", "prune", "fire", "mirror"}
    BY DEF WInv, WatcherType, PollRecord, PollStep
  <2> QED BY <2>1, <2>2, <2>3 DEF TypeOK, WInv, WatcherType, AsgRecord
<1>2. OneRunInFlight
  <2> SUFFICES ASSUME BookKept, NEW i \in DOMAIN runs, NEW j \in DOMAIN runs,
                      runs[i].phase \in {"", "Running"}, runs[j].phase \in {"", "Running"}
               PROVE  i = j
    BY DEF OneRunInFlight
  <2>1. \A k \in DOMAIN runs : k < Len(runs) => Over(runs[k])
    BY DEF WInv, OnlyNewest
  <2>2. ~Over(runs[i]) /\ ~Over(runs[j])
    BY DEF Over, Settled
  <2>3. PICK n \in Nat : n = Len(runs) /\ DOMAIN runs = 1 .. n
    BY RunsAreBounded DEF WInv
  <2>4. \A k \in 1 .. n : k < n \/ k = n
    BY <2>3, BelowOrLast
  <2>5. i = n /\ j = n
    BY <2>1, <2>2, <2>3, <2>4
  <2> QED BY <2>5
<1>3. OneCommentPerFailure
  BY DEF OneCommentPerFailure, WInv, Commented, Plain
<1> QED BY <1>1, <1>2, <1>3 DEF Inv

(* KB-302: however the board, the runs and castle's assignments move during *)
(* a poll, and whatever calls fail, the watcher keeps its types, never has  *)
(* two runs of a ticket in flight while it keeps its book (the firing gate  *)
(* of Fires over what indexRunPhases listed), and comments a failure once   *)
(* (reconcileTaskColumn's changed-summary rule).                            *)
THEOREM OneRunOneComment == Spec => []Inv
<1> QED BY WatcherAlways, InvFollows, PTL

(* KB-302: while the memos are kept, no CriteriaRun is created and no       *)
(* assignment submitted for a card that has stayed where the last fire      *)
(* found it: the firing loop's lastCards memo is never behind the board.    *)
THEOREM RefireFollowsEntry == Spec => RefireNeedsEntry
<1>1. WInv /\ [Next]_vars => [MemosKept /\ (Fired \/ Submitted) => entered]_vars
  <2> SUFFICES ASSUME WInv, Next, MemosKept, Fired \/ Submitted, ~entered PROVE FALSE
    OBVIOUS
  <2>1. FireCard /\ Fires
    <3>1. Len(runs) \in Nat /\ Len(assignments) \in Nat
      BY DEF WInv, WatcherType
    <3>2. ~(Len(runs) > Len(runs)) /\ ~(Len(assignments) > Len(assignments))
      BY <3>1
    <3>3. CASE Poll
      <4>1. runs' # runs \/ assignments' # assignments
        BY <3>2 DEF Fired, Submitted
      <4>2. FireCard
        BY <3>3, <4>1 DEF Poll, ListRuns, GetAllTasks, AbortPoll, ReconcileTaskColumn, PruneMemos, Mirror
      <4> QED BY <4>1, <4>2 DEF FireCard
    <3>4. CASE RestartWatcher
      BY <3>2, <3>4 DEF RestartWatcher, Fired, Submitted
    <3>5. CASE Others
      <4>1. CASE TagCard \/ \E to \in Column : MoveByOthers(to)
        BY <3>2, <4>1 DEF TagCard, MoveByOthers, Fired, Submitted
      <4>2. CASE AttachRun
        <5>1. PICK a \in DOMAIN assignments : assignments' = [assignments EXCEPT ![a].state = "bound"]
          BY <4>2 DEF AttachRun
        <5>2. Len(assignments') = Len(assignments)
          BY <5>1, AssignmentTurns DEF WInv
        <5>3. CastleLane
          BY <5>1 DEF WInv, Bounded
        <5> QED BY <3>2, <5>2, <5>3 DEF Fired, Submitted
      <4>3. CASE CloseAssignment
        <5>1. PICK a \in DOMAIN assignments : assignments' = [assignments EXCEPT ![a].state = "over"]
          BY <4>3 DEF CloseAssignment
        <5>2. Len(assignments') = Len(assignments)
          BY <5>1, AssignmentTurns DEF WInv
        <5> QED BY <3>2, <4>3, <5>2 DEF Fired, Submitted, CloseAssignment
      <4>4. CASE RunProgress \/ RunAges
        <5>1. Len(runs') = Len(runs) /\ assignments' = assignments
          BY <4>4, RunsAgeSteps DEF WInv, RunsAge
        <5> QED BY <3>2, <5>1 DEF Fired, Submitted
      <4> QED BY <3>5, <4>1, <4>2, <4>3, <4>4 DEF Others
    <3> QED BY <3>3, <3>4, <3>5 DEF Next
  <2>2. poll.step = "fire"
    BY <2>1 DEF FireCard
  <2>3. lastCards = column /\ poll.card = column
    BY <2>2 DEF WInv, Remembered, HasCard
  <2> QED BY <2>1, <2>3 DEF Fires
<1> QED BY <1>1, WatcherAlways, PTL DEF Spec, RefireNeedsEntry

(* KB-50: however old the summary is that reconcileTaskColumn acts on, its  *)
(* move to Done is backed by a verdict that was delivered and stays, of the *)
(* newest run the ticket still has in the legacy lane.                      *)
THEOREM DoneFollowsVerdict == Spec => DoneIsVerified
<1>1. WInv /\ [Next]_vars =>
        [ReconcileTaskColumn /\ column' = "Done" /\ column # "Done" =>
           /\ runs[poll.index.run].phase \in {"Succeeded", "gone"}
           /\ runs[poll.index.run].verdict = "handler_complete"
           /\ CastleLane \/ \A j \in Kept : j <= poll.index.run]_vars
  <2> SUFFICES ASSUME WInv, ReconcileTaskColumn, column' = "Done", column # "Done"
               PROVE  /\ runs[poll.index.run].phase \in {"Succeeded", "gone"}
                      /\ runs[poll.index.run].verdict = "handler_complete"
                      /\ CastleLane \/ \A j \in Kept : j <= poll.index.run
    OBVIOUS
  <2>1. poll.step = "reconcile"
    BY DEF ReconcileTaskColumn
  <2>2. Due(poll.index) /\ Decision(poll.index, poll.card) = "Done" /\ poll.card # "Done"
    BY DEF ReconcileTaskColumn, MoveCard
  <2>3. poll.index.anyRun /\ poll.index.phase = "Succeeded" /\ poll.index.verdict = "handler_complete"
    BY <2>2 DEF Due, Decision
  <2>4. Indexed /\ BeforeFire
    BY <2>1 DEF Indexed, BeforeFire
  <2>5. Tells(poll.index, runs)
    BY <2>4 DEF WInv, IndexTells
  <2>6. CastleLane \/ \A j \in Kept : j <= poll.index.run
    BY <2>4 DEF WInv, IndexTells
  <2> QED BY <2>3, <2>5, <2>6 DEF Tells
<1> QED BY <1>1, WatcherAlways, PTL DEF Spec, DoneIsVerified

=============================================================================
