--------------------------- MODULE KanboardWatcher ---------------------------
(***************************************************************************)
(* The Kanboard watcher (cmd/kanboard-watcher) following one card: the     *)
(* poll indexes the ticket's CriteriaRuns, lists the board, reconciles the *)
(* card's column with the latest run, and fires a new run when the card    *)
(* has entered a trigger column - a CriteriaRun in the legacy lane, an     *)
(* assignment submitted to castle in the castle lane.  Cards share nothing *)
(* but the poll, so one is enough.  People, the workflows and the operator *)
(* act between any two calls of a poll.                                    *)
(***************************************************************************)
EXTENDS Naturals, Sequences

CONSTANTS
  Lanes,         \* the dispatch lanes an instance may be started in
  MaxRuns,       \* bound on the ticket's CriteriaRuns and assignments
  Scenes         \* what an instance lets happen, see Scene: one is chosen

FeatureNames ==
  {"hasty",         \* cards move again before a poll has seen them
   "lateVerdict",   \* the verdict, or castle's outcome, lands on a settled run
   "retention",     \* settled runs age out of the API server
   "lostAck",       \* castle accepts a submission and its answer is lost
   "abandon"}       \* the operator closes an assignment without a CriteriaRun

Scene == [features : SUBSET FeatureNames,
          runs : 1 .. MaxRuns,       \* bound on runs and assignments
          moves : Nat,               \* bound on card moves and tag edits by people and workflows
          faults : Nat,              \* bound on failed calls
          restarts : Nat]            \* bound on watcher restarts

ASSUME WatcherAssumption ==
  /\ Lanes \subseteq {"legacy", "castle"} /\ MaxRuns \in Nat
  /\ Scenes \subseteq Scene

VARIABLES
  lane,          \* the watcher's dispatch lane, fixed when it is deployed
  scene,         \* what may happen, fixed from the start
  column,        \* the card's column on the board
  tagged,        \* the card carries the trigger tag
  runs,          \* the ticket's CriteriaRuns, oldest first
  assignments,   \* castle's assignments, oldest first
  lastRuns,      \* the memo of the last reconciled run summary
  lastCards,     \* the memo of the card's column at the last poll
  book,          \* the castle adapter's entry for the ticket
  poll,          \* the poll in progress: its step, run index and card copy
  moves, faults, restarts,
  comments,      \* history: failure comments posted per run
  entered,       \* history: the card changed columns since a poll last fired it
  armed          \* history: the card was moved to a trigger column, nothing in flight

setting == <<lane, scene>>
board == <<column, tagged>>
memos == <<lastRuns, lastCards, book>>
budgets == <<moves, faults, restarts>>
history == <<comments, entered, armed>>
vars == <<setting, board, runs, assignments, memos, poll, budgets, history>>

Column == {"Backlog", "Ready", "Working", "Review", "Done"}
NoColumn == "none"
Class == {"triage", "dev"}
RunPhase == {"", "Running", "Succeeded", "Failed", "gone"}
Verdict == {"", "handler_complete", "failed"}
RunRecord == [phase : RunPhase, verdict : Verdict, class : Class]
On(f) == f \in scene.features
CastleLane == lane = "castle"
Settled(r) == r.phase \in {"Succeeded", "Failed"}

\* The routes: the class a trigger column fires, other columns match none.
IsTrigger(c) == c \in {"Backlog", "Ready"}
RouteClass(c) == IF c = "Backlog" THEN "triage" ELSE "dev"

-----------------------------------------------------------------------------
Kept == {i \in DOMAIN runs : runs[i].phase # "gone"}
NoSummary == [anyRun |-> FALSE, active |-> FALSE, run |-> 0,
              phase |-> "", verdict |-> "", class |-> "dev"]

\* indexRunPhases: any run in flight, and what the newest one reads.
IndexRunPhases ==
  IF Kept = {} THEN NoSummary
  ELSE LET latest == CHOOSE i \in Kept : \A j \in Kept : j <= i
       IN [anyRun |-> TRUE,
           active |-> \E i \in Kept : ~Settled(runs[i]),
           run |-> latest, phase |-> runs[latest].phase,
           verdict |-> runs[latest].verdict, class |-> runs[latest].class]

\* The column the latest run asks for, or the one the card is in.
PhaseOnly(ph, col) ==                               \* mutant
  IF ph.phase = "Succeeded" /\ ph.class = "dev" THEN "Done"
  ELSE IF ph.phase = "Failed" THEN "Review" ELSE col
Decision(ph, col) ==
  CASE ph.phase = "Failed" -> "Review"
    [] ph.phase = "Succeeded" /\ ph.class = "dev" /\ ph.verdict = "handler_complete" -> "Done"
    [] ph.phase = "Succeeded" /\ ph.class = "dev" /\ ph.verdict = "failed" /\ col = "Done" -> "Review"
    [] OTHER -> col

NoEntry == [asg |-> 0, terminal |-> FALSE, decided |-> FALSE]
InFlight(entry) == entry.asg # 0 /\ ~entry.terminal
AllSettled == \A i \in DOMAIN runs : Settled(runs[i]) \/ runs[i].phase = "gone"

IdlePoll == [step |-> "idle", index |-> NoSummary, card |-> NoColumn, tag |-> FALSE]
At(step) == [poll EXCEPT !.step = step]

Fault == faults < scene.faults /\ faults' = faults + 1 /\ UNCHANGED <<moves, restarts>>
NoFault == UNCHANGED budgets

-----------------------------------------------------------------------------
(* The poll. *)
ListRuns ==
  /\ poll.step = "idle"
  /\ poll' = [At("list") EXCEPT !.index = IndexRunPhases]
  /\ UNCHANGED <<board, runs, assignments, memos, budgets, history>>

GetAllTasks ==
  /\ poll.step = "list"
  /\ poll' = [At("reconcile") EXCEPT !.card = column, !.tag = tagged]
  /\ UNCHANGED <<board, runs, assignments, memos, budgets, history>>

\* A failed listing, or the poll's deadline, ends the poll with an error.
AbortPoll ==
  /\ poll.step = "list"
  /\ Fault
  /\ poll' = IdlePoll
  /\ UNCHANGED <<board, runs, assignments, memos, history>>

\* MoveTaskToColumn and the failure comment that goes with a park.  The call
\* may fail, and may fail although the board made the move.
MoveCard(target) ==
  LET park == poll.index.phase = "Failed"
      commented(n) == IF park THEN [comments EXCEPT ![poll.index.run] = @ + n] ELSE comments
  IN \/ /\ column' = target
        /\ poll' = [At("prune") EXCEPT !.card = target]
        /\ \/ NoFault /\ comments' = commented(1)
           \/ park /\ Fault /\ comments' = commented(0)
        /\ entered' = (entered \/ column # target) /\ armed' = FALSE
     \/ /\ Fault
        /\ poll' = At("prune")
        /\ \/ column' = column /\ UNCHANGED <<armed, entered>>
           \/ column' = target /\ entered' = TRUE /\ armed' = FALSE
        /\ UNCHANGED comments

\* The phase reconciliation: only a changed summary moves the card, and the
\* memo takes the summary whatever became of the move.
DueOnPhase(ph) == ph.anyRun /\ lastRuns.phase # ph.phase   \* mutant
Due(ph) == ph.anyRun /\ lastRuns # ph

ReconcileTaskColumn ==
  LET ph == poll.index
      target == Decision(ph, poll.card)
      due == Due(ph)
  IN /\ poll.step = "reconcile"
     /\ IF due /\ target # poll.card
        THEN MoveCard(target)
        ELSE poll' = At("prune") /\ UNCHANGED <<column, budgets, history>>
     /\ lastRuns' = IF due THEN ph ELSE lastRuns
     /\ UNCHANGED <<tagged, runs, assignments, lastCards, book>>

\* Memos of a ticket without runs are dropped, the card's only when no
\* assignment is in flight.
PruneMemos ==
  /\ poll.step = "prune"
  /\ poll' = At("fire")
  /\ lastRuns' = IF poll.index.anyRun THEN lastRuns ELSE NoSummary
  /\ lastCards' = IF poll.index.anyRun \/ InFlight(book) THEN lastCards ELSE NoColumn
  /\ UNCHANGED <<board, runs, assignments, book, budgets, history>>

\* Every gate of the firing loop, lastCards being the previous poll's memo.
AtTrigger == poll.tag /\ IsTrigger(poll.card)
FiresOnResidency ==                                 \* mutant: the memo is not asked
  AtTrigger /\ ~poll.index.active /\ ~InFlight(book)
FiresOnce ==                                        \* mutant: a settled run still blocks
  AtTrigger /\ ~poll.index.anyRun /\ ~InFlight(book) /\ lastCards # poll.card
FiresUnindexed ==                                   \* mutant: the castle book is not asked
  AtTrigger /\ ~poll.index.active /\ lastCards # poll.card
Fires ==
  AtTrigger /\ ~poll.index.active /\ ~InFlight(book) /\ lastCards # poll.card

CreateRun ==
  /\ ~CastleLane /\ Len(runs) < scene.runs
  /\ \/ /\ NoFault
        /\ runs' = Append(runs, [phase |-> "", verdict |-> "", class |-> RouteClass(poll.card)])
        /\ entered' = (column # poll.card) /\ armed' = FALSE
     \/ Fault /\ UNCHANGED <<runs, entered, armed>>
  /\ UNCHANGED <<assignments, book>>


\* The adapter's fire: acknowledged, accepted but not acknowledged, or failed.
SubmitAssignment ==
  /\ CastleLane /\ Len(assignments) < scene.runs
  /\ \/ /\ NoFault
        /\ assignments' = Append(assignments, [state |-> "queued", class |-> RouteClass(poll.card)])
        /\ book' = [NoEntry EXCEPT !.asg = Len(assignments')]
        /\ entered' = (column # poll.card) /\ armed' = FALSE
     \/ /\ On("lostAck") /\ Fault
        /\ assignments' = Append(assignments, [state |-> "queued", class |-> RouteClass(poll.card)])
        /\ UNCHANGED <<book, entered, armed>>
     \/ Fault /\ UNCHANGED <<assignments, book, entered, armed>>
  /\ UNCHANGED runs

\* The firing loop's turn for the card: the memo is taken before any gate.
FireCard ==
  /\ poll.step = "fire"
  /\ lastCards' = poll.card
  /\ poll' = IF CastleLane THEN At("mirror") ELSE IdlePoll
  /\ \/ Fires /\ (CreateRun \/ SubmitAssignment)
     \/ ~Fires /\ UNCHANGED <<runs, assignments, book, budgets, entered, armed>>
  /\ UNCHANGED <<board, lastRuns, comments>>

\* The mirror after the loop: evict what is decided and indexed, else drain
\* the watch stream and record the parity decision once both lanes see a run.
Mirror ==
  LET over == book.asg # 0 /\ assignments[book.asg].state = "over"
      drained == [book EXCEPT !.terminal = @ \/ over]
      evicted == book.terminal /\ book.decided /\ poll.index.anyRun
  IN /\ poll.step = "mirror"
     /\ poll' = IdlePoll
     /\ \/ /\ NoFault
           /\ book' = IF book.asg = 0 \/ evicted THEN NoEntry
                      ELSE [drained EXCEPT !.decided = @ \/ (drained.terminal /\ poll.index.anyRun)]
        \/ InFlight(book) /\ Fault /\ UNCHANGED book
     /\ UNCHANGED <<board, runs, assignments, lastRuns, lastCards, history>>

\* A new watcher process starts with empty memos.
RestartWatcher ==
  /\ restarts < scene.restarts /\ restarts' = restarts + 1
  /\ poll' = IdlePoll /\ UNCHANGED setting
  /\ lastRuns' = NoSummary /\ lastCards' = NoColumn /\ book' = NoEntry
  /\ UNCHANGED <<board, runs, assignments, moves, faults, history>>

-----------------------------------------------------------------------------
(* The board, the operator and castle. *)
Moving == moves < scene.moves /\ moves' = moves + 1 /\ UNCHANGED <<faults, restarts>>

\* A person, the shepherd or a workflow moves the card; unless hasty, only
\* after a whole poll has seen it where it is.
MoveByOthers(to) ==
  /\ to # column /\ Moving
  /\ On("hasty") \/ (poll.step = "idle" /\ lastCards = column)
  /\ column' = to /\ entered' = TRUE
  /\ armed' = (IsTrigger(to) /\ tagged /\ AllSettled /\ ~InFlight(book))
  /\ UNCHANGED <<setting, tagged, runs, assignments, memos, poll, comments>>

TagCard ==
  /\ Moving
  /\ tagged' = ~tagged
  /\ armed' = FALSE
  /\ UNCHANGED <<setting, column, runs, assignments, memos, poll, comments, entered>>

\* The operator creates the CriteriaRun of a leased assignment.
AttachRun ==
  \E a \in DOMAIN assignments :
    /\ assignments[a].state = "queued"
    /\ assignments' = [assignments EXCEPT ![a].state = "bound"]
    /\ runs' = Append(runs, [phase |-> "", verdict |-> "", class |-> assignments[a].class])
    /\ UNCHANGED <<setting, board, memos, poll, budgets, history>>

\* A bound assignment ends with its run, an abandoned one without any.
CloseAssignment ==
  \E a \in DOMAIN assignments :
    /\ \/ assignments[a].state = "bound" /\ \A i \in DOMAIN runs : Settled(runs[i])
       \/ On("abandon") /\ assignments[a].state = "queued"
    /\ assignments' = [assignments EXCEPT ![a].state = "over"]
    /\ UNCHANGED <<setting, board, runs, memos, poll, budgets, history>>

StartRun(i) == runs[i].phase = "" /\ runs' = [runs EXCEPT ![i].phase = "Running"]

SettleRun(i) ==
  /\ runs[i].phase = "Running"
  /\ \E p \in {"Succeeded", "Failed"}, v \in Verdict :
       /\ p = "Failed" => v # "handler_complete"
       /\ runs' = [runs EXCEPT ![i] = [@ EXCEPT !.phase = p, !.verdict = v]]

\* The Job settled the run first, castle's outcome comes later.
LandVerdict(i) ==
  /\ On("lateVerdict") /\ Settled(runs[i]) /\ runs[i].verdict = ""
  /\ \E outcome \in {<<"Succeeded", "handler_complete">>, <<"Succeeded", "failed">>,
                     <<"Failed", "failed">>} :
       runs' = [runs EXCEPT ![i] = [@ EXCEPT !.phase = outcome[1], !.verdict = outcome[2]]]

CollectRun(i) == On("retention") /\ Settled(runs[i]) /\ runs' = [runs EXCEPT ![i].phase = "gone"]

RunProgress ==
  /\ \E i \in DOMAIN runs : StartRun(i) \/ SettleRun(i)
  /\ UNCHANGED <<setting, board, assignments, memos, poll, budgets, history>>

RunAges ==
  /\ \E i \in DOMAIN runs : LandVerdict(i) \/ CollectRun(i)
  /\ UNCHANGED <<setting, board, assignments, memos, poll, budgets, history>>

-----------------------------------------------------------------------------
Init ==
  /\ lane \in Lanes /\ scene \in Scenes
  /\ column \in {"Backlog", "Working"} /\ tagged \in BOOLEAN
  /\ runs = <<>> /\ assignments = <<>>
  /\ lastRuns = NoSummary /\ lastCards = NoColumn /\ book = NoEntry
  /\ poll = IdlePoll
  /\ moves = 0 /\ faults = 0 /\ restarts = 0
  /\ comments = [i \in 1 .. MaxRuns |-> 0]
  /\ entered = TRUE /\ armed = FALSE

Poll == /\ \/ ListRuns \/ GetAllTasks \/ AbortPoll \/ ReconcileTaskColumn
           \/ PruneMemos \/ FireCard \/ Mirror
        /\ UNCHANGED setting

Others == \/ \E to \in Column : MoveByOthers(to)
          \/ TagCard \/ AttachRun \/ CloseAssignment \/ RunProgress \/ RunAges

Next == Poll \/ RestartWatcher \/ Others

Spec == Init /\ [][Next]_vars

\* The ticker starts polls for ever, a poll goes on until it ends, and runs
\* and assignments come to an end.
FairSpec ==
  /\ Spec
  /\ WF_vars(Poll)
  /\ WF_vars(RunProgress) /\ WF_vars(AttachRun) /\ WF_vars(CloseAssignment)

-----------------------------------------------------------------------------
(* Every variable of the watcher and its world keeps its type. *)
TypeOK ==
  /\ lane \in Lanes /\ scene \in Scenes /\ column \in Column /\ tagged \in BOOLEAN
  /\ runs \in Seq(RunRecord) /\ Len(runs) <= scene.runs
  /\ assignments \in Seq([state : {"queued", "bound", "over"}, class : Class])
  /\ DOMAIN lastRuns = DOMAIN NoSummary /\ lastRuns.run \in 0 .. MaxRuns
  /\ lastCards \in Column \cup {NoColumn}
  /\ book \in [asg : 0 .. Len(assignments), terminal : BOOLEAN, decided : BOOLEAN]
  /\ poll.step \in {"idle", "list", "reconcile", "prune", "fire", "mirror"}
  /\ moves \in 0 .. scene.moves /\ faults \in 0 .. scene.faults /\ restarts \in 0 .. scene.restarts
  /\ comments \in [1 .. MaxRuns -> Nat] /\ entered \in BOOLEAN /\ armed \in BOOLEAN

\* The castle lane's book, kept in memory only, holds every submission.
BookKept == ~CastleLane \/ (restarts = 0 /\ ~On("lostAck"))

(* The firing gate: however the board, the runs and the castle assignments  *)
(* move during a poll, the watcher never has two runs of a ticket in flight.*)
OneRunInFlight ==
  BookKept => \A i, j \in DOMAIN runs :
    runs[i].phase \in {"", "Running"} /\ runs[j].phase \in {"", "Running"} => i = j

\* Nothing has taken the watcher's memos away: they live in the process, and
\* go with the ticket's last run (PruneMemos).
MemosKept == restarts = 0 /\ scene.features \cap {"retention", "abandon"} = {}

(* KB-302: one failure never leaves more than one comment on the card. The  *)
(* rule is about a changed summary, so what changes the summary of a failed *)
(* run counts as another failure: a verdict that lands later, and a second *)
(* run in flight, of a submission that castle took and the book does not   *)
(* know, that settles.                                                     *)
OneCommentPerFailure ==
  MemosKept /\ BookKept /\ ~On("lateVerdict") => \A i \in DOMAIN comments : comments[i] <= 1

(* The types, the firing gate and the comment rule.                        *)
Inv == TypeOK /\ OneRunInFlight /\ OneCommentPerFailure

Fired == runs' # runs /\ ~CastleLane /\ Len(runs') > Len(runs)
Submitted == Len(assignments') > Len(assignments)

(* KB-302: a refire needs the card to have changed columns since the last   *)
(* fire, whatever happened to the run in between, as long as the memos are  *)
(* kept.                                                                   *)
RefireNeedsEntry == [][MemosKept /\ (Fired \/ Submitted) => entered]_vars

(* KB-50: the watcher's own move to Done is backed by a delivered verdict   *)
(* of the run the poll read, still the ticket's newest in the legacy lane,  *)
(* however late the verdict came and whatever happened since the listing.   *)
DoneIsVerified ==
  [][ReconcileTaskColumn /\ column' = "Done" /\ column # "Done" =>
       /\ runs[poll.index.run].phase \in {"Succeeded", "gone"}
       /\ runs[poll.index.run].verdict = "handler_complete"
       /\ CastleLane \/ \A j \in Kept : j <= poll.index.run]_vars

\* No call fails, no process dies, and people wait for a poll to see the card.
Calm == scene.features = {} /\ scene.faults = 0 /\ scene.restarts = 0

(* KB-302: moving the card back to a trigger column is the decision to      *)
(* refire: with nothing of the ticket in flight the move is answered by a  *)
(* run (or the card is moved on before that).                              *)
RearmIsAnswered == Calm /\ armed ~> ~armed

(* KB-302: a failure the watcher has not reconciled yet ends with the card  *)
(* in Review, unless a newer run takes the ticket over.                    *)
FailedRunIsParked ==
  \A i \in 1 .. MaxRuns :
    (/\ Calm /\ i = Len(runs) /\ runs[i].phase = "Failed"
     /\ ~(lastRuns.run = i /\ lastRuns.phase = "Failed"))
      ~> (column = "Review" \/ i < Len(runs))
=============================================================================
