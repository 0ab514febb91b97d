--------------------------- MODULE AssignmentLane ---------------------------
(***************************************************************************)
(* The operator's assignment agent (internal/control/agent.go) and bridge  *)
(* (agentbridge.go): assignments that castle leases to this agent arrive   *)
(* on the Control stream, wait for the one serial processor, get or find   *)
(* their CriteriaRun, and hold the processor until the row's terminal      *)
(* event is acknowledged.  Queue, processor and ledgers are memory.        *)
(***************************************************************************)
EXTENDS Naturals, FiniteSets, SequencesExt

CONSTANTS
  Assignment,    \* castle's assignment rows of this project
  Bad,           \* those that can never be attributed
  NoAsg,         \* no assignment
  MaxFaults,     \* bound on failed calls, dropped streams and early expiries
  MaxRestarts,   \* bound on operator restarts
  MaxDeleted,    \* bound on deleted runs of one assignment
  MaxMisjudged   \* bound on deliveries of one that find no usable routes payload

ASSUME LaneAssumption ==
  /\ Bad \subseteq Assignment /\ NoAsg \notin Assignment
  /\ MaxFaults \in Nat /\ MaxRestarts \in Nat /\ MaxDeleted \in Nat
  /\ MaxMisjudged \in Nat

VARIABLES
  leased,      \* castle: the rows leased to this agent
  recorded,    \* castle: the correlation ids of each row's bridge events
  outcomes,    \* castle: each row's terminal events
  stream,      \* deliveries sent and not received
  held,        \* the delivery blocked on the full queue
  queue,       \* the processor's queue, capacity 1
  proc,        \* the processor: its step, assignment, run, attempts, payload
  started,     \* ledger: RunStarted acknowledged
  terminal,    \* ledger: terminal event acknowledged
  crs,         \* the CriteriaRuns of each assignment, oldest first
  faults, restarts,
  blind,       \* history: assignments attached by a failed run listing
  misjudged    \* history: how often an attributable one was refused all the same

castleVars == <<leased, recorded, outcomes>>
intake == <<stream, held, queue>>
ledgers == <<started, terminal>>
budgets == <<faults, restarts>>
history == <<blind, misjudged>>
vars == <<castleVars, intake, proc, ledgers, crs, budgets, history>>

Phase == {"", "Running", "Succeeded", "Failed", "deleted"}
Verdict == {"", "handler_complete", "failed"}
Step == {"idle", "failclosed", "gate", "find", "mark", "create", "deliver", "bridge",
         "submitStarted", "submitTerminal", "submitLost"}
Settled(run) == run.phase \in {"Succeeded", "Failed"}
Existing(a) == {i \in DOMAIN crs[a] : crs[a][i].phase # "deleted"}
Closed(a) == outcomes[a] # <<>>
Running(a) == \E corr \in recorded[a] : corr[1] = "started"
FailedClosed(a) == <<"failclosed", 0>> \in recorded[a]

IdleProc == [step |-> "idle", asg |-> NoAsg, run |-> 0, attempts |-> 0, payload |-> ""]
At(step) == [proc EXCEPT !.step = step]

Fault == faults < MaxFaults /\ faults' = faults + 1 /\ UNCHANGED restarts
NoFault == UNCHANGED budgets

-----------------------------------------------------------------------------
(* Intake. *)
\* consume receives the next delivery unless it is blocked on the last one.
Receive ==
  /\ held = NoAsg /\ stream # <<>>
  /\ held' = Head(stream) /\ stream' = Tail(stream)
  /\ UNCHANGED <<castleVars, queue, proc, ledgers, crs, budgets, history>>

\* The send blocks while the queue holds a delivery.
Enqueue ==
  /\ held # NoAsg /\ queue = <<>>
  /\ queue' = <<held>> /\ held' = NoAsg
  /\ UNCHANGED <<castleVars, stream, proc, ledgers, crs, budgets, history>>

-----------------------------------------------------------------------------
(* The processor. *)
\* translate, BuildRun and applyTargetMetadata come first, on every delivery:
\* the routes payload is read again, and as it reads now it may not have the
\* workflow of a row whose run exists or is over.
Stampable(a) == a \notin Bad /\ UNCHANGED misjudged
Unstampable(a) ==
  \/ a \in Bad /\ UNCHANGED misjudged
  \/ a \notin Bad /\ misjudged[a] < MaxMisjudged /\ misjudged' = [misjudged EXCEPT ![a] = @ + 1]

Take ==
  LET a == Head(queue)
      Begin(step) == proc' = [IdleProc EXCEPT !.asg = a, !.step = step]
  IN /\ proc.step = "idle" /\ queue # <<>>
     /\ queue' = Tail(queue)
     /\ \/ Stampable(a) /\ Begin("gate")
        \/ Unstampable(a) /\ Begin("failclosed")
     /\ UNCHANGED <<castleVars, stream, held, ledgers, crs, budgets, blind>>

\* Castle keeps an event once per correlation id.
Record(a, corr, kind) ==
  /\ recorded' = [recorded EXCEPT ![a] = @ \cup {corr}]
  /\ outcomes' = IF kind # "started" /\ corr \notin recorded[a]
                 THEN [outcomes EXCEPT ![a] = Append(@, kind)] ELSE outcomes
  /\ UNCHANGED leased

\* Submit: acknowledged, refused because castle does not see the row as ours,
\* or failed, in which case castle may have recorded the event all the same.
Acked(a, corr, kind) == a \in leased /\ Record(a, corr, kind) /\ NoFault
Failed(a, corr, kind) ==
  \/ a \notin leased /\ UNCHANGED castleVars /\ NoFault
  \/ UNCHANGED castleVars /\ Fault
  \/ a \in leased /\ Record(a, corr, kind) /\ Fault

\* Nothing is created for an assignment that fails closed, and a failed submit
\* is not repeated.
FailAssignmentClosed ==
  LET corr == <<"failclosed", 0>>
  IN /\ proc.step = "failclosed"
     /\ Acked(proc.asg, corr, "failed") \/ Failed(proc.asg, corr, "failed")
     /\ proc' = IdleProc
     /\ UNCHANGED <<intake, ledgers, crs, history>>

\* ownedByUs: a row already closed is skipped; a failed read lets it pass.
OwnedByUs ==
  /\ proc.step = "gate"
  /\ \/ NoFault /\ proc' = IF Closed(proc.asg) THEN IdleProc ELSE At("find")
     \/ Fault /\ proc' = At("find")
  /\ UNCHANGED <<castleVars, intake, ledgers, crs, history>>

\* attachRun finds the first run that carries the assignment's id, and none
\* when the list fails.
Attached(a) == [At("mark") EXCEPT !.run = CHOOSE i \in Existing(a) : \A j \in Existing(a) : i <= j]

FindActiveRun ==                                    \* mutant
  /\ proc.step = "find" /\ NoFault
  /\ proc' = IF \A i \in Existing(proc.asg) : Settled(crs[proc.asg][i])
             THEN At("create") ELSE Attached(proc.asg)
  /\ UNCHANGED <<castleVars, intake, ledgers, crs, history>>
FindRecordedRun ==
  /\ proc.step = "find"
  /\ \/ /\ NoFault /\ UNCHANGED blind
        /\ proc' = IF Existing(proc.asg) = {} THEN At("create") ELSE Attached(proc.asg)
     \/ Fault /\ proc' = At("create") /\ blind' = blind \cup {proc.asg}
  /\ UNCHANGED <<castleVars, intake, ledgers, crs, misjudged>>

\* markAttempts: the bridge goes on with the new count even if it is not stored.
MarkAttempts ==
  LET a == proc.asg
      attempts == crs[a][proc.run].attempts + 1
  IN /\ proc.step = "mark"
     /\ proc' = [At("deliver") EXCEPT !.attempts = attempts]
     /\ \/ crs' = [crs EXCEPT ![a][proc.run].attempts = attempts]
        \/ UNCHANGED crs
     /\ UNCHANGED <<castleVars, intake, ledgers, budgets, history>>

Fresh == [phase |-> "", verdict |-> "", attempts |-> 1]
Gone == [phase |-> "deleted", verdict |-> "", attempts |-> 0]

\* A second run of the assignment within the same second has the same name,
\* and the earlier one is attached instead.
CreateRun ==
  LET a == proc.asg
      created == [crs EXCEPT ![a] = Append(@, Fresh)]
  IN /\ proc.step = "create"
     /\ \/ /\ NoFault
           /\ crs' = created
           /\ proc' = [At("deliver") EXCEPT !.run = Len(created[a]), !.attempts = 1]
        \/ /\ Existing(a) # {} /\ NoFault
           /\ proc' = Attached(a) /\ UNCHANGED crs
        \/ Fault /\ proc' = IdleProc /\ crs' \in {crs, created}
     /\ UNCHANGED <<castleVars, intake, ledgers, history>>

Deliver ==
  /\ proc.step = "deliver"
  /\ proc' = IF proc.asg \in terminal THEN IdleProc ELSE At("bridge")
  /\ UNCHANGED <<castleVars, intake, ledgers, crs, budgets, history>>

\* terminalPayload: what the row's terminal event says of a settled run.
SucceededIsComplete(run) == IF run.phase = "Succeeded" THEN "completed" ELSE "failed"   \* mutant
TerminalPayload(run) ==
  IF run.phase = "Succeeded" /\ run.verdict = "handler_complete" THEN "completed" ELSE "failed"

\* One poll of the run decides what the bridge owes the row.
BridgeStep ==
  LET run == crs[proc.asg][proc.run]
  IN /\ proc.step = "bridge"
     /\ \/ /\ run.phase = "deleted"
           /\ proc' = At("submitLost")
        \/ /\ Settled(run)
           /\ proc' = IF proc.asg \in terminal THEN IdleProc
                      ELSE [At("submitTerminal") EXCEPT !.payload = TerminalPayload(run)]
        \/ /\ run.phase = "Running" /\ proc.asg \notin started
           /\ proc' = At("submitStarted")
     /\ UNCHANGED <<castleVars, intake, ledgers, crs, budgets, history>>

\* ensureStarted: a failed submit is tried again at the next poll.
EnsureStarted ==
  LET corr == <<"started", proc.attempts>>
  IN /\ proc.step = "submitStarted"
     /\ proc' = At("bridge")
     /\ \/ Acked(proc.asg, corr, "started") /\ started' = started \cup {proc.asg}
        \/ Failed(proc.asg, corr, "started") /\ UNCHANGED started
     /\ UNCHANGED <<intake, terminal, crs, history>>

BridgeGivesUp ==                                    \* mutant
  LET corr == <<"terminal", proc.attempts>>
  IN /\ proc.step = "submitTerminal"
     /\ proc' = IdleProc
     /\ \/ Acked(proc.asg, corr, proc.payload) /\ terminal' = terminal \cup {proc.asg}
        \/ Failed(proc.asg, corr, proc.payload) /\ UNCHANGED terminal
     /\ UNCHANGED <<intake, started, crs, history>>

\* bridgeTerminal: the processor is freed when the event is acknowledged.
BridgeTerminal ==
  LET corr == <<"terminal", proc.attempts>>
  IN /\ proc.step = "submitTerminal"
     /\ \/ /\ Acked(proc.asg, corr, proc.payload)
           /\ terminal' = terminal \cup {proc.asg} /\ proc' = IdleProc
        \/ /\ Failed(proc.asg, corr, proc.payload)
           /\ UNCHANGED terminal /\ proc' = At("bridge")
     /\ UNCHANGED <<intake, started, crs, history>>

\* The same for a deleted run, which frees the processor whatever becomes of
\* the event.
BridgeRecordLost ==
  LET corr == <<"terminal", proc.attempts>>
  IN /\ proc.step = "submitLost"
     /\ proc' = IdleProc
     /\ \/ Acked(proc.asg, corr, "failed") /\ terminal' = terminal \cup {proc.asg}
        \/ Failed(proc.asg, corr, "failed") /\ UNCHANGED terminal
     /\ UNCHANGED <<intake, started, crs, history>>

Process == \/ Take \/ FailAssignmentClosed \/ OwnedByUs \/ FindRecordedRun
           \/ MarkAttempts \/ CreateRun \/ Deliver \/ BridgeStep
           \/ EnsureStarted \/ BridgeTerminal \/ BridgeRecordLost

-----------------------------------------------------------------------------
(* Castle, the cluster, and failures of the whole lane. *)
\* Castle holds one unstarted lease per agent.  At most one delivery of a row
\* waits in the stream; the agent may hold further ones.
Lease(a) ==
  /\ a \notin leased /\ ~Closed(a)
  /\ \A b \in leased : Closed(b) \/ Running(b)
  /\ leased' = leased \cup {a}
  /\ stream' = IF Contains(stream, a) THEN stream ELSE Append(stream, a)
  /\ UNCHANGED <<recorded, outcomes, held, queue, proc, ledgers, crs, budgets, history>>

\* An unstarted lease outlasts a delivery that the processor is free for, or
\* at, unless that counts as a fault; any other one expires.
Served(a) ==
  \/ proc.asg = a
  \/ proc.asg = NoAsg /\ (held = a \/ Contains(stream \o queue, a))

ExpireLease(a) ==
  /\ a \in leased /\ ~Closed(a) /\ ~Running(a)
  /\ IF Served(a) THEN Fault ELSE NoFault
  /\ leased' = leased \ {a}
  /\ UNCHANGED <<recorded, outcomes, intake, proc, ledgers, crs, history>>

\* A new Control stream brings every open row leased to the agent once more;
\* it is opened when consume is not blocked any more.
Redelivered ==
  {s \in [1 .. Cardinality({a \in leased : ~Closed(a)}) -> leased] :
     {s[i] : i \in DOMAIN s} = {a \in leased : ~Closed(a)}}

DropStream ==
  /\ held = NoAsg /\ Fault
  /\ stream' \in Redelivered
  /\ UNCHANGED <<castleVars, held, queue, proc, ledgers, crs, history>>

RestartOperator ==
  /\ restarts < MaxRestarts /\ restarts' = restarts + 1 /\ UNCHANGED faults
  /\ stream' \in Redelivered
  /\ held' = NoAsg /\ queue' = <<>> /\ proc' = IdleProc
  /\ started' = {} /\ terminal' = {}
  /\ UNCHANGED <<castleVars, crs, history>>

Becomes(a, i, run) ==
  /\ crs' = [crs EXCEPT ![a][i] = run]
  /\ UNCHANGED <<castleVars, intake, proc, ledgers, budgets, history>>

RunProgress ==
  \E a \in Assignment : \E i \in DOMAIN crs[a] :
    LET run == crs[a][i]
    IN \/ run.phase = "" /\ Becomes(a, i, [run EXCEPT !.phase = "Running"])
       \/ run.phase \in {"", "Running"} /\ Becomes(a, i, [run EXCEPT !.phase = "Failed"])
       \/ /\ run.phase = "Running"
          /\ \E v \in {"", "handler_complete"} :
               Becomes(a, i, [run EXCEPT !.phase = "Succeeded", !.verdict = v])

\* The Job settled the run first, castle's outcome comes later.
LandVerdict ==
  \E a \in Assignment : \E i \in DOMAIN crs[a] :
    /\ Settled(crs[a][i]) /\ crs[a][i].verdict = ""
    /\ \E outcome \in {<<"Succeeded", "handler_complete">>, <<"Failed", "failed">>} :
         Becomes(a, i, [crs[a][i] EXCEPT !.phase = outcome[1], !.verdict = outcome[2]])

DeleteRun ==
  \E a \in Assignment : \E i \in Existing(a) :
    /\ Cardinality(DOMAIN crs[a] \ Existing(a)) < MaxDeleted
    /\ Becomes(a, i, Gone)

-----------------------------------------------------------------------------
Init ==
  /\ leased = {}
  /\ recorded = [a \in Assignment |-> {}] /\ outcomes = [a \in Assignment |-> <<>>]
  /\ stream = <<>> /\ held = NoAsg /\ queue = <<>> /\ proc = IdleProc
  /\ started = {} /\ terminal = {}
  /\ crs = [a \in Assignment |-> <<>>]
  /\ faults = 0 /\ restarts = 0 /\ blind = {}
  /\ misjudged = [a \in Assignment |-> 0]

Next == \/ Receive \/ Enqueue \/ Process
        \/ \E a \in Assignment : Lease(a) \/ ExpireLease(a)
        \/ DropStream \/ RestartOperator
        \/ RunProgress \/ LandVerdict \/ DeleteRun

Spec == Init /\ [][Next]_vars

\* The lane goes on, castle's leases rotate, and runs end.
FairSpec ==
  /\ Spec
  /\ WF_vars(Receive) /\ WF_vars(Enqueue) /\ WF_vars(Process) /\ WF_vars(RunProgress)
  /\ \A a \in Assignment :
       /\ SF_vars(Lease(a)) /\ WF_vars(ExpireLease(a) /\ ~Served(a))

-----------------------------------------------------------------------------
(* Every variable of the lane and its world keeps its type, and deliveries *)
(* wait in castle rather than in the agent: the queue holds one.           *)
TypeOK ==
  /\ leased \subseteq Assignment /\ blind \subseteq Assignment
  /\ misjudged \in [Assignment -> 0 .. MaxMisjudged]
  /\ outcomes \in [Assignment -> Seq({"completed", "failed"})]
  /\ stream \in Seq(Assignment) /\ held \in Assignment \cup {NoAsg}
  /\ queue \in Seq(Assignment) /\ Len(queue) <= 1
  /\ proc.step \in Step /\ proc.asg \in Assignment \cup {NoAsg}
  /\ started \subseteq Assignment /\ terminal \subseteq Assignment
  /\ crs \in [Assignment -> Seq([phase : Phase, verdict : Verdict, attempts : Nat])]
  /\ faults \in 0 .. MaxFaults /\ restarts \in 0 .. MaxRestarts

(* agent.go: "A re-delivery of the SAME assignment must reattach, not stamp *)
(* a second run": across restarts, expiries, duplicate deliveries and lost *)
(* answers of Create, unless the listing that would have found it failed.  *)
OneRunPerAssignment ==
  \A a \in Assignment : Cardinality(Existing(a)) > 1 => a \in blind

(* CRI-142, terminal never rewrites terminal: whatever is delivered and     *)
(* submitted again, castle gets one terminal event of a row.  Two things    *)
(* break it: a run that is deleted, as the lane then lets go of the row     *)
(* without the answer of the submit and the next run's correlation ids      *)
(* count from 1 again, and a delivery misjudged for the routes payload of   *)
(* the moment, which adds the event of that judgement, once.                *)
OneTerminalPerRow ==
  \A a \in Assignment : Existing(a) = DOMAIN crs[a] =>
    Len(outcomes[a]) <= IF a \notin Bad /\ FailedClosed(a) THEN 2 ELSE 1

(* A row is closed only when its run is over, unless a delivery of it was   *)
(* misjudged; and none is ever closed as completed but by a run that        *)
(* delivered its work (deleted and doubled runs excepted).                  *)
RowAnswersRun ==
  \A a \in Assignment \ blind : Existing(a) = DOMAIN crs[a] =>
    \A i \in DOMAIN crs[a] :
      /\ Closed(a) /\ ~FailedClosed(a) => Settled(crs[a][i])
      /\ Contains(outcomes[a], "completed") =>
           crs[a][i].phase = "Succeeded" /\ crs[a][i].verdict = "handler_complete"

(* Every leased assignment is closed, unless someone deletes its run: no    *)
(* failed call, restart or expiry leaves it to nobody, and no assignment   *)
(* holds the serial lane for ever.  A row that had started is left alone   *)
(* when a delivery of it is misjudged and that answer is lost.             *)
EveryAssignmentCloses ==
  \A a \in Assignment :
    a \in leased ~> \/ Closed(a) \/ Existing(a) # DOMAIN crs[a]
                    \/ misjudged[a] > 0 /\ Running(a)

(* The types and the two uniqueness rules of an assignment.                 *)
Inv == TypeOK /\ OneRunPerAssignment /\ OneTerminalPerRow
=============================================================================
