# TLA+ models of criteria-k8s

The repository deploys a workflow engine (criteria, not in this repository) on
Kubernetes. Its own program logic is `criteria-k8s/`: an operator that turns
`CriteriaRun` objects into runner Jobs and cleans up after them, and a watcher
that turns Kanboard cards into runs. This directory holds TLA+ modules of that
logic, TLC instances of them, and TLAPS proofs about all ten program modules: every
safety property a run checks is a theorem.

All paths below are relative to `src/criteria-k8s/` unless they start otherwise.

## 1. Inventory

| Part | State it keeps | Operations | Hard behaviour |
|---|---|---|---|
| Admission queue, `internal/controller/queue.go` | in memory: one line of runs and one admitted run per (repo URL, class) | `Enqueue`, `Release`, `Recover` at startup, the reported status | lost on restart and rebuilt from a list in name order; entries leave from any place |
| CriteriaRun reconciler, `internal/controller/criteriarun_controller.go`, `baseimage.go`, `stallwatchdog.go`, `terminalarchive.go`, `terminalcleanup.go`, `adapterimageconflict.go` | nothing but the queue; everything else is read from and written to the API server | one reconcile pass with a dozen early returns; finalizer; archive gate; guarded reap; fail-closed paths; requeue policy | reads go through an informer cache that lags the writes; any call may fail; castle's verdict and the Job's outcome arrive in either order; deletion at any time; liveness rests on the requeue policy |
| Run configuration, `configrender.go`, `projectbinding.go`, `interfacebinding.go`, `internal/jobbuilder`, `runspec`, `runstamp`, `binding` | the pin on the run, the recorded render, the launch manifest | pin, read, validate, materialise, render, build the Job, record | the ConfigMap is edited, deleted and created between any two reads; the Job exists before the record of what it was built from |
| Per-scope adapter pods, `internal/controller/per_scope.go`, `internal/castle/podstate.go` | pods of a run's scopes, the feed's memo of what castle was told | observe scopes, resolve the runner, list, report, delete, create | scopes come and go while their environment's pod serves others; the pod bakes in an address that must exist first; deletes take time |
| Kanboard watcher, `cmd/kanboard-watcher/main.go`, `adapter.go` | in memory: per run and per card memos, in the castle lane a book of assignments | one poll: list runs, list the board, move cards, prune memos, fire, mirror | runs and board are read at different times; memos are taken before the calls they stand for; verdicts land after phases; calls fail or succeed unacknowledged |
| Route payload, `internal/routes/routes.go` | a ConfigMap people edit | validate, list the declared columns (for a log), match a rule, resolve a card | two surfaces hold rules at once; the tags of a card are sorted by one function and looked up by another |
| Assignment agent and bridge, `internal/control/agent.go`, `agentbridge.go`, `run.go` | in memory: started and terminal assignments; castle's leases | consume, judge a delivery, attach a run, poll it, report events | serial lane that blocks on a full channel, re-delivery after a restart, a judgement that depends on the moment, lost reports |
| Run-event proxy, `internal/proxy/proxy.go` | in memory: enrolments, proxy runs; in annotations: the token and the castle run id | enrol, register, create run, submit events | the tables die with the operator; check-then-create of the castle run; old handlers outlive broken streams |
| Castle client, `internal/castle/castle.go`, `internal/events/lifecycle.go` | per run: a cursor, the lifecycle, scopes, steps, progress and verdict folded so far | drain events page by page, read the record, observe | an error or the page budget in the middle of a drain; a restart forgets the cursor |
| Retention and sweeps, `internal/controller/crretention.go`, `adaptersweep.go`, `backfill_archive.go` | none | periodic sweeps, one-shot backfill | what is deleted was judged from an older list |
| Shadow stream and stamping, `internal/control/stream.go`, `payload.go`, `watchdog.go` | stamped payloads | compare and log | none that touches cluster state |
| JSON-RPC client and wiring, `internal/kanboard`, `cmd/operator/main.go` | connection, flags | calls | none |
| `src/scripts/platform`, `src/repogate` | none | one-shot command line tools | none |
| the workflow trees beside it (`src/workstream_handler_v1`, `src/kanboard_develop_v1`, `src/harness_*`, ...), `src/charts` | - | workflows of the external engine, test harnesses, deployment | no program of this repository |

How they interact: a person moves a card; the watcher's poll asks the route
payload what the card runs and creates a `CriteriaRun` (legacy lane) or submits
an assignment that castle hands to the operator's agent, which creates the run
(castle lane). The reconciler admits the run through the queue, builds its
configuration and creates the runner Job with an enrollment token for the
proxy, through which the engine in the pod reports to castle. The passes
observe castle through the client, converge the adapter pods on the scopes they
see there, write phase and verdict into the run's status, archive and reap. The
watcher reads phase and verdict back and moves the card. The sweeps remove what
all of them leave behind.

What makes each part correct is stated in section 4; the hazards with the line
where each bites are in `PROJECT.json`.

## 2. Modules

| Module | Models | State and its counterpart |
|---|---|---|
| `AdmissionLock` | what the queue promises: per key a line, join at the tail, leave from anywhere; a restart reorders lines by name | `line` |
| `RunQueue` | `queue.go` | `queues`, `running`: the two maps. One action per method; each runs under the mutex, so each is one step |
| `CriteriaRunReconciler` (EXTENDS `RunQueue`) | the reconcile pass against API server, cache, Job controller, kubelet and castle | `cr` the stored objects, `seen` the informer cache, `watch` the states the cache has still to receive, `job`/`pod`/`adapters` the child objects, `podSeen` the cached pod, `castle`/`archive` castle's records, `wake` the work queue, `pass` the local variables of the running pass |
| `RunConfiguration` | the way of a ConfigMap's version into a Job, for a project before and after its cutover | `versions`, `cm` the ConfigMap; `run` the pin; `pass` the versions read so far; `job` what the Job's volumes and commands are of; `status` what is recorded |
| `ScopePods` | the converge of one run's scopes | `wanted`, `released`, `graphs` castle's history; `routable` the runner's address; `pods`; `session` who is served; `told`, `last` the pod-state feed; `pass` the local variables |
| `KanboardWatcher` | one card's share of the poll, both dispatch lanes | `lane` the deployed mode, `column`/`tagged` the board, `runs`, `assignments` at castle, `lastRuns`/`lastCards` the memos, `book` the adapter's entry, `poll` the local variables of a poll |
| `RouteTable` | validation and resolution of the payload as functions of it, and its editors | `payload` the ConfigMap, with each list of rules as a function from places to rules; `edit` whether the last edit was a step of a migration |
| `AssignmentLane` | `agent.go`, `agentbridge.go` against castle's leases | `leased`, `recorded`, `outcomes` castle's rows; `stream`, `held`, `queue` the intake; `proc` the local variables of the serial processor; `started`, `terminal` the ledgers; `crs` the runs of each assignment |
| `RunEventProxy` | the proxy between engines and castle | `token`, `stamp` the annotations; `enrolled`, `entries`, `live` its tables; `handler` the streams' goroutines; `engine`, `pod`, `castle` the two ends |
| `CastleObserver` | the paged drain and the observation made from it | `log`, `record` castle's; `kept` the client's maps; `drain` the drain in progress; `obs` what the pass is told |
| `RetentionSweeps` | the retention of CriteriaRuns with its orphan verify, the adapter sweep, the backfill | `run` every CriteriaRun there was, its position its UID; `obj` the owner of each child object; `keeper`, `reaper` the lists the passes work from |
| `MC*` | constants for TLC | |
| `ReconcilerProofs` | theorems about `RunQueue` and the reconciler that holds it | |
| `ConfigurationProofs` | theorems about what a run executes: `RouteTable`, `RunConfiguration` | |
| `ScopePodsProofs`, `SweepsProofs`, `AssignmentLaneProofs`, `KanboardWatcherProofs`, `RunEventProxyProofs`, `CastleObserverProofs` | theorems about the module of the name | |

`RunQueue` is used twice: alone, with any caller (`QueueSpec`), and as the queue
of the reconciler, whose passes call `Enqueue`, `Release` and `Recover` as the
code does. `AdmissionLock` is its abstract specification. The other modules
meet the reconciler at a narrow place, which each of them states as an action
of the world: a run that settles (watcher, lane), a pass that observes
(`ScopePods`, `CastleObserver`), a pass that creates the pod (`RunEventProxy`),
a finalizer that runs (`RetentionSweeps`); in the reconciler the adapter pods
are one bit and the pins one choice (`drift`, `Refused`).

### The reconcile pass

`MaxConcurrentReconciles` is left at its default of 1, so one pass runs at a time, but everything else
moves between any two of its calls. A pass is cut where it calls out:

    Reconcile ─ NotFound | StartFinalize | AddFinalizer → Refetched | Dispatch
    Dispatch  ─ terminal → ObserveTerminal → ArchiveGate → ReapSettled / DeferReap / ForceReap
              ─ refused spec → FailRun → ArchiveGate → ReapFailed
              ─ not admitted (status Pending, requeue) | admitted
    admitted  ─ RefuseSecondRun | Provision (pins, Job) → ObserveAndStamp | FailRunStalled
              → ArchiveGate and reap when terminal → Converge | FailAdapterImageConflict
    finalize  ─ ArchiveGate → ReapFinalized → RemoveFinalizer

Every action includes what the code does on the way: the slot release in the
terminal branch, in the fail-closed paths and after the converge step; the
status written once per pass; the condition `TerminalCleanup` written by one
pass and read by a later one. `FailedCall` lets any remaining call of a pass
fail; the calls whose failure leaves something behind (the archive call, the
observation, the pod listing) have their own disjunct. `RestartOperator` may
come between any two steps and runs `Recover` on what is stored.

Abstractions, each of which keeps the control:

- A write conflict is "the stored object differs from the one read". The code
  compares `resourceVersion`; a change and its exact reversal between read and
  write would conflict there and not here.
- The cache receives all objects in the order of the writes, at most `lag`
  states behind; a cache further behind is modelled as one that was told of the
  newest states at once. The pods' cache, which the restart guard lists, has its own
  lag (`podSeen`, `PodSync`, with the feature `podLag`). Job reads are not lagged.
- A pod is "pending" until its container statuses appear; then "waiting",
  "running", "crashed". The guard looks at nothing but the statuses, so a pending
  pod counts as settled, as one that the cache does not hold yet does.
- Phase, finalizer and seven status marks are all a status holds. Messages,
  times, the queue report and the conditions nobody reads back are left out.
  The watchdog's and the reap's time windows are the choice to take
  `FailRunStalled` or `ForceReap`, which the conditions guard.
- What the pins, the workflow source gate and the binding gate compare is one
  choice; one pin per run moves. `RunConfiguration` has the comparison.
- A deleted Job is gone at once, its pod is torn down by the kubelet later;
  background and foreground deletion differ only in that.

### The run configuration

Two lanes. A `library` run carries its volumes on the spec and renders its
commands from the pinned ConfigMap; a `binding` run reads its project's binding
for the volumes and a second time for the commands. `StampRun` pins the
version the watcher could read, or the name only. A pass is `StartPass`,
`ReadBinding`, `Render`, `CreateJob`, `WriteStatus`, with the ConfigMap edited,
deleted and created in between; `Abandon` is a failed call, a conflict or a
crash at any point. A version's content is one of the classes the validations
tell apart: malformed, not fitting the tree's interface, setting an undeclared
slot, good. `FailClosed` is the end of every refusal.

### The adapter pods

A pass is `StartPass` (history and graphs observed), `ResolveRunner`,
`ListPods`, `EmitPodState` per scope, `DeletePod` per undesired pod,
`CreatePod` per missing one. What a built pod can dial is part of the pod:
whether it knows an address, and the scope it is pinned to. `Dial` is the
adapter's side of that.

### The watcher

A poll is `ListRuns`, `GetAllTasks`, `ReconcileTaskColumn`, `PruneMemos`,
`FireCard`, and in the castle lane `Mirror`. People, workflows, the operator
and castle act between any two of them; `poll` holds the run index and the
card copy that the later steps use although the world has moved on. Cards share
nothing but the poll, so one card is modelled. `MoveCard` has the four outcomes
of `MoveTaskToColumn` with the failure comment: done, done with the comment
refused, failed, failed although the board made the move. The memos are taken
where the code takes them: the card memo before the gates, the run memo whatever
became of the move. What the payload says of a card is `RouteTable`'s; left
out: repository extraction, health endpoints, parity counters, card texts,
changes of the failure reason of an already failed run.

### The route payload

`Valid`, `RulesOf` (a dispatch record hides the array, the dual-read),
`MatchRoute`, `ConfigsOf`, the two tag sorters and `Resolve` are functions of
the payload, translated from `routes.go`. The state machine is its editors,
one edit at a time, so that every payload people can reach on the way is
asked about every card. A list of rules is a function from the places that hold
one: what is read of a list is the order of its rules, an editor inserts
at any free place, and a migration copies a project's rules at their places, which is
their order. `Cards` is all combinations of project, column and
tags: `Poll` asks about each, since the watcher fetches every task of its project
and resolves it. Prompts, images, secrets and repositories, which an entry only carries
along, are left out.

### The assignment lane

The intake is `Receive`, then `Enqueue`, which blocks while the queue of one is
full. The serial processor is cut at its calls:

    Take ─ FailAssignmentClosed | OwnedByUs ─ skip | FindRecordedRun
    FindRecordedRun ─ MarkAttempts | CreateRun → Deliver
    Deliver ─ skip | BridgeStep ⇄ EnsureStarted | BridgeTerminal | BridgeRecordLost

`Take` judges the row first, and does so at every delivery: `translate`, `BuildRun`
(which reads the routes file again) and `applyTargetMetadata` come before the
ownership gate, the recorded run and the ledger (`agent.go:537-559`). Rows of `Bad`
are refused always; any other one may be, up to `MaxMisjudged` times, which
`misjudged` counts.

A submit is acknowledged, refused because castle does not see the row as leased to
the agent, or failed with or without the event recorded; its three internal
retries are one call. Castle keeps one event per correlation id, and the id
carries the attempts counter of the run's annotation. The agent's identity is the
pre-provisioned one, so it survives a restart. `DropStream` and `RestartOperator`
bring every open leased row once more; a restart forgets queue, processor and
ledgers. The `CriteriaRun` here is phase and verdict only: `RunProgress` and
`LandVerdict` are what `CriteriaRunReconciler` does to it. In the module of the
watcher the lane is the two actions `AttachRun` and `CloseAssignment`.

One delivery of a row waits in the stream at a time, further copies of it are in
`held` and `queue`; one run per assignment is deleted (`MaxDeleted`), so that
attempts and runs stay finite.

### The proxy

`Enroll` is the controller's part: no pod without a stamped token. An engine
registers and creates its proxy run (`RegisterAndCreateRun`), opens a stream and
sends event after event. A stream's handler is cut at its calls: `Receive`
(ownership), `ReadRun`, `CreateCastleRun`, `StampRun` (the resolution of the
castle run), `Forward`, `Ack`; handlers of one proxy run interleave, and one
whose client is gone goes on until its next call. `Fault` is a failed call, with
and without its effect, a broken connection, a replaced container or an engine
that names a checkpoint of another run.

### The castle client

One run's event log, written by the engine while it is drained. A place in the
log is its sequence number and its time; an event is one of the kinds the folds
tell apart. `Observe` is cut at its calls and at each event of a page:

    StartDrain → FetchPage → FoldEvent ... → NextPage → FetchPage
                           → FoldEvent ... → EndDrain → ReadRecord
                 PageFails

The folded maps survive a failed page, the cursor does not move, so events are
folded again. The engine appends between any two steps. `obs` keeps,
for the properties, how far the observation covers the log and what castle
had when the drain began. The cap of 256 on the steps is left out.

### The sweeps

Runs are never removed from `run`, their `life` says what became of them, so a
UID is a position and a reused name is a later position. `ListRuns` makes the
retention's one list and takes all decisions from it; `DeleteRun` deletes by
name; `ListChildren`, `OrphanVerify` and `DeleteOrphan` are the orphan verify
over Jobs and then Pods; `ListAdapters`, `SweepObject`, `DeleteAdapterObject`
and `AdoptObject` the adapter sweep. Users, the reconciler (`Terminate`,
`StampLate`, `StampVerdict`, `Archive`, `Finalize`) and the garbage collector act in between.

## 3. Plan

Done: every part whose state the cluster or castle sees has a module, and every
safety property that a run checks is proved. Left, in this order:

1. The composition of `KanboardWatcher` with `AssignmentLane` (the two actions
   `AttachRun` and `CloseAssignment` would become the lane's), and of
   `ScopePods` with `CastleObserver`, whose observation is complete there.
2. Several runs per agent and a second agent with the same leases.

## 4. Runs

Every module's bounds are constants of its configuration. Where one
combination of features, faults and restarts would be too large, an instance
takes several smaller ones: `Scenes` is a set of bounds, `Init` picks one, and
the properties are checked in each. `CHECK_DEADLOCK FALSE` is used where
bounded runs, moves, faults or log entries bring the instance to rest as the
program would come to rest; the queue, the sweeps and the route editors never
stop and are checked for deadlock.

### Queue: `queue` (`MCRunQueue`: five runs, four on one key, one on another)

Any order of calls and restarts. `LinesInv` has two parts: `HolderIsHead`, no
free slot with runs in line, and the holder is the oldest entry, and
`OneEntryPerRun`, no duplicates, so one release is enough. `PositionIsDistanceToAdmission`: the position reported to
users is the number of releases ahead. `SlotPassesInOrder`: a slot changes hands
only by its holder leaving. `ImplementsLock`: `RunQueue` implements
`AdmissionLock`. `QueuedIsServed`: once restarts stop, every waiting run is
admitted or leaves, under weak fairness of the release of an admitted run.
Releasing is the callers' obligation; that the reconciler meets it is
`EveryRunSettles`. Four runs on a key give a head, a middle, a tail and a
newcomer; the second key shows that keys do not disturb each other.

### Reconciler (`MCReconciler`)

- `reconciler`, five scenes: one run with every feature but pauses and forced
  deletion, one with pauses, stalls and deletion, both with one fault, one
  restart and a cache one write behind; one with crashes and a pods' cache that is
  behind by any number of states, with the same bounds; two runs on one key, deleted and
  force-deleted at any time; two runs of one ticket on two keys, so the queue
  does not separate them, with deletion, a restart and a cache two writes
  behind. `ArchivedBeforeReaped`, `FinalizerGuardsEvidence`, `RestartGuardHolds`
  and `FinishedRunIsNotRerun` concern the branches of a pass and the order of
  its calls, so one run reaches all of them, and a second fault reaches no
  branch one does not, since each ends the pass. `Inv` holds the types,
  `OneActivePerKey` and `OneActivePerTicket`, which two runs can break.
- `cleanup`, one run whose engine may hang, one fault, and one beside a late
  pods' cache, under `WedgeSpec`:
  `WedgedRunIsFailed` (the watchdog works without any event),
  `TerminalRunIsCleaned`, `DeletedRunGoes`, `VerdictIsDelivered`. The fault
  makes the retry paths necessary.
- `settles`, three runs of one key and one ticket, the first refused by the
  spec gates, under `FairSpec`: `EveryRunSettles`, the absence of a circular
  wait between slot and ticket. Two runs suffice for the wait, the third is
  behind both.

### Run configuration: `configuration`

Three versions of the ConfigMap, three failed calls, conflicts, crashes or lost
Jobs, both lanes, name-only pins included: pin, edit, and one more edit or a
deletion after the Job. `Inv`: with a pinned version the Job's volumes and
commands are of exactly that version, and nothing runs that the tree did not
declare. `RebuiltFromRecord`: after a recorded render, a rebuilt Job is the
same. `DriftStopsTheRun`: a pinned run does not go on over a ConfigMap that has
moved.

### Adapter pods: `scope_pods` (`MCScopePods`)

Two scopes of one environment and one alone with a token, one fault: the
smallest instance with a shared pod, a scope that joins it late, and a fallback
pod. `ObservedSessionSurvives`: no pass ends a session it saw active. `Inv`: no
pod is built without an address to dial. `EnvironmentsSettle`: pods converge to
the active scopes, castle learns their state, every wanted scope gets its
session.

### Watcher: `watcher` (`MCWatcher`), both lanes, five scenes

Hasty people with a failed call; late verdicts and retention, once with a failed
call and once with a restart; lost answers and abandoned assignments with a
fault and a restart; a calm world of three runs and two moves. `Inv`: types,
`OneRunInFlight` and, where memos and book are kept and no verdict is late,
`OneCommentPerFailure`. `RefireNeedsEntry`: a refire needs
an entry into the column. `DoneIsVerified`: the watcher moves a card to Done on a
delivered verdict only. In the calm scene `RearmIsAnswered` and
`FailedRunIsParked`. Two moves are enough to leave and re-enter a trigger
column; runs exceed moves so that the bound never stops a run that is due.

### Routes: `routes` (`MCRoutes`)

Two projects, two columns, four tags, three rules of every kind, three config
entries, at most two rules in the array and in a record: rules of two projects
in either order, a rule of `match: any` without tags, a reference that dangles until
its entry is declared, two entries one label satisfies. `RouteInv` holds that what
fires is in the library, that tag sorting and lookup agree, and that no
map order shows in a decision. `MigrationIsInvisible`: moving a project to a record changes no
decision.

### Assignment lane: `lane`

One usable assignment and one that can never be stamped, at most two deliveries at
which the usable one cannot be stamped either (the second of which meets what the
first left behind), one fault (a failed call, a
dropped stream or an early lease expiry), one restart, one deletion. `Inv`:
`OneRunPerAssignment` across redeliveries, restarts and lost answers of the
create, `OneTerminalPerRow` across repeated submits, of a row none of whose runs
was deleted, with the one event more that a misjudged delivery adds.
`RowAnswersRun`: a row that no delivery misjudged is closed only after its run, and
any row as completed only when the run completed its work.
`EveryAssignmentCloses`: neither a lost lease nor a row ahead in the lane
leaves a row open for ever, started ones that were misjudged excepted. Two rows are what the lease rule (one unstarted
lease) and the lane (one run, one waiting) need to get in each other's way.

### Proxy: `proxy` (`MCProxy`)

A run of the watcher's lane with two events and one of the assignment lane with
one, two streams, one fault, one restart: the smallest instance in which an old
handler, its successor and a foreign checkpoint meet. `Inv`: events land on
their own run's transcript, what was acknowledged is stored, and a run's only
transcript has no gap. `RestartDoesNotFork`: without faults, one transcript
across a restart. `EngineIsHeard`: every engine gets all acknowledged.

### Castle client: `observer`

Pages of two, two pages per drain, five events, one fault, one restart: a full
page and a short one, and a backlog beyond the budget. `Inv`: an observation is
the replay of the log it covers, it covers what castle had when it began or the
budget, the envelope outranks the record, and while no call fails the steps are
in stream order; after a failed call they need not be (section 6).
`ObserverCatchesUp`: the cursor reaches the end of the log.

### Sweeps: `sweeps` (`MCSweeps`)

Two scenes of two runs, of one name or two in one ticket: families age in one,
orphans are made in the other with one fault. `Inv`: what the retention took had
ended, was archived and past its window, and enough newer ones are
spared. `ParkedIsKept`: no run is deleted that the list showed parked for a
human, whatever became of it since; one that is parked later is not protected
(section 6). `OnlyOrphansAreReaped`: no sweep deletes a child of a run that exists.
`SweepsFinish`: what is expendable or orphaned goes, with no help from the
garbage collector.

### Fairness

- `ControllerFairness`: `SF(Begin(r))`, because the work queue is FIFO and its
  single worker comes round to every request, while another run's pass
  disables `Begin(r)` meanwhile; weak fairness of the steps of a begun pass, of
  the watch and of the kubelet. `SF(ForceWindowPasses)`: a deferral is enabled
  again on each pass and in the end older than the force window (90 s by default).
- `FairSpec` of the reconciler adds that engines come to an end. `WedgeSpec`
  adds instead that the stall window passes; engines may hang.
- The lane: the agent's two goroutines go on, runs end, castle leases
  what is queued and expires leases that are not taken up. A lease outlasts a
  delivery the processor is free for (an early expiry is a fault): without that,
  castle could take back every lease just before its submit.
- The watcher: the ticker polls for ever, runs and assignments make progress.
- `ScopePods`, `RunConfiguration`, `CastleObserver`: the reconciler requeues an
  open run for ever, so its passes go on; the cluster starts and removes pods,
  an adapter that can dial does.
- The proxy: the controller enrols, engines and handlers go on.
- The sweeps: both loops tick, the finalizer of a deleted run is reconciled.

Nothing is assumed of people, edits, faults, restarts or the garbage collector.

## 5. Proofs

Every theorem holds for all values of the constants that satisfy the module's
named assumption (`RunQueueAssumption`, `ReconcilerAssumption`, ...), for
infinite sets and unbounded faults and restarts where the module has them.

| Theorem | Says |
|---|---|
| `ReconcilerProofs`: `QueueTypeCorrect`, `LinesAreInOrder` | the queue's types and `LinesInv` (`HolderIsHead`, `OneEntryPerRun`) always hold |
| `ReportedPositionIsTrue` | so does `PositionIsDistanceToAdmission` |
| `SlotPassesOn` | `QueueSpec => SlotPassesInOrder` |
| `QueueImplementsLock` | `QueueSpec => ImplementsLock` |
| `ControllerTypeCorrect` | the controller's types and the composed queue's slot rule |
| `RecordsComeFirst` | `Spec => ArchivedBeforeReaped` |
| `FinalizerHolds` | `Spec => FinalizerGuardsEvidence` |
| `ControllerKeepsTheQueue` | `Spec => QueueSpec /\ ImplementsLock /\ SlotPassesInOrder`: the composition |
| `NoJobForFinishedRun` | `Spec => FinishedRunIsNotRerun` |
| `DeferralComesFirst` | `Spec => RestartGuardHolds`, of the pods the cache shows |
| `TicketOrderHolds`, `TicketLock` | two runs of a ticket are active together only if they were created in the same second; `[]OneActivePerTicket` when `DistinctTimes` |
| `LocksHold` | when `DistinctTimes`: always the types and `OneActivePerTicket`, and the whole `Inv`, which adds `OneActivePerKey`, as long as no operator restart has happened |
| `ConfigurationProofs`: `ConfigurationIsPinned` | `Spec => []Inv`, the types, the pin, the tree's declaration |
| `RebuildsAreIdentical` | `Spec => RebuiltFromRecord` |
| `DecisionsAreDetermined` | `RouteSpec => []RouteInv`, the types, what fires is served, nothing is an arbitrary choice |
| `MigrationChangesNoDecision` | `RouteSpec => MigrationIsInvisible` |
| `ScopePodsProofs`: `PodsAreDialable` | `Spec => []Inv`, the types, and no pod without an address |
| `SessionsSurvive` | `Spec => ObservedSessionSurvives` |
| `SweepsProofs`: `RetentionSparesTheNewest` | `Spec => []Inv`, the types, the fail-safes and the keep-last window, when `MidPass` is false |
| `RetentionIsFailSafe` | `Spec => []SweptIsExpendable /\ ParkedIsKept`, when `MidPass` is false |
| `SweepsSpareTheLiving` | `Spec => OnlyOrphansAreReaped`, when `MidPass` is false |
| `AssignmentLaneProofs`: `OneRunOneEvent` | `Spec => []Inv`, the types, one run of a row, one terminal event and one more for a misjudged delivery |
| `ClosedRowTellsTheTruth` | `Spec => []RowAnswersRun` |
| `KanboardWatcherProofs`: `OneRunOneComment` | `Spec => []Inv`, the types, `OneRunInFlight`, `OneCommentPerFailure` |
| `RefireFollowsEntry` | `Spec => RefireNeedsEntry` |
| `DoneFollowsVerdict` | `Spec => DoneIsVerified` |
| `RunEventProxyProofs`: `AcknowledgedEventsAreStored` | `Spec => []Inv`, the types, the owner of a transcript, no gap in it, nothing acknowledged is lost |
| `OneTranscriptAcrossRestarts` | `Spec => []RestartDoesNotFork` |
| `CastleObserverProofs`: `ObservationsAreReplays` | `Spec => []Inv`, the types, an observation is the replay of the log it covers, is complete, prefers the envelope, and has the steps in order until a call fails |

The hypotheses are the code's own limits, each listed in section 6: names used
again in the middle of a sweep, timestamps of one second, a restart that hands
the slot to the first name.

The arguments, and why the invariants are stronger than what they prove:

- **Queue.** `QueueInv` says that every line is a sequence of its own runs
  without duplicates and that each slot is what `AdmitHead` gives a free one.
  None of the three invariants is inductive alone: `Release` leaves the head in
  its slot only if the removed run stands in the line once and is not the holder
  standing further back, which takes both `HolderIsHead` and `OneEntryPerRun`.
  The reported position counts the entries before a run's only one
  (`PendingAhead`). The refinement maps a step to `Join`, `Leave`, `Restart` or a
  stutter (`LockStep`; `Recover` is `Restart`).
- **Reconciler, evidence.** What destroys evidence is the reap of a pass, and a
  pass acts on a copy of the object from a cache that lags. So `IInv` carries the
  mark `archived` through every copy: in the stored object, the cache, each state
  the watch still holds and the view of the pass, the mark implies castle's record
  (`AllAttested`). `PassGood` adds what a pass has established at the steps that
  destroy something: a record before the reap, a record and neither Job nor
  adapter pods before the finalizer goes. Each action has a lemma that it
  keeps its part (`WriteIsGood` for the writes, `CacheIsGood` for the watch), and
  `EveryStepIsGood` puts them together; the queue's part of it is `QueueInv`.
- **Composition.** The queue is checked and proved by itself, with any calls in
  any order; the controller makes some of them. `ControllerCalls` goes through
  the paths of a pass, the world and a restart: each is one call or none, and a
  restart's `Recover` gets a finite list since only finitely many runs were
  created so far (`Born`, part of `IInv` for this). So the controller's
  behaviours are behaviours of `QueueSpec`, and the refinement of
  `AdmissionLock` and the order of hand-over carry over. The liveness of the
  queue does not: that a holder releases is `QueueFairSpec`'s assumption, and
  what the controller owes it (`TerminalRunIsCleaned` and the like) is checked.
- **Reconciler, order.** `OrderInv` says that the cache, the events the watch has
  still to deliver and the stored objects are points of one history (`Chain`,
  along `Before`, in which a finished run stays finished and a created one stays
  created), and that the view of a pass is one of those points. So what a pass
  reads is late but never undone. What follows is per property: a Job that
  was created is there or its run is seen to be over, so no later pass starts it
  again; the archive gate makes sure of that, since it cannot write over a stale
  view (`NoSecondStart`). A deferral mark that was taken off
  leaves no Job behind (`CleanupOrder`). A run is launched only when the cache
  shows every older run of its ticket over, and over in the cache is over in the
  cluster (`TicketOrder`). Older is by `CreatedAt`, with names to break ties, and
  a run that comes later can win a tie: hence `OnlyTiesMeet` without a hypothesis,
  and the lock under `DistinctTimes`. For the other lock `SlotIsHeld` ties a Job to
  its slot: a run whose Job is there and that is not over holds the slot of its
  key. A restart makes it false, not only unprovable.
- **Configuration.** The invariant types the pass: at each of its steps the
  versions it carries are of the pin, parsed and fitting (`PassIsGood`), and so
  are record and Job; an edit only adds versions, so what was good stays good.
- **Adapter pods.** The invariant says what the pass may have left to do at each
  step: at "delete" only pods nobody observed wants, at "create" only wanted
  ones, and behind `ResolveRunner` the address if one is needed (`AddressKnown`).
  `BuiltPodsDial` then shows that whatever is built dials.
- **Sweeps.** A list ages while the pass works. The invariant says what does not:
  a doomed run stays expendable (`ExpendableStays`), was not parked on the list, and no
  other existing run has its name; a listed child is still the listed one or gone (`ListOK`); a condemned
  child's owner stays gone. All of it rests on names not being used
  again in the middle of a pass. The keep-last window is judged among runs that
  exist, and they may all be deleted later; what lasts is that of the runs
  above a taken one, `KeepLast` are not taken (`Spares`, where taken is deleted
  or doomed by the retention). Only a list takes runs. Were it to leave some
  taken run too few, one such run would be on top (`OneIsOnTop`, by the well-founded
  order of finite sets); the runs that spoke against keeping it are then all
  untaken, since a taken one of them has enough above it and they count here too.
- **Lane.** `ProcOrder` says what the processor has established at each of its
  steps: before `CreateRun` there is no run of the row, or its listing failed; a
  terminal event about to be submitted is what the attached run tells, and stays
  it. Two sources can close a row: the judgement of a delivery, always with the
  same correlation id and hence once, and the bridge (`Bridged`), which no row of
  `Bad` reaches. `OneTerminal` counts them (`Answers`) and says of the second why it
  does not answer again: the ledger has it, no delivery of it is under way, or
  the bridge repeats a correlation id that castle holds.
- **Watcher.** A poll acts on a run index and a card that are older than the
  memos. `IndexTells`: what the index says of a settled run is true for good.
  `OnlyNewest`: every run but the newest is over, and in the castle lane the book
  has the one assignment that may still get a run. `Remembered`: while nobody has
  moved the card since the fire, the memo still holds its column, and is not
  pruned, since a run or submission of the ticket is known. `Commented`: a failure
  that was commented is the one in the run memo, or an earlier run's. `Bounded`:
  in the castle lane there are no more runs than assignments taken up.
- **Proxy.** `castle` and `entries` only grow. `Carries` says what the handler of a
  stream has at each step: the proxy run of its engine, the next event after the
  last one acknowledged, the one before it stored, and from `StampRun` on a
  castle run of the same owner. `Heard` and `Served` tie engine and handler
  together while the connection is open; an abandoned handler keeps only what it
  carries. `AckedIsStored` and `TranscriptHasNoGap` follow at the ack and at the
  append. `OnRecorded` is for the restart: as long as no call failed, whatever was
  logged, cached or is being forwarded is on the castle run that the stamp names.
  The assumption asks that 0, which stands for no stream, is none, and that
  finitely many runs are dispatched, each of which has a castle run at the start.

- **Routes.** `RouteInv` and `MigrationIsInvisible` need no strengthening beyond the
  types: they speak of functions of one payload, so the work is in lemmas about those. The
  first rule of a set of places is the least one (`FirstOf`, by the well-founded order of
  numbers); `MatchRoute` is a place of the list whose rule is of the column and
  fits, and depends on nothing but the project's list, so a migration, which gives
  the project the same list (`RulesOf`), changes no decision. That a card runs under
  the only entry its labels allow takes the finiteness of tags and entries
  (`RoutesAssumption`): two different ones would be counted and refused. The proof
  found a statement that was too strong: a rule of `match: any` without tags fits no
  card by the tag rule and every card as the general rule, hence `RuleFits`; `MCRoutes`
  has such a rule since.
- **Castle client.** What the client keeps is not the replay of a prefix of the log:
  after a failed page it holds events from beyond its cursor, folds them again
  later, and in between can hold a scope as wanted that it had already seen released.
  `ReplayOf(log, kept, p, h)` says what it is: true of the first `p` events (`Place`, where
  the drain is, or the cursor), with nothing from beyond `h` (`Horizon`, the cursor plus a
  page budget, or the end of the last page), and where a wanted scope is not the last word
  about it, its release is within `h`, so it will be folded again before anything is observed. Folding
  one event moves `p` (`FoldReplays`, by the kind of event), a failed page moves it back to
  the cursor (`ReplayMoves`), the last page draws `h` in to its own end, and at the
  end of a drain `p = h`, where `ReplayOf` is the replay the property asks for
  (`ActiveIsReplay`). `DrainInv` does the arithmetic: pages before the last are full, so
  the last ends at the log's end or at the budget. That
  a scope is wanted once and released after (`LogInv`) is what the engine promises.

Only model-checked: the liveness properties (temporal proofs under fairness and
`ENABLED` are beyond the prover).

## 6. Where code and documentation disagree

- `queue.go:26-28` promises at most one executing run of a class per repository.
  `Recover` hands the slot to the first name (`queue.go:118-147`), not to the run
  that holds a Job; two runs on one key and one restart break `OneActivePerKey`.
- `main.go:874-875` of the watcher says that the re-arm move is the refire
  decision. A card re-armed between the run listing and the board listing of one
  poll is taken into the memo while the gate still sees the old run active, and is
  never fired (`main.go:726-731, 795, 856-859`); `RearmIsAnswered` is stated for
  people who wait a poll.
- `runstamp/stamp.go:53-55` says that what a name-only pin executed is stamped
  into the status. The Job is created before that write
  (`criteriarun_controller.go:455, 530`): a conflict, and the next pass records a
  render of the ConfigMap as it is by then, beside a Job of the older one.
- `castle.go:186-187` says that a restarted controller recomputes the stall
  baseline from history by the full replay. A replay longer than the page budget
  (`castle.go:35-37`) takes several passes, and the watchdog judges each of them
  by the old prefix it has seen (`stallwatchdog.go:57-75`). This is why
  `ObservationIsComplete` has the budget in it.
- `castle.go:154-156` says that the steps of an observation are in stream order. A
  failed page after a folded one returns without moving the cursor
  (`castle.go:477-479`), and the next drain appends the same outcomes again
  (`castle.go:497-500`): the archive record repeats them, and its cap of 256 may cut the
  last ones. `StepsInStreamOrder` is therefore claimed while no call has failed; TLC
  breaks it with one failed page. The other maps absorb the repetition, which
  `ObservationsAreReplays` proves.
- `per_scope.go:128-131` lets one peer pod serve every scope of an environment.
  A pod built for a single scope with a token is pinned to it, and is not rebuilt
  when a second scope appears; `ScopeIsServed` is checked where the compiled graph
  names the members (`GraphDefs`).
- `proxy.go:401-407` says the castle run id is computed once per run and cached.
  It is read, created and cached under separate lock holds: two streams of one
  proxy run, or an unanswered create, make two castle runs. `RestartDoesNotFork`
  therefore speaks of runs without a failed call or a broken stream.

- `crretention.go:12-15` says that a run parked in `need_assistance` is never
  deleted automatically. The sweep looks at the final state on its list and deletes by
  name later (`crretention.go:241, 277`). A run that its Job ended gets castle's
  verdict in a later pass (`criteriarun_controller.go:169-196, 848-850`): parked
  between list and delete, it is deleted. `ParkedIsKept` speaks of what the list
  showed.
- `terminalcleanup.go:81-86` says that everything but the settled states defers the
  reap, a container that has not started among them. A pod without container
  statuses (`terminalcleanup.go:130-134`), not scheduled yet or just created, and one
  the pod cache does not hold yet (`terminalcleanup.go:91`) are taken as settled, and
  the Job is reaped without a deferral. `RestartGuardHolds` speaks of what the cache
  shows.
- `agent.go:635-637` says that a re-delivery must reattach, and `agentbridge.go:260-265`
  that nothing is created for an assignment that fails closed. The judgement of a
  delivery comes before the recorded run is looked up (`agent.go:537-558`), and
  `BuildRun` reads the routes file anew (`run.go:114-122`): a redelivery at a moment when
  the file is unreadable, or lacks the workflow, closes the row as failed while its
  run goes on, or adds a second terminal event, under another correlation id, to
  a row the bridge had closed. `OneTerminalPerRow`
  and `RowAnswersRun` name these rows (`FailedClosed`). If that submit fails too, a
  started row stays open, since its lease does not expire: the last disjunct of
  `EveryAssignmentCloses`.
- `main.go:696-698` of the watcher says that only the columns the project's rules declare
  are queried. They are logged (`main.go:699-700`); the poll fetches every task
  of the project (`main.go:731`) and resolves each. `Poll` does as the code does.

Known limits of the code, met while choosing the bounds; each is why a property
above has a condition, and each reappears when it is dropped:

- The sweeps delete by name without the UID (`crretention.go:276`): with
  `MidPass = TRUE` a run or child created under a listed name is deleted in its
  predecessor's place.
- A name-only pin's binding is read twice (`projectbinding.go:175`), so volumes
  and commands can be of two versions; `PinIsHonored` speaks of pinned versions.
- `EveryRunSettles` with `"force"`: a run whose finalizer is stripped never
  releases its slot (`criteriarun_controller.go:125-128`).
- `FinishedRunIsNotRerun` without `"archive"`: a pass reading a stale phase
  creates the Job of a finished, reaped run again.
- `OneActivePerTicket` with equal `CreatedAt`, one key and one fault: the Job is
  created, the status write is lost, and the tie is broken by name on the retry
  (`DistinctTimes` in the proofs).
- The archive record keeps the Job-derived phase when castle's verdict follows
  (`terminalarchive.go:68`), and the slot passes on when castle reports the run
  over, while its container may still run (`criteriarun_controller.go:628`).
- `MigrationIsInvisible` compares payloads that validate. When every live project has
  its record, the plan is to delete the array (`routes.go:118-119`), and the last
  deletion leaves `routes` empty, which `Validate` rejects (`routes.go:533-534`): the
  property does not cover that step, and a watcher that loads such a payload fails
  its polls.
- `RefireNeedsEntry` with `"retention"` or `"abandon"`: memos are collected when
  no run is indexed, so a card still parked in its trigger column fires again
  (`main.go:766-781`). With `RestartWatcher` it does too, which `main.go:876` documents.
- `RearmIsAnswered` and `FailedRunIsParked` with a fault: the memo was taken before
  the failed create, submission or move, and nothing repeats it
  (`main.go:752-759, 795, 892`).
- `OneCommentPerFailure` with `"lateVerdict"`: the verdict changes the summary,
  so a failure that was parked and moved on is parked and commented again. With
  `"lostAck"` a second run is in flight; when it settles, the summary of the
  failed one changes (`main.go:749` compares all of it).
- `OneTerminalPerRow` excepts rows of which a run was deleted: the lane lets go of
  the row although the submit of the loss may have failed (`agentbridge.go:214`),
  the next delivery creates a run whose attempts count from 1, and after a restart
  and a failed call castle can get a terminal event of either.
- `OneRunInFlight` with `"lostAck"`: the unacknowledged submission is repeated
  under a new key, as `adapter.go:170-178` accepts.
- `OneRunPerAssignment` excepts assignments whose run listing failed (`blind`): the
  failure counts as a first delivery and a second run is created, although
  `agent.go:635-637` says a re-delivery must reattach.
- `EveryAssignmentCloses` excepts deleted runs: `bridgeTerminal` frees the lane after a
  failed submit on `recordLost` (`agentbridge.go:214`), although the comment above it
  says that the release happens only if the submit succeeded. With two faults
  (a failed listing and a failed create after a restart) a started row is left
  alone as well: its lease does not expire, since it is started.
- A run that succeeded and has no verdict yet closes its row as failed
  (`agentbridge.go:231`); a verdict that lands later does not revise the row. The
  watcher waits in the same situation (`main.go:114`).
- "Every submit is gated on the assignment's disposition" (`agentbridge.go:19`): the
  disposition is read once, before the run is attached; what gates a submit is
  castle. And since each delivery counts the attempts up, the correlation ids of
  two deliveries differ, so castle's dedupe covers the retries of one delivery
  (`agent.go:61-63`), not "a bridge restart" (`agentclient.go:29-31`).

## 7. Not modelled

- The shadow stream (`internal/control/stream.go`, `payload.go`,
  `watchdog.go`) compares stamped specs and logs; the JSON-RPC client and
  `cmd/operator/main.go` are I/O, flags and wiring (the startup order is in
  `RestartOperator`).
- Manifests, graph payloads, prompts, images and secrets are data that the
  modelled control only carries; run discovery, the text limits of archive
  records, the backfill's counters, and the sweep of old data directories on
  disk (`retention.go`) are left out.
- Several cards, several operator replicas (the deployment runs one, without
  leader election), a second agent, the agent's registration and heartbeats, and
  assignments outside its scope.
- Spec edits of a queued run, which change its queue key (`queue.go:186`), and a
  runner pod that comes back under another address.
- `src/scripts/platform`, `src/repogate`: one-shot tools. The workflow trees,
  harnesses and charts are not this program.
