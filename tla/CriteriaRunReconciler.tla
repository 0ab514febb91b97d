------------------------ MODULE CriteriaRunReconciler ------------------------
(***************************************************************************)
(* The operator's CriteriaRun controller (internal/controller): the        *)
(* admission queue, the reconcile pass with its early returns, the         *)
(* terminal archive gate, the guarded reap of child Jobs and the finalizer,*)
(* run against an API server read through an informer cache, the Job       *)
(* controller and kubelet, and castle.                                     *)
(*                                                                         *)
(* The controller runs one pass at a time (MaxConcurrentReconciles is 1).  *)
(* A pass is a sequence of steps, one per group of calls between which     *)
(* other actors can act; any call may fail, which ends the pass with an    *)
(* error and a backoff requeue, and the process may be restarted between   *)
(* any two steps.                                                          *)
(***************************************************************************)
EXTENDS RunQueue

CONSTANTS
  TicketOf,      \* spec.ticketId
  CreatedAt,     \* metadata.creationTimestamp, in seconds
  Scenes         \* what an instance lets happen, see Scene: one is chosen

FeatureNames ==
  {"castle",     \* --castle-addr is set: observations are made
   "archive",    \* the archive lane is configured
   "perScope",   \* spec.perScopeSessions
   "stall",      \* STALL_WINDOW is positive
   "pause",      \* an operator pauses, stops and resumes the castle run
   "drift",      \* the base image, config or adapter pin moves on under a run
   "crash",      \* runner containers exit nonzero
   "delete",     \* CriteriaRuns are deleted
   "force",      \* a finalizer is stripped by hand
   "podLag"}     \* the informer cache of the pods is behind

Scene == [runs : SUBSET Run,               \* the runs that are created
          refused : SUBSET Run,            \* those whose spec fails the source or binding gates
          features : SUBSET FeatureNames,
          lag : Nat \ {0},                 \* bound on the writes the cache is behind
          faults : Nat,                    \* bound on failed calls (API server, castle, archive)
          restarts : Nat]                  \* bound on operator restarts

ASSUME ReconcilerAssumption ==
  /\ DOMAIN TicketOf = Run
  /\ CreatedAt \in [Run -> Nat]
  /\ Scenes \subseteq Scene

VARIABLES
  cr,        \* the CriteriaRun objects in the API server
  seen,      \* the same objects in the informer cache the controller reads
  watch,     \* the later states of cr the watch has not delivered yet
  job,       \* runner Job of each run
  pod,       \* runner pod of each run
  podSeen,   \* the runner pod in the informer cache, when that may be behind
  adapters,  \* whether the run has per-scope adapter pods
  castle,    \* castle's run record of each run
  archive,   \* castle's archive record: its final phase, or "none"
  drift,     \* the pin of the run that no longer matches the cluster
  wake,      \* runs with a reconcile request queued or scheduled
  pass,      \* the reconcile pass in progress
  scene,     \* what may happen, fixed from the start
  faults, restarts

pods == <<pod, podSeen>>
clusterVars == <<job, pod, podSeen, adapters, castle, archive, drift>>
budgetVars == <<scene, faults, restarts>>
vars == <<queues, running, cr, seen, watch, clusterVars, wake, pass, budgetVars>>

Phase == {"", "Pending", "Running", "Succeeded", "Failed"}
Mark == {"finalizer", "actuated", "archived", "archivePending",
         "castleTerminalObserved", "stallWatchdog", "terminalCleanup"}
CRObject == [life : {"unborn", "live", "deleting", "gone"},
             phase : Phase, marks : SUBSET Mark]
JobStatus == {"none", "pending", "active", "complete", "failed"}
PodStatus == {"none", "pending", "waiting", "running", "crashed", "done", "terminating"}
CastleStatus == {"unknown", "running", "paused", "stopped", "succeeded", "failed"}
Observation == CastleStatus \cup {"error", "off"}
PassStep == {"idle", "refetch", "admitted", "observe", "observeTerminal",
             "archive", "reap", "converge", "unfinalize"}
Goal == {"", "finalize", "fail", "terminal", "complete"}

Has(o, m) == m \in o.marks
With(o, M) == [o EXCEPT !.marks = @ \cup M]
Without(o, M) == [o EXCEPT !.marks = @ \ M]
Exists(o) == o.life \in {"live", "deleting"}
On(f) == f \in scene.features

-----------------------------------------------------------------------------
(* Pure helpers of the controller. *)
SucceededOnly(p) == p = "Succeeded"   \* mutant
IsTerminalPhase(p) == p \in {"Succeeded", "Failed"}

DerivePhase(j) ==
  CASE j = "active"   -> "Running"
    [] j = "complete" -> "Succeeded"
    [] j = "failed"   -> "Failed"
    [] OTHER          -> "Pending"

RunOlder(a, b) ==
  IF CreatedAt[a] # CreatedAt[b] THEN CreatedAt[a] < CreatedAt[b] ELSE a < b

ActuatedBlockers(r) ==                \* mutant
  {o \in Run \ {r} : /\ TicketOf[o] = TicketOf[r]
                     /\ seen[o].life = "live" /\ ~IsTerminalPhase(seen[o].phase)
                     /\ Has(seen[o], "actuated")}

\* The runs blocking r's admission under the one-run-per-ticket rule.
SingleActiveBlockers(r) ==
  {o \in Run \ {r} :
     /\ TicketOf[o] = TicketOf[r]
     /\ seen[o].life = "live" /\ ~IsTerminalPhase(seen[o].phase)
     /\ Has(seen[o], "actuated") \/ RunOlder(o, r)}

CastleTerminal(c) == c \in {"succeeded", "failed"}

\* What observeCastle layers onto a pending status.
WithObservation(o, c) ==
  IF CastleTerminal(c)
  THEN [With(o, {"castleTerminalObserved"}) EXCEPT
          !.phase = IF c = "succeeded" THEN "Succeeded" ELSE "Failed"]
  ELSE o

\* Castle may still have a verdict for a run whose phase is terminal.
NeverAwaited(o) == FALSE              \* mutant
VerdictAwaited(o) ==
  On("castle") /\ ~Has(o, "castleTerminalObserved") /\ ~Has(o, "stallWatchdog")

\* The record was not stored, or its last try failed.
OwedOnce(o) ==                        \* mutant
  On("archive") /\ ~Has(o, "archived") /\ ~Has(o, "archivePending")
ArchiveOwed(o) == On("archive") /\ (~Has(o, "archived") \/ Has(o, "archivePending"))

\* The runner pod as the pod list of the restart guard shows it.
CachedPod(r) == IF On("podLag") THEN podSeen[r] ELSE pod[r]

\* The listed pod shows a container that can start another attempt.  A pod that
\* is not in the cache yet shows none, nor does one without container statuses:
\* both count as settled, as a pod that is gone, terminating or at its end does.
WaitingIsSettled(r) == CachedPod(r) \in {"running", "crashed"}   \* mutant
RunnerRestartPending(r) == CachedPod(r) \in {"waiting", "running", "crashed"}

\* Taking the runner Job off the API leaves its pod to the kubelet's teardown.
DropRunnerJob(r) ==
  /\ job' = [job EXCEPT ![r] = "none"]
  /\ pod' = [pod EXCEPT ![r] = IF @ \in {"none", "done"} THEN "none" ELSE "terminating"]
  /\ UNCHANGED podSeen

-----------------------------------------------------------------------------
(* A pass: where it is, the object it holds in memory, what its cleanup is *)
(* for, the Job phase and the castle observation it read.                  *)
IdlePass == [step |-> "idle", run |-> NoRun, view |-> [life |-> "unborn", phase |-> "", marks |-> {}],
             goal |-> "", jobPhase |-> "", obs |-> "off", provisioned |-> FALSE]

PassAt(step, r, view) == [IdlePass EXCEPT !.step = step, !.run = r, !.view = view]

EndPassSilently(requeue) == pass' = IdlePass /\ UNCHANGED wake   \* mutant

\* The pass returns; requeue is RequeueAfter or the backoff of an error.
EndPass(requeue) ==
  /\ pass' = IdlePass
  /\ wake' = IF requeue THEN wake \cup {pass.run} ELSE wake

\* A write of an object read as base: the API server refuses a stale one.
Stale(r, base) == cr[r] # base
Write(r, base, new) == ~Stale(r, base) /\ cr' = [cr EXCEPT ![r] = new]

\* A failed call, within the bound of the instance.
Fault == faults < scene.faults /\ faults' = faults + 1 /\ UNCHANGED <<scene, restarts>>
NoFault == UNCHANGED budgetVars

\* The fail-closed paths up to their Release: the failed phase persists, the
\* slot is freed, and the archive gate comes next.  A write conflict is an
\* error and leaves everything as it was.
FailRun(r, base, update, obs, woken) ==
  LET failed == [update EXCEPT !.phase = "Failed"]
  IN \/ /\ Write(r, base, failed)
        /\ Release(r)
        /\ pass' = [PassAt("archive", r, failed) EXCEPT !.goal = "fail", !.obs = obs]
        /\ wake' = woken
     \/ /\ Stale(r, base)
        /\ pass' = IdlePass
        /\ wake' = woken \cup {r}
        /\ UNCHANGED <<queueVars, cr>>

-----------------------------------------------------------------------------
(* The reconcile pass. *)

\* The workflow-source and binding gates: a spec that can never be provisioned
\* fails before it is queued.
SpecRefused(r) == r \in scene.refused
RefuseSpec(r, view, woken) == SpecRefused(r) /\ FailRun(r, view, view, "off", woken)

\* From the fetched object to the first branch that leaves the handler's
\* admission part: terminal resync, refusal, or the queue.
Dispatch(r, view, woken) ==
  \/ /\ IsTerminalPhase(view.phase)
     /\ Release(r)
     /\ pass' = PassAt("observeTerminal", r, view)
     /\ wake' = woken
     /\ UNCHANGED cr
  \/ /\ ~IsTerminalPhase(view.phase)
     /\ RefuseSpec(r, view, woken)
  \/ /\ ~IsTerminalPhase(view.phase)
     /\ ~SpecRefused(r)
     /\ Enqueue(r)
     /\ IF running'[KeyOf[r]] = r
        THEN /\ pass' = PassAt("admitted", r, view)
             /\ wake' = woken
             /\ UNCHANGED cr
        ELSE /\ pass' = IdlePass
             /\ wake' = woken \cup {r}
             /\ LET queued == [Without(view, {"actuated"}) EXCEPT !.phase = "Pending"]
                IN IF Stale(r, view) THEN UNCHANGED cr ELSE Write(r, view, queued)

NotFound(r) ==
  /\ ~Exists(seen[r])
  /\ wake' = wake \ {r}
  /\ UNCHANGED <<queueVars, cr, pass>>

StartFinalize(r) ==
  /\ seen[r].life = "deleting"
  /\ Release(r)
  /\ pass' = [PassAt("archive", r, seen[r]) EXCEPT !.goal = "finalize"]
  /\ wake' = wake \ {r}
  /\ UNCHANGED cr

AddFinalizer(r) ==
  /\ seen[r].life = "live" /\ ~Has(seen[r], "finalizer")
  /\ \/ /\ Write(r, seen[r], With(seen[r], {"finalizer"}))
        /\ pass' = PassAt("refetch", r, seen[r])
        /\ wake' = wake \ {r}
     \/ /\ Stale(r, seen[r])
        /\ UNCHANGED <<cr, pass, wake>>
  /\ UNCHANGED queueVars

Reconcile(r) ==
  /\ pass.step = "idle" /\ r \in wake
  /\ \/ NotFound(r)
     \/ StartFinalize(r)
     \/ AddFinalizer(r)
     \/ seen[r].life = "live" /\ Has(seen[r], "finalizer") /\ Dispatch(r, seen[r], wake \ {r})
  /\ UNCHANGED <<seen, clusterVars, budgetVars>>

\* The re-read after the finalizer write, which the cache may not show yet.
Refetched ==
  /\ pass.step = "refetch"
  /\ IF Exists(seen[pass.run])
     THEN Dispatch(pass.run, seen[pass.run], wake)
     ELSE EndPass(TRUE) /\ UNCHANGED <<queueVars, cr>>
  /\ UNCHANGED <<seen, clusterVars, budgetVars>>

RefuseHoldingSlot ==                  \* mutant
  /\ pass.step = "admitted"
  /\ ~Has(pass.view, "actuated") /\ SingleActiveBlockers(pass.run) # {}
  /\ EndPass(TRUE)
  /\ UNCHANGED <<queueVars, cr, seen, clusterVars, budgetVars>>

\* The ticket already has a live run: give the slot back and retry later.
RefuseSecondRun ==
  LET r == pass.run
  IN /\ pass.step = "admitted"
     /\ ~Has(pass.view, "actuated") /\ SingleActiveBlockers(r) # {}
     /\ Release(r)
     /\ EndPass(TRUE)
     /\ UNCHANGED <<cr, seen, clusterVars, budgetVars>>

\* The pins that no longer match what the cluster declares: the base image is
\* compared when its probe answered and the Job is still going or gone, the
\* rendered config always.
RunnerImageMismatch(r) ==
  /\ drift[r] = "image"
  /\ (job[r] \in {"pending", "active"} \/ (job[r] = "none" /\ Has(pass.view, "actuated")))
ConfigDrifted(r) == drift[r] = "config"
PinMismatch(r, probed) == (probed /\ RunnerImageMismatch(r)) \/ ConfigDrifted(r)

Provision ==
  LET r == pass.run
  IN /\ pass.step = "admitted"
     /\ Has(pass.view, "actuated") \/ SingleActiveBlockers(r) = {}
     /\ \E probed \in BOOLEAN :
          \/ /\ PinMismatch(r, probed)
             /\ FailRun(r, pass.view, pass.view, "off", wake)
             /\ UNCHANGED job
          \/ /\ ~PinMismatch(r, probed)
             /\ job' = [job EXCEPT ![r] = IF @ = "none" THEN "pending" ELSE @]
             /\ pass' = [pass EXCEPT !.step = "observe",
                                     !.jobPhase = DerivePhase(job'[r]),
                                     !.provisioned = job[r] = "none"]
             \* a created Job's watch event requests its owner again
             /\ wake' = IF job[r] = "none" THEN wake \cup {r} ELSE wake
             /\ UNCHANGED <<queueVars, cr>>
     /\ UNCHANGED <<seen, pods, adapters, castle, archive, drift, budgetVars>>

\* The observation a healthy castle gives of run r; before the run is
\* registered there is none.
CastleView(r) == IF On("castle") THEN castle[r] ELSE "off"

\* The pending status of the pass: the Job's phase, then castle's outcome.
PendingStatus(obs) ==
  WithObservation([With(pass.view, {"actuated"}) EXCEPT !.phase = pass.jobPhase], obs)

CanStall(obs) ==
  On("stall") /\ obs = "running" /\ PendingStatus(obs).phase = "Running"

\* The step-progress window has passed: fail the run, engine and all.
FailRunStalled ==
  LET r == pass.run
      obs == CastleView(r)
  IN /\ pass.step = "observe" /\ CanStall(obs)
     /\ FailRun(r, pass.view, With(PendingStatus(obs), {"stallWatchdog"}), obs, wake)
     /\ UNCHANGED <<seen, clusterVars, budgetVars>>

\* Observe castle and write the status once; an unavailable observation leaves
\* the Job-derived status.
ObserveAndStamp ==
  LET r == pass.run
  IN /\ pass.step = "observe"
     /\ \E obs \in {CastleView(r), "error"} :
          LET known == IF obs = "unknown" THEN "error" ELSE obs
              update == PendingStatus(known)
              reap == IsTerminalPhase(update.phase) /\ ~pass.provisioned
          IN /\ IF obs = CastleView(r) THEN NoFault ELSE On("castle") /\ Fault
             /\ IF update # pass.view /\ Stale(r, pass.view)
                THEN EndPass(TRUE) /\ UNCHANGED cr
                ELSE /\ cr' = IF update = pass.view THEN cr ELSE [cr EXCEPT ![r] = update]
                     /\ pass' = [pass EXCEPT !.step = IF reap THEN "archive" ELSE "converge",
                                             !.goal = IF reap THEN "complete" ELSE "",
                                             !.view = update, !.obs = known]
                     /\ UNCHANGED wake
     /\ UNCHANGED <<queueVars, seen, clusterVars>>

\* The terminal branch re-derives the outcome from castle before any cleanup;
\* a run castle has no record of is cleaned up without one.
ObserveTerminal ==
  LET r == pass.run
      update == WithObservation(pass.view, CastleView(r))
  IN /\ pass.step = "observeTerminal"
     /\ \/ /\ NoFault
           /\ IF update # pass.view /\ Stale(r, pass.view)
              THEN EndPass(TRUE) /\ UNCHANGED cr
              ELSE /\ cr' = IF update = pass.view THEN cr ELSE [cr EXCEPT ![r] = update]
                   /\ pass' = [pass EXCEPT !.step = "archive", !.goal = "terminal",
                                           !.view = update, !.obs = CastleView(r)]
                   /\ UNCHANGED wake
        \/ On("castle") /\ Fault /\ EndPass(TRUE) /\ UNCHANGED cr
     /\ UNCHANGED <<queueVars, seen, clusterVars>>

\* The stamps of the archive gate are written on a re-read of the cache.
Stampable(r, o) == Exists(seen[r]) /\ (o = seen[r] \/ ~Stale(r, seen[r]))
Stamp(r, o) == cr' = IF o = seen[r] THEN cr ELSE [cr EXCEPT ![r] = o]

MarkTerminalArchived(r) ==
  LET stored == With(Without(seen[r], {"archivePending"}), {"archived"})
  IN IF Stampable(r, stored)
     THEN Stamp(r, stored) /\ pass' = [pass EXCEPT !.step = "reap"] /\ UNCHANGED wake
     ELSE EndPass(TRUE) /\ UNCHANGED cr

MarkTerminalArchivePending(r) ==
  LET pending == With(seen[r], {"archivePending"})
  IN IF Stampable(r, pending) THEN Stamp(r, pending) ELSE UNCHANGED cr

\* ensureTerminalArchived: the record carries the phase of the object the pass
\* holds.
ArchiveGate ==
  LET r == pass.run
  IN /\ pass.step = "archive"
     /\ \/ /\ ~ArchiveOwed(pass.view)
           /\ pass' = [pass EXCEPT !.step = "reap"]
           /\ NoFault /\ UNCHANGED <<cr, wake, archive>>
        \/ /\ ArchiveOwed(pass.view) /\ NoFault
           /\ archive' = [archive EXCEPT ![r] = pass.view.phase]
           /\ MarkTerminalArchived(r)
        \/ /\ ArchiveOwed(pass.view) /\ Fault
           /\ MarkTerminalArchivePending(r) /\ EndPass(TRUE)
           /\ UNCHANGED archive
     /\ UNCHANGED <<queueVars, seen, job, pods, adapters, castle, drift>>

KeepAdapters(r) == UNCHANGED adapters   \* mutant
DropAdapters(r) == adapters' = [adapters EXCEPT ![r] = FALSE]

\* The fail-closed paths delete everything at once.
ReapFailed ==
  LET r == pass.run
  IN /\ pass.step = "reap" /\ pass.goal = "fail"
     /\ DropRunnerJob(r) /\ DropAdapters(r)
     /\ EndPass(job[r] # "none")   \* the Job's deletion event
     /\ UNCHANGED <<queueVars, cr, seen, castle, archive, drift, budgetVars>>

ReapFinalized ==
  LET r == pass.run
  IN /\ pass.step = "reap" /\ pass.goal = "finalize"
     /\ IF Exists(seen[r])
        THEN /\ DropRunnerJob(r) /\ DropAdapters(r)
             /\ pass' = [pass EXCEPT !.step = "unfinalize", !.view = seen[r]]
             /\ UNCHANGED wake
        ELSE EndPass(TRUE) /\ UNCHANGED <<job, pods, adapters>>
     /\ UNCHANGED <<queueVars, cr, seen, castle, archive, drift, budgetVars>>

RemoveFinalizer ==
  LET r == pass.run
  IN /\ pass.step = "unfinalize"
     /\ \/ /\ Write(r, pass.view, [life |-> "gone", phase |-> "", marks |-> {}])
           /\ EndPass(FALSE)
        \/ /\ Stale(r, pass.view)
           /\ EndPass(TRUE) /\ UNCHANGED cr
     /\ UNCHANGED <<queueVars, seen, clusterVars, budgetVars>>

Reaping == pass.step = "reap" /\ pass.goal \in {"terminal", "complete"}

\* The restart guard: the runner pod is not settled, or cannot be listed, so
\* the reap waits and the condition records since when.
DeferReap ==
  LET r == pass.run
      deferred == With(seen[r], {"terminalCleanup"})
  IN /\ Reaping
     /\ IF RunnerRestartPending(r) THEN NoFault ELSE Fault
     /\ cr' = IF Exists(seen[r]) /\ ~Stale(r, seen[r]) THEN [cr EXCEPT ![r] = deferred] ELSE cr
     /\ EndPass(TRUE)
     /\ UNCHANGED <<queueVars, seen, clusterVars>>

\* Delete the child Jobs, clear the condition, then go on with the branch the
\* gate was reached from.
ReapJobs ==
  LET r == pass.run
      cleared == Without(seen[r], {"terminalCleanup"})
      cleaned == Exists(seen[r]) /\ (cleared = seen[r] \/ ~Stale(r, seen[r]))
      polling == pass.obs # "unknown" /\ VerdictAwaited(pass.view)
  IN /\ DropRunnerJob(r)
     /\ cr' = IF cleaned /\ cleared # seen[r] THEN [cr EXCEPT ![r] = cleared] ELSE cr
     /\ \/ ~cleaned /\ EndPass(TRUE) /\ UNCHANGED adapters
        \/ /\ cleaned /\ pass.goal = "terminal"
           /\ DropAdapters(r)
           /\ EndPass(polling \/ job[r] # "none")
        \/ /\ cleaned /\ pass.goal = "complete"
           /\ pass' = [pass EXCEPT !.step = "converge"]
           /\ wake' = IF job[r] # "none" THEN wake \cup {r} ELSE wake
           /\ UNCHANGED adapters
     /\ UNCHANGED <<queueVars, seen, castle, archive, drift, budgetVars>>

ReapSettled == Reaping /\ ~RunnerRestartPending(pass.run) /\ ReapJobs

\* The deferral outlived TerminalReapForceAfter.
ForceReap ==
  /\ Reaping /\ RunnerRestartPending(pass.run)
  /\ Has(seen[pass.run], "terminalCleanup")
  /\ ReapJobs

PollsForAdapters(obs) ==              \* mutant: an active run without pods is not polled
  \/ obs = "error"
  \/ On("perScope") /\ adapters'[pass.run]
  \/ IsTerminalPhase(pass.view.phase) /\ VerdictAwaited(pass.view)

\* The requeue policy at the end of a pass.
KeepsPolling(obs) ==
  LET terminal == IsTerminalPhase(pass.view.phase)
  IN \/ obs = "error"
     \/ On("perScope") /\ (adapters'[pass.run] \/ ~terminal)
     \/ ~terminal /\ On("stall") /\ On("castle")
     \/ terminal /\ VerdictAwaited(pass.view)

\* The observation leaves the adapters to the provision events.
Converging(obs) ==
  /\ obs \notin {"error", "off"}
  /\ ~(On("perScope") /\ obs \in {"paused", "stopped"})

\* The per-scope part of the pass and its end: hold the adapter pods of a
\* paused run, tear down those of a stopped one, else converge on what the
\* provision events ask for; free the slot of a finished run; requeue or not.
Converge ==
  LET r == pass.run
  IN /\ pass.step = "converge"
     /\ ~(drift[r] = "adapter" /\ Converging(pass.obs))
     /\ adapters' \in
          CASE On("perScope") /\ Converging(pass.obs) ->
                 {[adapters EXCEPT ![r] = wanted] : wanted \in BOOLEAN}
            [] On("perScope") /\ pass.obs = "stopped" -> {[adapters EXCEPT ![r] = FALSE]}
            [] OTHER -> {adapters}
     /\ IF IsTerminalPhase(pass.view.phase) THEN Release(r) ELSE UNCHANGED queueVars
     /\ EndPass(KeepsPolling(pass.obs))
     /\ UNCHANGED <<cr, seen, job, pods, castle, archive, drift, budgetVars>>

\* A pinned adapter image and the provision event's image disagree.
FailAdapterImageConflict ==
  /\ pass.step = "converge" /\ drift[pass.run] = "adapter"
  /\ Converging(pass.obs)
  /\ FailRun(pass.run, pass.view, pass.view, pass.obs, wake)
  /\ UNCHANGED <<seen, clusterVars, budgetVars>>

\* Any call of a pass that has no better account above fails: the pass
\* returns the error and is retried with backoff.
FailedCall ==
  /\ pass.step # "idle"
  /\ Fault
  /\ EndPass(TRUE)
  /\ UNCHANGED <<queueVars, cr, seen, clusterVars>>

\* A new operator process: the pass and the queue are gone, Recover reads the
\* API server, and the initial list requests every run.
RestartOperator ==
  /\ restarts < scene.restarts /\ restarts' = restarts + 1
  /\ pass' = IdlePass /\ watch' = <<>>
  /\ Recover({r \in Run : cr[r].life = "live" /\ ~IsTerminalPhase(cr[r].phase)})
  /\ seen' = cr
  /\ wake' = {r \in Run : Exists(cr[r])}
  /\ UNCHANGED <<cr, clusterVars, scene, faults>>

-----------------------------------------------------------------------------
(* The world around the controller. *)
operatorVars == <<queueVars, pass, budgetVars>>

\* Writes reach the cache in the order they were made; behind by more than
\* scene.lag of them, it is told of the newest ones at once.
Watched ==
  watch' = IF cr' = cr THEN watch
           ELSE IF Len(watch) < scene.lag THEN Append(watch, cr')
           ELSE [watch EXCEPT ![scene.lag] = cr']

\* The informer takes the next state from the watch and raises the event.
CacheSync ==
  /\ watch # <<>>
  /\ seen' = Head(watch) /\ watch' = Tail(watch)
  /\ wake' = wake \cup {r \in Run : seen'[r] # seen[r]}
  /\ UNCHANGED <<operatorVars, cr, clusterVars>>

CreateRun(r) ==
  /\ r \in scene.runs /\ cr[r].life = "unborn"
  /\ \A o \in scene.runs : CreatedAt[o] < CreatedAt[r] => cr[o].life # "unborn"
  /\ cr' = [cr EXCEPT ![r].life = "live"]
  /\ UNCHANGED <<operatorVars, seen, wake, clusterVars>>

DeleteRun(r) ==
  /\ On("delete") /\ cr[r].life = "live"
  /\ cr' = [cr EXCEPT ![r] =
              IF Has(@, "finalizer") THEN [@ EXCEPT !.life = "deleting"]
              ELSE [life |-> "gone", phase |-> "", marks |-> {}]]
  /\ UNCHANGED <<operatorVars, seen, wake, clusterVars>>

\* Someone strips the finalizer and the object goes without the controller.
ForceDelete(r) ==
  /\ On("force") /\ Exists(cr[r])
  /\ cr' = [cr EXCEPT ![r] = [life |-> "gone", phase |-> "", marks |-> {}]]
  /\ UNCHANGED <<operatorVars, seen, wake, clusterVars>>

\* The owner is gone, so garbage collection takes the Job.
CollectOrphan(r) ==
  /\ cr[r].life = "gone" /\ job[r] # "none"
  /\ DropRunnerJob(r)
  /\ UNCHANGED <<operatorVars, cr, seen, wake, adapters, castle, archive, drift>>

JobMoves(r, from, to) ==
  /\ job[r] = from
  /\ job' = [job EXCEPT ![r] = to]
  /\ wake' = wake \cup {r}

PodMoves(r, from, to) ==
  pod[r] \in from /\ pod' = [pod EXCEPT ![r] = to] /\ UNCHANGED podSeen

StartJob(r) == JobMoves(r, "pending", "active") /\ PodMoves(r, {"none"}, "pending")
SchedulePod(r) == PodMoves(r, {"pending"}, "waiting") /\ UNCHANGED <<job, wake>>
StartContainer(r) == PodMoves(r, {"waiting", "crashed"}, "running") /\ UNCHANGED <<job, wake>>
ExitContainer(r) == PodMoves(r, {"running"}, "done") /\ UNCHANGED <<job, wake>>
CrashContainer(r) == On("crash") /\ PodMoves(r, {"running"}, "crashed") /\ UNCHANGED <<job, wake>>
CompleteJob(r) == JobMoves(r, "active", "complete") /\ pod[r] = "done" /\ UNCHANGED pods
ExceedBackoff(r) == JobMoves(r, "active", "failed") /\ PodMoves(r, {"crashed"}, "terminating")
TearDownPod(r) == PodMoves(r, {"terminating"}, "none") /\ UNCHANGED <<job, wake>>

\* What the Job controller and the kubelet do by themselves, and what depends
\* on the engine in the container.
RunPod(r) ==
  /\ \/ StartJob(r) \/ SchedulePod(r) \/ StartContainer(r) \/ CompleteJob(r) \/ TearDownPod(r)
  /\ UNCHANGED <<operatorVars, cr, seen, adapters, castle, archive, drift>>

EndPod(r) ==
  /\ ExitContainer(r) \/ ExceedBackoff(r)
  /\ UNCHANGED <<operatorVars, cr, seen, adapters, castle, archive, drift>>

CrashPod(r) ==
  /\ CrashContainer(r)
  /\ UNCHANGED <<operatorVars, cr, seen, adapters, castle, archive, drift>>

\* The cache catches up with the runner pod; pod events wake nobody.
PodSync(r) ==
  /\ On("podLag") /\ podSeen[r] # pod[r]
  /\ podSeen' = [podSeen EXCEPT ![r] = pod[r]]
  /\ UNCHANGED <<operatorVars, cr, seen, wake, job, pod, adapters, castle, archive, drift>>

CastleMoves(r, from, to) ==
  /\ On("castle") /\ castle[r] = from
  /\ castle' = [castle EXCEPT ![r] = to]
  /\ UNCHANGED <<operatorVars, cr, seen, wake, job, pods, adapters, archive, drift>>

RegisterRun(r) == pod[r] = "running" /\ CastleMoves(r, "unknown", "running")

\* The engine ends its run, or its shutdown does.
EndRun(r) ==
  /\ pod[r] \in {"running", "terminating"}
  /\ \E outcome \in {"succeeded", "failed"} : CastleMoves(r, "running", outcome)

PauseOrStop(r) ==
  /\ On("pause")
  /\ \E move \in {<<"running", "paused">>, <<"running", "stopped">>} :
       CastleMoves(r, move[1], move[2])

Resume(r) == \E idle \in {"paused", "stopped"} : CastleMoves(r, idle, "running")

PinMoves(r) ==
  /\ On("drift") /\ r \in scene.runs /\ drift[r] = "none"
  /\ \E pin \in {"image", "config", "adapter"} :
       /\ pin = "config" \/ job[r] # "none"
       /\ drift' = [drift EXCEPT ![r] = pin]
  /\ UNCHANGED <<operatorVars, cr, seen, wake, job, pods, adapters, castle, archive>>

-----------------------------------------------------------------------------
Unborn == [life |-> "unborn", phase |-> "", marks |-> {}]

Init ==
  /\ QueueInit
  /\ cr = [r \in Run |-> Unborn] /\ seen = cr /\ watch = <<>>
  /\ job = [r \in Run |-> "none"] /\ pod = job /\ podSeen = job /\ archive = job /\ drift = job
  /\ adapters = [r \in Run |-> FALSE]
  /\ castle = [r \in Run |-> "unknown"]
  /\ wake = {} /\ pass = IdlePass
  /\ scene \in Scenes /\ faults = 0 /\ restarts = 0

\* The steps by which a pass goes on once it has begun.
PassStepTaken ==
  /\ \/ Refetched \/ RefuseSecondRun \/ Provision \/ ObserveAndStamp \/ ObserveTerminal
     \/ ArchiveGate \/ ReapFailed \/ ReapFinalized \/ RemoveFinalizer \/ DeferReap
     \/ ReapSettled \/ Converge \/ FailAdapterImageConflict
  /\ Watched

Begin(r) == Reconcile(r) /\ Watched
StallWindowPasses == FailRunStalled /\ Watched
ForceWindowPasses == ForceReap /\ Watched

\* What the Job controller, the kubelet and the pod informer do by themselves.
ClusterStep(r) == (RunPod(r) \/ PodSync(r)) /\ Watched

World(r) == \/ CreateRun(r) \/ DeleteRun(r) \/ ForceDelete(r)
            \/ CollectOrphan(r) \/ EndPod(r) \/ CrashPod(r)
            \/ RegisterRun(r) \/ EndRun(r) \/ PauseOrStop(r) \/ Resume(r) \/ PinMoves(r)

Next == \/ \E r \in Run : Begin(r) \/ ClusterStep(r) \/ (World(r) /\ Watched)
        \/ PassStepTaken \/ StallWindowPasses \/ ForceWindowPasses
        \/ (FailedCall /\ Watched)
        \/ RestartOperator
        \/ CacheSync

Spec == Init /\ [][Next]_vars

(* Fairness.  The work queue is FIFO and the controller has one worker, so *)
(* a requested run is reconciled again and again until it settles; a begun *)
(* pass goes on; watch events arrive; a deferral ages past the force       *)
(* window; pods make their moves.                                          *)
ControllerFairness ==
  /\ \A r \in Run : SF_vars(Begin(r)) /\ WF_vars(ClusterStep(r))
  /\ WF_vars(CacheSync)
  /\ WF_vars(PassStepTaken)
  /\ SF_vars(ForceWindowPasses)

\* Engines come to an end, or exhaust the Job's backoff.
FairSpec == Spec /\ ControllerFairness /\ \A r \in Run : SF_vars(EndPod(r) /\ Watched)

\* Engines may hang for ever, but the stall window passes.
WedgeSpec == Spec /\ ControllerFairness /\ SF_vars(StallWindowPasses)

-----------------------------------------------------------------------------
(* Every variable of the controller and its world keeps its type. *)
TypeOK ==
  /\ QueueTypeOK
  /\ cr \in [Run -> CRObject] /\ seen \in [Run -> CRObject]
  /\ watch \in Seq([Run -> CRObject]) /\ Len(watch) <= scene.lag
  /\ job \in [Run -> JobStatus] /\ pod \in [Run -> PodStatus]
  /\ podSeen \in [Run -> PodStatus]
  /\ adapters \in [Run -> BOOLEAN]
  /\ castle \in [Run -> CastleStatus]
  /\ archive \in [Run -> Phase \cup {"none"}]
  /\ drift \in [Run -> {"none", "image", "config", "adapter"}]
  /\ wake \subseteq Run
  /\ pass \in [step : PassStep, run : Run \cup {NoRun}, view : CRObject, goal : Goal,
               jobPhase : Phase, obs : Observation, provisioned : BOOLEAN]
  /\ scene \in Scenes /\ faults \in 0 .. scene.faults /\ restarts \in 0 .. scene.restarts

Reaped(r) == job[r] # "none" /\ job'[r] = "none"

(* KB-314: while the CriteriaRun exists, no path of the controller takes    *)
(* its runner Job away before castle holds the run's archive record -      *)
(* across failed archive calls, conflicts, restarts and fail-closed paths. *)
ArchivedBeforeReaped ==
  [][On("archive") =>
       \A r \in Run : Reaped(r) /\ Exists(cr[r]) => archive[r] # "none"]_vars

(* The finalizer holds a deleted run until its record is stored and its Job *)
(* and adapter pods are deleted, whatever state it was deleted in.         *)
FinalizerGuardsEvidence ==
  [][\A r \in Run :
       cr[r].life = "deleting" /\ cr'[r].life = "gone" /\ ~ForceDelete(r)
         => /\ On("archive") => archive[r] # "none"
            /\ job[r] = "none" /\ ~adapters[r]]_vars

(* KB-302: terminal cleanup takes the Job from under a pod whose container  *)
(* is shown to have an attempt to start only when the deferral is on record,*)
(* whatever was written, lost or restarted since.  What the cache does not  *)
(* show - a pod not listed yet, or without container statuses - is no bar.  *)
RestartGuardHolds ==
  [][\A r \in Run :
       Reaped(r) /\ Reaping /\ CachedPod(r) \notin {"none", "pending", "done", "terminating"}
         => Has(cr[r], "terminalCleanup") \/ ~Exists(cr[r])]_vars

(* A finished run is never started again: no Job is created for a run whose *)
(* stored phase is terminal, however stale the cache a pass read.  It is    *)
(* the archive stamp, refused on a stale object, that keeps the reap from   *)
(* running ahead of the cache: without an archive lane nothing does.        *)
FinishedRunIsNotRerun ==
  [][On("archive") =>
       \A r \in Run :
         job[r] = "none" /\ job'[r] # "none" => cr[r].phase \notin {"Succeeded", "Failed"}]_vars

\* The controller is running r: its Job is going and the object is unfinished.
Active(r) ==
  /\ job[r] \in {"pending", "active"}
  /\ cr[r].life = "live" /\ ~IsTerminalPhase(cr[r].phase)

(* queue.go: at most one run per key is being executed, as far as unfinished*)
(* and undeleted CriteriaRuns go.                                          *)
OneActivePerKey ==
  \A r, q \in Run : Active(r) /\ Active(q) /\ KeyOf[r] = KeyOf[q] => r = q

(* CRI-221: at most one active workflow per ticket.                        *)
OneActivePerTicket ==
  \A r, q \in Run : Active(r) /\ Active(q) /\ TicketOf[r] = TicketOf[q] => r = q

(* The types, and the two locks whatever the queue and the cache go through.*)
Inv == TypeOK /\ OneActivePerKey /\ OneActivePerTicket

Cleaned(r) ==
  /\ job[r] = "none" /\ ~adapters[r]
  /\ On("archive") => Has(cr[r], "archived")

(* KB-275: a run that reached a terminal phase ends up, for good, without   *)
(* Job and adapter pods and with its record stored, unless it is deleted.  *)
TerminalRunIsCleaned ==
  \A r \in Run : IsTerminalPhase(cr[r].phase) ~> [](~Exists(cr[r]) \/ Cleaned(r))

(* A deleted run goes away: no error wedges the finalizer.                 *)
DeletedRunGoes == \A r \in Run : cr[r].life = "deleting" ~> cr[r].life = "gone"

(* Every run is admitted and finishes: queue and ticket rule together never *)
(* leave runs waiting for each other, and no wake-up is lost.              *)
EveryRunSettles ==
  \A r \in Run : cr[r].life = "live" ~> (cr[r].life # "live" \/ IsTerminalPhase(cr[r].phase))

(* Castle's verdict reaches the CriteriaRun, also when it comes after the   *)
(* Job ended; a run the watchdog failed is excepted, its polling stops.    *)
VerdictIsDelivered ==
  \A r \in Run :
    CastleTerminal(castle[r]) ~>
      \/ ~Exists(cr[r]) \/ Has(cr[r], "stallWatchdog")
      \/ /\ Has(cr[r], "castleTerminalObserved")
         /\ cr[r].phase = IF castle[r] = "succeeded" THEN "Succeeded" ELSE "Failed"

(* KB-24: a run whose engine hangs is failed although no watch event ever   *)
(* comes: the pass keeps polling it.                                       *)
WedgedRunIsFailed ==
  \A r \in Run :
    castle[r] = "running" /\ job[r] = "active" ~>
      (~Exists(cr[r]) \/ IsTerminalPhase(cr[r].phase) \/ castle[r] # "running")
=============================================================================
