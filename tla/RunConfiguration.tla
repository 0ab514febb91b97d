--------------------------- MODULE RunConfiguration ---------------------------
(***************************************************************************)
(* From a ConfigMap to the runner Job: how the watcher pins the project's  *)
(* binding or the repo's config on a run (runspec, runstamp), and how the  *)
(* operator's passes read it, prove the pin, materialise and render it,    *)
(* build the Job and record what they built (projectbinding.go,            *)
(* configrender.go, interfacebinding.go).  A pass reads the ConfigMap up   *)
(* to two times, creates the Job, and writes the status last; editors of   *)
(* the ConfigMap, conflicts and crashes come between any two of its calls. *)
(***************************************************************************)
EXTENDS Naturals, Sequences

CONSTANTS
  Lanes,      \* "binding": a cutover-done project; "library": the one before
  NameOnly,   \* whether a pin may lack the version, the ConfigMap unread
  MaxEdits,   \* bound on versions of the ConfigMap
  MaxFaults   \* bound on failed calls, crashes and lost Jobs

ASSUME ConfigurationAssumption ==
  /\ Lanes \subseteq {"binding", "library"} /\ NameOnly \in BOOLEAN
  /\ MaxEdits \in Nat \ {0} /\ MaxFaults \in Nat

VARIABLES
  lane,      \* the lane of the run's project
  versions,  \* versions[v]: what the content of version v is worth
  cm,        \* the current version of the ConfigMap, 0 when there is none
  run,       \* the run: its pin and phase
  status,    \* what it records: the render, the launch manifest's binding
  job,       \* the runner Job: the versions its volumes and commands are of
  pass,      \* the operator's pass over it
  faults

vars == <<lane, versions, cm, run, status, job, pass, faults>>

Unset == 0 - 1
OnSpec == 0                     \* no ConfigMap: the values stamped on the spec
NoJob == [volumes |-> Unset, config |-> Unset]
Idle == [pc |-> "idle", volumes |-> Unset, config |-> Unset]
Unrecorded == [render |-> Unset, manifest |-> Unset]

\* A binding may break its schema, or lack what the tree's interface requires;
\* either ConfigMap may set a config slot the tree does not declare.
Content == IF lane = "binding" THEN {"good", "malformed", "misfit", "badslot"} ELSE {"good", "badslot"}
Parses(v) == versions[v] # "malformed"
BindingFits(v) == versions[v] # "misfit"
SlotsFit(v) == versions[v] # "badslot"

Fault == faults < MaxFaults /\ faults' = faults + 1
NoFault == UNCHANGED faults
Cluster == <<lane, versions, cm>>

-----------------------------------------------------------------------------
(* The ConfigMap's editors. *)
Edit ==
  /\ Len(versions) < MaxEdits
  /\ \E content \in Content : versions' = Append(versions, content)
  /\ cm' = Len(versions')
  /\ UNCHANGED <<lane, run, status, job, pass, faults>>

Delete ==
  /\ cm # 0 /\ cm' = 0
  /\ UNCHANGED <<lane, versions, run, status, job, pass, faults>>

-----------------------------------------------------------------------------
(* The watcher. *)
\* A ConfigMap that is missing or cannot be read leaves a name-only pin: the
\* run is stamped all the same, with a warning.
PinnedVersion(read) == IF read THEN cm ELSE 0

\* The library's run carries its volumes and images on the spec; that of a
\* project that is cut over carries the references of the tree only.
StampedVolumes == IF lane = "binding" THEN Unset ELSE OnSpec

StampRun ==
  /\ run.phase = "none"
  /\ \E read \in BOOLEAN :
       /\ IF read \/ cm = 0 THEN NoFault ELSE Fault
       /\ NameOnly \/ PinnedVersion(read) # 0
       /\ run' = [phase |-> "open", pin |-> PinnedVersion(read)]
  /\ UNCHANGED <<Cluster, status, job, pass>>

-----------------------------------------------------------------------------
(* A pass of the operator. *)
At(pc) == run.phase = "open" /\ pass.pc = pc
Go(p) == pass' = p /\ NoFault /\ UNCHANGED <<Cluster, run, status, job>>

StartPass ==
  /\ At("idle")
  /\ Go([pc |-> IF lane = "binding" THEN "read" ELSE "render",
         volumes |-> StampedVolumes, config |-> Unset])

\* refuseInterfaceBindingMismatch and failConfigRenderDrift: the run has
\* failed for good, its Job is deleted.
FailClosed ==
  /\ run' = [run EXCEPT !.phase = "failed"] /\ pass' = Idle /\ job' = NoJob
  /\ NoFault /\ UNCHANGED <<Cluster, status>>

\* A read that fails, a conflict or a crash: the next pass starts over.
Abandon ==
  /\ run.phase = "open" /\ pass.pc # "idle"
  /\ Fault /\ pass' = Idle /\ UNCHANGED <<Cluster, run, status, job>>

PinIgnored == cm # 0                       \* mutant: the pinned version is not compared
PinHolds == cm # 0 /\ run.pin \in {0, cm}

\* readProjectBinding, then the validation against the tree's interface.
Materialized(v) == [pass EXCEPT !.pc = "render", !.volumes = v]
Readable == PinHolds /\ Parses(cm) /\ BindingFits(cm)
ReadBinding ==
  /\ At("read")
  /\ \/ Readable /\ Go(Materialized(cm))
     \/ ~Readable /\ FailClosed

Built(v) == Go([pass EXCEPT !.pc = "create", !.config = v])

\* Rendered once; later passes only verify that the ConfigMap is still the
\* one rendered, and a render of the spec alone has nothing to verify.
VerifyRender ==
  \/ status.render \in {OnSpec, cm} /\ Built(status.render)
  \/ status.render \notin {OnSpec, cm} /\ FailClosed

\* A name-only pin renders the ConfigMap of this moment, or without one the
\* spec; a declared version that is not there fails.
RenderRunConfig ==
  \/ cm = 0 /\ run.pin = 0 /\ Built(OnSpec)
  \/ PinHolds /\ SlotsFit(cm) /\ Built(cm)
  \/ ~(cm = 0 /\ run.pin = 0) /\ ~(PinHolds /\ SlotsFit(cm)) /\ FailClosed

\* The binding is read a second time; one that does not parse any more is an
\* error, and the next pass refuses it.
RenderProjectBindingConfig ==
  \/ PinHolds /\ Parses(cm) /\ SlotsFit(cm) /\ Built(cm)
  \/ PinHolds /\ ~Parses(cm) /\ Go(Idle)
  \/ (PinHolds => Parses(cm) /\ ~SlotsFit(cm)) /\ FailClosed

RenderFresh == IF lane = "binding" THEN RenderProjectBindingConfig ELSE RenderRunConfig

RenderAgain == At("render") /\ RenderFresh  \* mutant: the record is not consulted
RenderUnverified ==                          \* mutant: the record is never verified
  /\ At("render")
  /\ \/ status.render # Unset /\ Built(status.render)
     \/ status.render = Unset /\ RenderFresh
Render ==
  /\ At("render")
  /\ \/ status.render # Unset /\ VerifyRender
     \/ status.render = Unset /\ RenderFresh

\* BuildAll: a Job that exists is left as it is.
CreateJob ==
  /\ At("create")
  /\ job' = IF job = NoJob THEN [volumes |-> pass.volumes, config |-> pass.config] ELSE job
  /\ pass' = [pass EXCEPT !.pc = "write"]
  /\ NoFault /\ UNCHANGED <<Cluster, run, status>>

\* The status of the pass: render and launch manifest are set once.
OnlyNew(old, new) == IF old = Unset THEN new ELSE old
WriteStatus ==
  /\ At("write")
  /\ status' = [render |-> OnlyNew(status.render, pass.config),
                manifest |-> OnlyNew(status.manifest, pass.volumes)]
  /\ pass' = Idle /\ NoFault /\ UNCHANGED <<Cluster, run, job>>

\* A Job that is deleted under the run is created again by a later pass.
LoseJob ==
  /\ job # NoJob /\ run.phase = "open" /\ Fault
  /\ job' = NoJob /\ UNCHANGED <<Cluster, run, status, pass>>

-----------------------------------------------------------------------------
Init ==
  /\ lane \in Lanes /\ versions = << >> /\ cm = 0
  /\ run = [phase |-> "none", pin |-> 0] /\ status = Unrecorded
  /\ job = NoJob /\ pass = Idle /\ faults = 0

Pass == StartPass \/ ReadBinding \/ Render \/ CreateJob \/ WriteStatus
Next == Edit \/ Delete \/ StampRun \/ Pass \/ Abandon \/ LoseJob

Spec == Init /\ [][Next]_vars

\* The reconciler requeues every open run.
FairSpec == Spec /\ WF_vars(Pass)

-----------------------------------------------------------------------------
Version == 1..MaxEdits
Recordable == Unset..Len(versions)
TypeOK ==
  /\ lane \in Lanes /\ versions \in Seq(Content) /\ cm \in 0..Len(versions)
  /\ run \in [phase : {"none", "open", "failed"}, pin : 0..Len(versions)]
  /\ status \in [render : Recordable, manifest : Recordable]
  /\ job \in [volumes : Recordable, config : Recordable]
  /\ pass \in [pc : {"idle", "read", "render", "create", "write"}, volumes : Recordable, config : Recordable]
  /\ faults \in 0..MaxFaults

\* The version pinned on a run when it was stamped is the only one its Job is
\* ever built from, volumes and commands alike (readProjectBinding,
\* renderRunConfig: a pin that cannot be honored fails closed).
PinIsHonored ==
  job # NoJob /\ run.pin # 0 =>
    job.config = run.pin /\ (lane = "binding" => job.volumes = run.pin)

\* Nothing runs on a binding that breaks its schema or lacks what the tree
\* requires, nor on a config slot the tree does not declare, whichever of the
\* two reads brought it in (validateInterfaceBinding, kb310ConfigSlotDetail).
NothingInvalidRuns ==
  /\ job.volumes \in Version => Parses(job.volumes) /\ BindingFits(job.volumes)
  /\ job.config \in Version => Parses(job.config) /\ SlotsFit(job.config)
  /\ (job # NoJob /\ lane = "binding") => job.volumes \in Version

\* Once a render is recorded, a Job built again is built from it, however the
\* ConfigMap was edited, deleted or created since (applyRenderToSpec).
RebuiltFromRecord ==
  [][job = NoJob /\ job' # NoJob /\ status.render # Unset => job'.config = status.render]_vars

\* A pinned run does not go on executing on a version the cluster no longer
\* declares: it fails, or its Job is gone (failConfigRenderDrift).
DriftStopsTheRun ==
  \A v \in Version :
    (job.config = v /\ cm # v /\ run.pin # 0) ~> (job.config # v)

(* The types, the pin and the tree's declaration.                           *)
Inv == TypeOK /\ PinIsHonored /\ NothingInvalidRuns
=============================================================================
