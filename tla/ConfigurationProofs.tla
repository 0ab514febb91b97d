------------------------ MODULE ConfigurationProofs ------------------------
(***************************************************************************)
(* Proofs about what a run executes: which rule, workflow and config entry *)
(* the routes payload gives a card (RouteTable), for every set of rules,   *)
(* entries, tags and projects; and what the run's Job is then built from   *)
(* (RunConfiguration), for every number of versions of the ConfigMap and   *)
(* of faults, with and without name-only pins: from what was pinned and    *)
(* from nothing the tree did not declare, and, when it is built again,     *)
(* from the record.                                                        *)
(***************************************************************************)
EXTENDS RunConfiguration, RouteTable, FiniteSetTheorems, WellFoundedInduction, TLAPS

\* What may be put into a Job's volumes and images, and into its commands.
GoodVolumes(v) ==
  IF lane = "binding"
  THEN v \in 1..Len(versions) /\ run.pin \in {0, v} /\ Parses(v) /\ BindingFits(v)
  ELSE v = OnSpec
GoodConfig(c) ==
  /\ c \in 0..Len(versions) /\ run.pin \in {0, c}
  /\ c # OnSpec => Parses(c) /\ SlotsFit(c)

\* Everything a pass carries, the status records and the Job holds is good, and
\* there is none of it before the run is stamped: the pin is set only once.
PassIsGood ==
  /\ pass.pc = "read" => lane = "binding"
  /\ pass.pc \in {"render", "create", "write"} => GoodVolumes(pass.volumes)
  /\ pass.pc \in {"create", "write"} =>
       /\ GoodConfig(pass.config)
       /\ status.render \in {Unset, pass.config}
RecordIsGood == status.render # Unset => GoodConfig(status.render)
JobIsGood == job # NoJob => GoodVolumes(job.volumes) /\ GoodConfig(job.config)
NothingBeforeStamp ==
  run.phase = "none" => job = NoJob /\ status.render = Unset /\ pass.pc = "idle"

IInv ==
  /\ TypeOK /\ Len(versions) <= MaxEdits
  /\ PassIsGood /\ RecordIsGood /\ JobIsGood /\ NothingBeforeStamp

-----------------------------------------------------------------------------
\* IInv is what the runs check as Inv, and more.
LEMMA GoodIsInv == IInv => Inv
BY ConfigurationAssumption
   DEF IInv, Inv, TypeOK, PinIsHonored, NothingInvalidRuns, JobIsGood, GoodVolumes,
       GoodConfig, NoJob, Unset, OnSpec, Version, Recordable

\* Before the ConfigMap exists there is nothing to be wrong about.
LEMMA InitIsGood == Init => IInv
BY ConfigurationAssumption
   DEF Init, IInv, TypeOK, PassIsGood, RecordIsGood, JobIsGood, NothingBeforeStamp, Idle,
       NoJob, Unrecorded, Unset, Recordable, Content

\* A new version leaves the content of the others, and so every judgement on
\* them, as it was.
LEMMA EditKeepsGood ==
  ASSUME IInv, Edit
  PROVE  IInv'
<1>1. PICK content \in Content : versions' = Append(versions, content)
  BY DEF Edit
<1>2. /\ Len(versions') = Len(versions) + 1 /\ Len(versions) \in Nat /\ versions' \in Seq(Content)
      /\ \A v \in 1..Len(versions) : versions'[v] = versions[v]
  BY <1>1 DEF IInv, TypeOK
<1>3. UNCHANGED <<lane, run, status, job, pass, faults>> /\ cm' = Len(versions')
  BY DEF Edit
<1>4. TypeOK'
  BY <1>2, <1>3 DEF IInv, TypeOK, Recordable, Unset, Content
<1>5. Len(versions') <= MaxEdits
  BY <1>2, ConfigurationAssumption DEF Edit
<1>6. PassIsGood' /\ RecordIsGood' /\ JobIsGood' /\ NothingBeforeStamp'
  <2>1. /\ GoodVolumes(pass.volumes) => GoodVolumes(pass.volumes)'
        /\ GoodConfig(pass.config) => GoodConfig(pass.config)'
        /\ GoodConfig(status.render) => GoodConfig(status.render)'
        /\ GoodVolumes(job.volumes) => GoodVolumes(job.volumes)'
        /\ GoodConfig(job.config) => GoodConfig(job.config)'
    BY <1>2, <1>3 DEF GoodVolumes, GoodConfig, Parses, BindingFits, SlotsFit, OnSpec
  <2>2. PassIsGood'
    BY <1>3, <2>1 DEF IInv, PassIsGood
  <2>3. RecordIsGood'
    BY <1>3, <2>1 DEF IInv, RecordIsGood
  <2>4. JobIsGood'
    BY <1>3, <2>1 DEF IInv, JobIsGood
  <2>5. NothingBeforeStamp'
    BY <1>3 DEF IInv, NothingBeforeStamp
  <2> QED BY <2>2, <2>3, <2>4, <2>5
<1> QED BY <1>4, <1>5, <1>6 DEF IInv

\* A run that fails keeps its pin and its record, and loses its Job.
LEMMA FailClosedKeepsGood ==
  ASSUME IInv, FailClosed
  PROVE  IInv'
<1>1. TypeOK'
  BY DEF FailClosed, Cluster, NoFault, IInv, TypeOK, Recordable, Unset, Content, Idle, NoJob
<1>2. RecordIsGood'
  BY DEF FailClosed, Cluster, IInv, TypeOK, RecordIsGood, GoodConfig, Parses, SlotsFit
<1>3. PassIsGood' /\ JobIsGood' /\ NothingBeforeStamp'
  BY DEF FailClosed, Cluster, IInv, TypeOK, PassIsGood, JobIsGood, NothingBeforeStamp, Idle, NoJob
<1>4. (Len(versions) <= MaxEdits)'
  BY DEF FailClosed, Cluster, IInv
<1> QED BY <1>1, <1>2, <1>3, <1>4 DEF IInv

\* The steps that change nothing a Job is built from: deletion of the ConfigMap,
\* the start of a pass, its end without a result, and the loss of the Job.
LEMMA IdleStepsKeepGood ==
  ASSUME IInv, Delete \/ StartPass \/ Abandon \/ LoseJob \/ (At("render") /\ Go(Idle)) \/ UNCHANGED vars
  PROVE  IInv'
<1>1. /\ UNCHANGED <<lane, versions, run, status>> /\ cm' \in {0, cm}
      /\ job' \in {job, NoJob} /\ faults' \in 0..MaxFaults
      /\ \/ pass' \in {pass, Idle}
         \/ /\ lane = "binding" /\ run.phase = "open"
            /\ pass' = [pc |-> "read", volumes |-> Unset, config |-> Unset]
         \/ /\ lane # "binding" /\ run.phase = "open"
            /\ pass' = [pc |-> "render", volumes |-> OnSpec, config |-> Unset]
  <2>1. CASE Delete
    BY <2>1 DEF Delete, IInv, TypeOK
  <2>2. CASE StartPass
    BY <2>2 DEF StartPass, At, Go, Cluster, NoFault, StampedVolumes, IInv, TypeOK, Idle
  <2>3. CASE Abandon
    BY <2>3, ConfigurationAssumption DEF Abandon, Cluster, Fault, IInv, TypeOK
  <2>4. CASE LoseJob
    BY <2>4, ConfigurationAssumption DEF LoseJob, Cluster, Fault, IInv, TypeOK
  <2>5. CASE At("render") /\ Go(Idle)
    BY <2>5 DEF Go, Cluster, NoFault, IInv, TypeOK
  <2>6. CASE UNCHANGED vars
    BY <2>6 DEF vars, IInv, TypeOK
  <2> QED BY <2>1, <2>2, <2>3, <2>4, <2>5, <2>6
<1>2. TypeOK' /\ (Len(versions) <= MaxEdits)'
  <2>1. Unset \in Recordable /\ OnSpec \in Recordable
    BY DEF IInv, TypeOK, Recordable, Unset, OnSpec
  <2>2. pass' \in [pc : {"idle", "read", "render", "create", "write"},
                   volumes : Recordable, config : Recordable]
    BY <1>1, <2>1 DEF IInv, TypeOK, Idle
  <2>3. job' \in [volumes : Recordable, config : Recordable]
    BY <1>1, <2>1 DEF IInv, TypeOK, NoJob
  <2>4. cm' \in 0..Len(versions)
    BY <1>1 DEF IInv, TypeOK
  <2> QED BY <1>1, <2>2, <2>3, <2>4 DEF IInv, TypeOK, Recordable, Content
<1>3. RecordIsGood' /\ JobIsGood'
  BY <1>1 DEF IInv, TypeOK, RecordIsGood, JobIsGood, GoodVolumes, GoodConfig, Parses,
              BindingFits, SlotsFit
<1>4. PassIsGood'
  <2>1. CASE pass' = pass
    BY <1>1, <2>1 DEF IInv, PassIsGood, GoodVolumes, GoodConfig, Parses, BindingFits, SlotsFit
  <2>2. CASE pass' = Idle
    BY <2>2 DEF PassIsGood, Idle
  <2>3. CASE lane = "binding" /\ pass' = [pc |-> "read", volumes |-> Unset, config |-> Unset]
    BY <1>1, <2>3 DEF PassIsGood, Idle
  <2>4. CASE lane # "binding" /\ pass' = [pc |-> "render", volumes |-> OnSpec, config |-> Unset]
    BY <1>1, <2>4 DEF PassIsGood, Idle, GoodVolumes
  <2> QED BY <1>1, <2>1, <2>2, <2>3, <2>4
<1>5. NothingBeforeStamp'
  BY <1>1 DEF IInv, NothingBeforeStamp, NoJob, Idle
<1> QED BY <1>2, <1>3, <1>4, <1>5 DEF IInv

\* Only an unstamped run gets a pin, and there is nothing yet it could disagree with.
LEMMA StampKeepsGood ==
  ASSUME IInv, StampRun
  PROVE  IInv'
<1>1. /\ UNCHANGED <<lane, versions, cm, status, job, pass>> /\ run.phase = "none"
      /\ run' \in [phase : {"open"}, pin : {0, cm}] /\ faults' \in 0..MaxFaults
  BY ConfigurationAssumption
     DEF StampRun, Cluster, PinnedVersion, Fault, NoFault, IInv, TypeOK
<1>2. TypeOK' /\ (Len(versions) <= MaxEdits)'
  BY <1>1 DEF IInv, TypeOK, Recordable, Content
<1>3. PassIsGood' /\ RecordIsGood' /\ JobIsGood' /\ NothingBeforeStamp'
  BY <1>1 DEF IInv, TypeOK, PassIsGood, RecordIsGood, JobIsGood, NothingBeforeStamp
<1> QED BY <1>2, <1>3 DEF IInv

\* A step of the pass that takes up a good binding or a good config.
LEMMA PassKeepsGood ==
  ASSUME IInv, run.phase = "open", UNCHANGED <<Cluster, run, status, job, faults>>,
         pass' \in [pc : {"render", "create", "write"}, volumes : Recordable, config : Recordable],
         GoodVolumes(pass'.volumes),
         pass'.pc \in {"create", "write"} =>
           GoodConfig(pass'.config) /\ status.render \in {Unset, pass'.config}
  PROVE  IInv'
<1>1. TypeOK' /\ (Len(versions) <= MaxEdits)'
  BY DEF Cluster, IInv, TypeOK, Recordable, Content
<1>2. PassIsGood'
  BY DEF Cluster, PassIsGood, GoodVolumes, GoodConfig, Parses, BindingFits, SlotsFit
<1>3. RecordIsGood' /\ JobIsGood' /\ NothingBeforeStamp'
  BY DEF Cluster, IInv, RecordIsGood, JobIsGood, NothingBeforeStamp, GoodVolumes, GoodConfig, Parses,
         BindingFits, SlotsFit
<1> QED BY <1>1, <1>2, <1>3 DEF IInv

LEMMA ReadKeepsGood ==
  ASSUME IInv, ReadBinding
  PROVE  IInv'
<1>1. CASE FailClosed
  BY <1>1, FailClosedKeepsGood
<1>2. CASE Readable /\ Go(Materialized(cm))
  <2>1. lane = "binding" /\ run.phase = "open"
    BY DEF ReadBinding, At, IInv, PassIsGood
  <2>2. GoodVolumes(cm) /\ cm \in Recordable
    BY <1>2, <2>1 DEF Readable, PinHolds, GoodVolumes, IInv, TypeOK, Recordable, Unset
  <2>3. /\ pass' \in [pc : {"render"}, volumes : {cm}, config : Recordable]
        /\ UNCHANGED <<Cluster, run, status, job, faults>>
    BY <1>2 DEF Go, NoFault, Materialized, IInv, TypeOK
  <2> QED BY <2>1, <2>2, <2>3, PassKeepsGood
<1> QED BY <1>1, <1>2 DEF ReadBinding

\* Whatever is rendered was pinned and fits the tree: recorded before, read
\* now, or stamped on the spec.
LEMMA RenderKeepsGood ==
  ASSUME IInv, Render
  PROVE  IInv'
<1>1. PICK c \in {OnSpec, cm} :
        \/ /\ Built(c) /\ GoodConfig(c) /\ c \in Recordable
           /\ status.render \in {Unset, c}
        \/ FailClosed
        \/ At("render") /\ Go(Idle)
  <2>1. CASE status.render # Unset /\ VerifyRender
    BY <2>1 DEF VerifyRender, IInv, TypeOK, RecordIsGood
  <2>2. CASE status.render = Unset /\ lane = "binding" /\ RenderProjectBindingConfig
    BY <2>2 DEF Render, RenderProjectBindingConfig, PinHolds, GoodConfig, OnSpec, Recordable, Unset, IInv, TypeOK
  <2>3. CASE status.render = Unset /\ lane # "binding" /\ RenderRunConfig
    <3>1. \A v \in 1..Len(versions) : Parses(v)
      BY <2>3 DEF IInv, TypeOK, Content, Parses
    <3> QED BY <2>3, <3>1 DEF RenderRunConfig, PinHolds, GoodConfig, OnSpec, Recordable, Unset, IInv, TypeOK
  <2> QED BY <2>1, <2>2, <2>3 DEF Render, RenderFresh
<1>2. CASE Built(c) /\ GoodConfig(c) /\ c \in Recordable /\ status.render \in {Unset, c}
  <2>1. /\ pass' \in [pc : {"create"}, volumes : {pass.volumes}, config : {c}]
        /\ UNCHANGED <<Cluster, run, status, job, faults>>
    BY <1>2 DEF Built, Go, NoFault, IInv, TypeOK
  <2>2. run.phase = "open" /\ GoodVolumes(pass.volumes) /\ pass.volumes \in Recordable
    BY DEF Render, At, IInv, PassIsGood, TypeOK
  <2> QED BY <1>2, <2>1, <2>2, PassKeepsGood
<1> QED BY <1>1, <1>2, FailClosedKeepsGood, IdleStepsKeepGood

\* A Job that exists is left alone; a new one takes what the pass carries.
LEMMA CreateKeepsGood ==
  ASSUME IInv, CreateJob
  PROVE  IInv'
<1>1. /\ UNCHANGED <<lane, versions, cm, run, status, faults>> /\ run.phase = "open"
      /\ pass.pc = "create"
      /\ pass' = [pc |-> "write", volumes |-> pass.volumes, config |-> pass.config]
  BY DEF CreateJob, At, Cluster, NoFault, IInv, TypeOK
<1>2. job' \in {job, [volumes |-> pass.volumes, config |-> pass.config]}
  BY DEF CreateJob
<1>3. GoodVolumes(pass.volumes) /\ GoodConfig(pass.config) /\ status.render \in {Unset, pass.config}
  BY <1>1 DEF IInv, PassIsGood
<1>4. TypeOK' /\ (Len(versions) <= MaxEdits)'
  BY <1>1, <1>2 DEF IInv, TypeOK, Recordable, Content
<1>5. PassIsGood'
  BY <1>1, <1>3 DEF PassIsGood, GoodVolumes, GoodConfig, Parses, BindingFits, SlotsFit
<1>6. RecordIsGood' /\ NothingBeforeStamp'
  BY <1>1 DEF IInv, RecordIsGood, NothingBeforeStamp, GoodConfig, Parses, SlotsFit
<1>7. JobIsGood'
  BY <1>1, <1>2, <1>3
     DEF IInv, JobIsGood, GoodVolumes, GoodConfig, Parses, BindingFits, SlotsFit
<1> QED BY <1>4, <1>5, <1>6, <1>7 DEF IInv

\* What is recorded is what the pass carried or what was recorded before.
LEMMA WriteKeepsGood ==
  ASSUME IInv, WriteStatus
  PROVE  IInv'
<1>1. /\ UNCHANGED <<lane, versions, cm, run, job, faults>> /\ run.phase = "open"
      /\ pass.pc = "write" /\ pass' = Idle
      /\ status' = [render |-> OnlyNew(status.render, pass.config),
                    manifest |-> OnlyNew(status.manifest, pass.volumes)]
  BY DEF WriteStatus, At, Cluster, NoFault
<1>2. /\ status'.render \in {status.render, pass.config}
      /\ status' \in [render : Recordable, manifest : Recordable]
  BY <1>1 DEF OnlyNew, IInv, TypeOK
<1>3. TypeOK' /\ (Len(versions) <= MaxEdits)'
  BY <1>1, <1>2 DEF IInv, TypeOK, Recordable, Content, Idle, Unset
<1>4. RecordIsGood'
  BY <1>1, <1>2 DEF IInv, PassIsGood, RecordIsGood, GoodConfig, Parses, SlotsFit
<1>5. PassIsGood' /\ JobIsGood' /\ NothingBeforeStamp'
  BY <1>1 DEF IInv, PassIsGood, JobIsGood, NothingBeforeStamp, GoodVolumes, GoodConfig,
              Parses, BindingFits, SlotsFit, Idle
<1> QED BY <1>3, <1>4, <1>5 DEF IInv

LEMMA NextKeepsGood ==
  ASSUME IInv, [Next]_vars
  PROVE  IInv'
<1>1. CASE Edit
  BY <1>1, EditKeepsGood
<1>2. CASE Delete \/ StartPass \/ Abandon \/ LoseJob \/ UNCHANGED vars
  BY <1>2, IdleStepsKeepGood
<1>3. CASE StampRun
  BY <1>3, StampKeepsGood
<1>4. CASE ReadBinding
  BY <1>4, ReadKeepsGood
<1>5. CASE Render
  BY <1>5, RenderKeepsGood
<1>6. CASE CreateJob
  BY <1>6, CreateKeepsGood
<1>7. CASE WriteStatus
  BY <1>7, WriteKeepsGood
<1> QED BY <1>1, <1>2, <1>3, <1>4, <1>5, <1>6, <1>7 DEF Next, Pass

\* In every reachable state, with any number of versions and faults, a pinned
\* run's Job is of the pinned version and of nothing the tree did not declare:
\* readProjectBinding, validateInterfaceBinding and the render fail closed.
THEOREM ConfigurationIsPinned == Spec => []Inv
<1>1. Init => IInv
  BY InitIsGood
<1>2. IInv /\ [Next]_vars => IInv'
  BY NextKeepsGood
<1>3. IInv => Inv
  BY GoodIsInv
<1> QED BY <1>1, <1>2, <1>3, PTL DEF Spec

\* A Job built again is built from the recorded render (applyRenderToSpec): what
\* a pass about to create carries is what the status says, if it says anything.
THEOREM RebuildsAreIdentical == Spec => RebuiltFromRecord
<1> DEFINE Rebuilt ==
      job = NoJob /\ job' # NoJob /\ status.render # Unset => job'.config = status.render
<1>1. Init => IInv
  BY InitIsGood
<1>2. IInv /\ [Next]_vars => IInv'
  BY NextKeepsGood
<1>3. IInv /\ [Next]_vars => [Rebuilt]_vars
  <2> SUFFICES ASSUME IInv, Next, job = NoJob, job' # NoJob, status.render # Unset
               PROVE  job'.config = status.render
    OBVIOUS
  <2>1. CreateJob
    BY DEF Next, Pass, Edit, Delete, StampRun, StartPass, ReadBinding, Render, VerifyRender,
           RenderFresh, RenderRunConfig, RenderProjectBindingConfig, Built, Go, FailClosed,
           WriteStatus, Abandon, LoseJob
  <2>2. job'.config = pass.config
    BY <2>1 DEF CreateJob
  <2>3. status.render = pass.config
    BY <2>1 DEF CreateJob, At, IInv, PassIsGood
  <2> QED BY <2>2, <2>3
<1> QED BY <1>1, <1>2, <1>3, PTL DEF Spec, RebuiltFromRecord

-----------------------------------------------------------------------------
(* The routes payload.  A decision on a card is a function of the payload, *)
(* so most of what is claimed follows from the payload's type; what it     *)
(* takes is that a least place exists, that at most one label chooses, and *)
(* that Validate has seen the rule that fires.                             *)

\* The type, and that the payload is the record it is written as.
RouteIInv ==
  /\ payload = [routes |-> payload.routes, dispatch |-> payload.dispatch,
                registry |-> payload.registry, configs |-> payload.configs, stale |-> payload.stale]
  /\ RouteTypeOK

\* A list of rules with one more, or with some of its places emptied.
LEMMA ListWith ==
  ASSUME NEW f, IsRuleList(f), NEW i \in Place, NEW r \in Rules
  PROVE  IsRuleList(With(f, i, r))
BY DEF IsRuleList, With

LEMMA ListRestricted ==
  ASSUME NEW f, IsRuleList(f), NEW S, S \subseteq DOMAIN f
  PROVE  IsRuleList(Restrict(f, S))
BY DEF IsRuleList, Restrict

\* The rules of the array that are of a project.
LEMMA ArrayRulesOfProject ==
  ASSUME NEW P, IsRuleList(P.routes), NEW p
  PROVE  /\ IsRuleList(ArrayRules(P, p))
         /\ \A i \in DOMAIN ArrayRules(P, p) : ArrayRules(P, p)[i].project = p
         /\ DOMAIN ArrayRules(P, p) = {i \in DOMAIN P.routes : P.routes[i].project = p}
         /\ \A i \in DOMAIN ArrayRules(P, p) : ArrayRules(P, p)[i] = P.routes[i]
<1>1. IsRuleList(ArrayRules(P, p))
  BY ListRestricted DEF ArrayRules
<1> QED BY <1>1 DEF ArrayRules, Restrict

-----------------------------------------------------------------------------
(* The type is kept: one lemma for each part of the payload an editor      *)
(* changes.                                                                *)
LEMMA RoutesEdited ==
  ASSUME RouteIInv, NEW f, IsRuleList(f), payload' = [payload EXCEPT !.routes = f]
  PROVE  RouteIInv'
<1>1. /\ payload' = [routes |-> f, dispatch |-> payload.dispatch, registry |-> payload.registry,
                     configs |-> payload.configs, stale |-> payload.stale]
  BY DEF RouteIInv
<1>2. /\ payload'.routes = f /\ payload'.dispatch = payload.dispatch
      /\ payload'.registry = payload.registry /\ payload'.configs = payload.configs
      /\ payload'.stale = payload.stale
  BY <1>1
<1> QED BY <1>1, <1>2 DEF RouteIInv, RouteTypeOK

LEMMA DispatchEdited ==
  ASSUME RouteIInv, NEW d, payload' = [payload EXCEPT !.dispatch = d], DOMAIN d \subseteq Project,
         \A p \in DOMAIN d : IsRuleList(d[p]) /\ \A i \in DOMAIN d[p] : d[p][i].project = p
  PROVE  RouteIInv'
<1>1. /\ payload' = [routes |-> payload.routes, dispatch |-> d, registry |-> payload.registry,
                     configs |-> payload.configs, stale |-> payload.stale]
  BY DEF RouteIInv
<1>2. /\ payload'.routes = payload.routes /\ payload'.dispatch = d
      /\ payload'.registry = payload.registry /\ payload'.configs = payload.configs
      /\ payload'.stale = payload.stale
  BY <1>1
<1> QED BY <1>1, <1>2 DEF RouteIInv, RouteTypeOK

LEMMA RegistryEdited ==
  ASSUME RouteIInv, NEW g, payload' = [payload EXCEPT !.registry = g],
         \A p \in DOMAIN g : g[p] \in {"open", "done"}
  PROVE  RouteIInv'
<1>1. /\ payload' = [routes |-> payload.routes, dispatch |-> payload.dispatch, registry |-> g,
                     configs |-> payload.configs, stale |-> payload.stale]
  BY DEF RouteIInv
<1>2. /\ payload'.routes = payload.routes /\ payload'.dispatch = payload.dispatch
      /\ payload'.registry = g /\ payload'.configs = payload.configs
      /\ payload'.stale = payload.stale
  BY <1>1
<1> QED BY <1>1, <1>2 DEF RouteIInv, RouteTypeOK

LEMMA LibrariesEdited ==
  ASSUME RouteIInv, NEW e, NEW s,
         payload' = [[payload EXCEPT !.configs = e] EXCEPT !.stale = s],
         s \subseteq Stale, DOMAIN e \subseteq DOMAIN Configs, \A c \in DOMAIN e : e[c] = Configs[c]
  PROVE  RouteIInv'
<1>1. /\ payload' = [routes |-> payload.routes, dispatch |-> payload.dispatch,
                     registry |-> payload.registry, configs |-> e, stale |-> s]
  BY DEF RouteIInv
<1>2. /\ payload'.routes = payload.routes /\ payload'.dispatch = payload.dispatch
      /\ payload'.registry = payload.registry /\ payload'.configs = e /\ payload'.stale = s
  BY <1>1
<1>3. RouteTypeOK'
  BY <1>2 DEF RouteIInv, RouteTypeOK
<1> QED BY <1>1, <1>2, <1>3 DEF RouteIInv

LEMMA RouteInitTyped == RouteInit => RouteIInv
BY DEF RouteInit, RouteIInv, RouteTypeOK, IsRuleList, Nothing

LEMMA RouteStepTyped == RouteIInv /\ [RouteNext]_routeVars => RouteIInv'
<1> SUFFICES ASSUME RouteIInv, [RouteNext]_routeVars  PROVE RouteIInv'
  OBVIOUS
<1>0. RoutesAssumption
  BY RoutesAssumption
<1>1. ASSUME NEW i \in Place, NEW r \in Rules, AddRule(i, r)  PROVE RouteIInv'
  BY <1>1, ListWith, RoutesEdited DEF AddRule, Change, RouteIInv, RouteTypeOK
<1>2. ASSUME NEW i \in Place, NEW r \in Rules, EditRecord(i, r)  PROVE RouteIInv'
  <2> DEFINE p == r.project
             d == [payload.dispatch EXCEPT ![p] = With(@, i, r)]
  <2>1. payload' = [payload EXCEPT !.dispatch = d] /\ p \in DOMAIN payload.dispatch
    BY <1>2 DEF EditRecord, Change, HasRecord
  <2>2. IsRuleList(With(payload.dispatch[p], i, r))
    BY <2>1, ListWith DEF RouteIInv, RouteTypeOK
  <2>3. \A j \in DOMAIN With(payload.dispatch[p], i, r) : With(payload.dispatch[p], i, r)[j].project = p
    BY <2>1 DEF RouteIInv, RouteTypeOK, With
  <2>4. /\ DOMAIN d = DOMAIN payload.dispatch /\ d[p] = With(payload.dispatch[p], i, r)
        /\ \A q \in DOMAIN d : q # p => d[q] = payload.dispatch[q]
    BY <2>1
  <2>5. DOMAIN d \subseteq Project
    BY <2>4 DEF RouteIInv, RouteTypeOK
  <2>6. \A q \in DOMAIN d : IsRuleList(d[q]) /\ \A j \in DOMAIN d[q] : d[q][j].project = q
    <3> SUFFICES ASSUME NEW q \in DOMAIN d
                 PROVE  IsRuleList(d[q]) /\ \A j \in DOMAIN d[q] : d[q][j].project = q
      OBVIOUS
    <3> HIDE DEF d
    <3>1. CASE q = p
      BY <2>2, <2>3, <2>4, <3>1
    <3>2. CASE q # p
      BY <2>4, <3>2 DEF RouteIInv, RouteTypeOK
    <3> QED BY <3>1, <3>2
  <2> HIDE DEF d
  <2> QED BY <2>1, <2>5, <2>6, DispatchEdited
<1>3. ASSUME NEW i \in Place, DropRule(i)  PROVE RouteIInv'
  <2>1. IsRuleList(Restrict(payload.routes, DOMAIN payload.routes \ {i}))
    BY ListRestricted DEF RouteIInv, RouteTypeOK
  <2> QED BY <1>3, <2>1, RoutesEdited DEF DropRule, Change
<1>4. ASSUME NEW p \in Project, Migrate(p)  PROVE RouteIInv'
  <2> DEFINE d == With(payload.dispatch, p, ArrayRules(payload, p))
  <2>1. payload' = [payload EXCEPT !.dispatch = d]
    BY <1>4 DEF Migrate, Change
  <2>2. /\ IsRuleList(ArrayRules(payload, p))
        /\ \A i \in DOMAIN ArrayRules(payload, p) : ArrayRules(payload, p)[i].project = p
    BY ArrayRulesOfProject DEF RouteIInv, RouteTypeOK
  <2>3. /\ DOMAIN d = DOMAIN payload.dispatch \cup {p} /\ d[p] = ArrayRules(payload, p)
        /\ \A q \in DOMAIN d : q # p => d[q] = payload.dispatch[q]
    BY DEF With
  <2> HIDE DEF d
  <2>4. DOMAIN d \subseteq Project
    BY <2>3 DEF RouteIInv, RouteTypeOK
  <2>5. \A q \in DOMAIN d : IsRuleList(d[q]) /\ \A j \in DOMAIN d[q] : d[q][j].project = q
    <3> SUFFICES ASSUME NEW q \in DOMAIN d
                 PROVE  IsRuleList(d[q]) /\ \A j \in DOMAIN d[q] : d[q][j].project = q
      OBVIOUS
    <3>1. CASE q = p
      BY <2>2, <2>3, <3>1
    <3>2. CASE q # p
      BY <2>3, <3>2 DEF RouteIInv, RouteTypeOK
    <3> QED BY <3>1, <3>2
  <2> QED BY <2>1, <2>4, <2>5, DispatchEdited
<1>5. ASSUME NEW p \in Project, DropDead(p)  PROVE RouteIInv'
  <2>1. IsRuleList(Restrict(payload.routes, DOMAIN payload.routes \ DOMAIN ArrayRules(payload, p)))
    BY ListRestricted DEF RouteIInv, RouteTypeOK
  <2> QED BY <1>5, <2>1, RoutesEdited DEF DropDead, Change
<1>6. ASSUME NEW p \in Project, Register(p)  PROVE RouteIInv'
  <2>1. \A q \in DOMAIN With(payload.registry, p, "open") :
          With(payload.registry, p, "open")[q] \in {"open", "done"}
    BY DEF With, RouteIInv, RouteTypeOK
  <2> QED BY <1>6, <2>1, RegistryEdited DEF Register, Change
<1>7. ASSUME NEW p \in Project, CutOver(p)  PROVE RouteIInv'
  <2> DEFINE g == [payload.registry EXCEPT ![p] = "done"]
  <2>1. \A q \in DOMAIN g : g[q] \in {"open", "done"}
    BY DEF RouteIInv, RouteTypeOK
  <2>2. payload' = [payload EXCEPT !.registry = g]
    BY <1>7 DEF CutOver, Change
  <2> HIDE DEF g
  <2> QED BY <2>1, <2>2, RegistryEdited
<1>8. ASSUME NEW w \in Stale, MoveToBinding(w)  PROVE RouteIInv'
  <2>1. payload' = [[payload EXCEPT !.configs = payload.configs] EXCEPT !.stale = payload.stale \ {w}]
    BY <1>8 DEF MoveToBinding, Change, RouteIInv
  <2> QED BY <2>1, LibrariesEdited DEF RouteIInv, RouteTypeOK
<1>9. ASSUME NEW c \in DOMAIN Configs, Declare(c) \/ Withdraw(c)  PROVE RouteIInv'
  <2>1. PICK e : /\ e \in {With(payload.configs, c, Configs[c]),
                           Restrict(payload.configs, DOMAIN payload.configs \ {c})}
                 /\ payload' = [payload EXCEPT !.configs = e]
    BY <1>9 DEF Declare, Withdraw, Change
  <2>2. DOMAIN e \subseteq DOMAIN Configs /\ \A d \in DOMAIN e : e[d] = Configs[d]
    BY <2>1 DEF With, Restrict, RouteIInv, RouteTypeOK
  <2>3. payload' = [[payload EXCEPT !.configs = e] EXCEPT !.stale = payload.stale]
    BY <2>1 DEF RouteIInv
  <2> QED BY <2>2, <2>3, LibrariesEdited DEF RouteIInv, RouteTypeOK
<1>10. CASE UNCHANGED routeVars
  BY <1>10 DEF routeVars, RouteIInv, RouteTypeOK, IsRuleList
<1> QED BY <1>1, <1>2, <1>3, <1>4, <1>5, <1>6, <1>7, <1>8, <1>9, <1>10 DEF RouteNext

-----------------------------------------------------------------------------
(* What the rules of a project are, and which of them is matched.          *)
LEMMA RulesOfTyped ==
  ASSUME RouteIInv, NEW p
  PROVE  /\ IsRuleList(RulesOf(payload, p))
         /\ Valid(payload) => \A i \in DOMAIN RulesOf(payload, p) : RuleValid(payload, RulesOf(payload, p)[i])
<1>1. CASE HasRecord(payload, p)
  <2>1. RulesOf(payload, p) = payload.dispatch[p] /\ p \in DOMAIN payload.dispatch
    BY <1>1 DEF RulesOf, HasRecord
  <2>2. IsRuleList(payload.dispatch[p])
    BY <2>1 DEF RouteIInv, RouteTypeOK
  <2>3. Valid(payload) => \A i \in DOMAIN payload.dispatch[p] : RuleValid(payload, payload.dispatch[p][i])
    BY <2>1 DEF Valid
  <2> QED BY <2>1, <2>2, <2>3
<1>2. CASE ~HasRecord(payload, p)
  <2>1. RulesOf(payload, p) = ArrayRules(payload, p)
    BY <1>2 DEF RulesOf
  <2>2. /\ IsRuleList(ArrayRules(payload, p))
        /\ DOMAIN ArrayRules(payload, p) = {i \in DOMAIN payload.routes : payload.routes[i].project = p}
        /\ \A i \in DOMAIN ArrayRules(payload, p) : ArrayRules(payload, p)[i] = payload.routes[i]
    <3>1. IsRuleList(payload.routes)
      BY DEF RouteIInv, RouteTypeOK
    <3> QED BY <3>1, ArrayRulesOfProject
  <2>3. Valid(payload) => \A i \in DOMAIN payload.routes : RuleValid(payload, payload.routes[i])
    BY DEF Valid
  <2> QED BY <2>1, <2>2, <2>3
<1> QED BY <1>1, <1>2

LEMMA FirstOfIsFirst ==
  ASSUME NEW places, places \subseteq Place, places # {}
  PROVE  FirstOf(places) \in places /\ \A j \in places : FirstOf(places) <= j
<1>1. places \subseteq Nat
  BY RoutesAssumption DEF Place
<1>2. PICK i \in places : \A j \in places : ~(<<j, i>> \in OpToRel(<, Nat))
  BY <1>1, WFMin, NatLessThanWellFounded
<1>3. \A j \in places : ~(j < i)
  BY <1>1, <1>2 DEF OpToRel
<1>4. \A j \in places : i <= j
  BY <1>1, <1>3
<1>5. FirstOf(places) = CHOOSE k \in places : \A j \in places : k <= j
  BY DEF FirstOf
<1> QED BY <1>4, <1>5

LEMMA MatchedRule ==
  ASSUME NEW rules, IsRuleList(rules), NEW state, NEW labels,
         MatchRoute(rules, state, labels) # 0
  PROVE  LET at == MatchRoute(rules, state, labels)
         IN /\ at \in DOMAIN rules /\ state \in rules[at].states
            /\ \/ rules[at].tags # {} /\ Satisfied(rules[at].tags, rules[at].match, labels)
               \/ /\ rules[at].tags = {} /\ Specific(rules, state, labels) = {}
                  /\ \A j \in General(rules, state) : at <= j
<1>1. /\ Specific(rules, state, labels) \subseteq Place
      /\ General(rules, state) \subseteq Place
  BY DEF Specific, General, IsRuleList
<1>2. CASE Specific(rules, state, labels) # {}
  <2>1. MatchRoute(rules, state, labels) \in Specific(rules, state, labels)
    BY <1>1, <1>2, FirstOfIsFirst DEF MatchRoute
  <2> QED BY <2>1 DEF Specific
<1>3. CASE Specific(rules, state, labels) = {}
  <2>1. MatchRoute(rules, state, labels) = FirstOf(General(rules, state))
    BY <1>3 DEF MatchRoute
  <2>2. General(rules, state) # {}
    BY <2>1 DEF FirstOf
  <2>3. /\ MatchRoute(rules, state, labels) \in General(rules, state)
        /\ \A j \in General(rules, state) : MatchRoute(rules, state, labels) <= j
    BY <1>1, <2>1, <2>2, FirstOfIsFirst
  <2> QED BY <1>3, <2>3 DEF General
<1> QED BY <1>2, <1>3

-----------------------------------------------------------------------------
(* What Resolve has checked when it lets a card fire.                      *)
OverrideOf(P, rule, tags) ==
  IF WorkflowLabels(P, tags) = {} THEN rule.workflow ELSE CHOOSE t \in WorkflowLabels(P, tags) : TRUE
OneChoice(P, rule, tags) ==
  rule.config = NoConfig /\ ConfigLabels(P, tags) # {} =>
    /\ ~(Cardinality(ConfigLabels(P, tags)) > 1) /\ ~(Cardinality(ChosenConfigs(P, rule, tags)) > 1)
    /\ ChosenConfigs(P, rule, tags) # {}

LEMMA ResolveCases ==
  ASSUME NEW P, NEW p, NEW state, NEW tags \in SUBSET Tag
  PROVE  LET at   == MatchRoute(RulesOf(P, p), state, tags)
             rule == RulesOf(P, p)[at]
             d    == Resolve(P, p, state, tags)
         IN \/ ~d.fires /\ d.why # "unknown config"
            \/ /\ ~d.fires /\ rule.config = NoConfig
               /\ ConfigLabels(P, tags) # {} /\ ChosenConfigs(P, rule, tags) = {}
            \/ /\ d.fires /\ at # 0 /\ OverrideOf(P, rule, tags) \in Workflows
               /\ OneChoice(P, rule, tags) /\ d.workflow = OverrideOf(P, rule, tags)
               /\ d.config = IF ChosenConfigs(P, rule, tags) = {} THEN NoConfig
                             ELSE CHOOSE c \in ChosenConfigs(P, rule, tags) : TRUE
<1> DEFINE at   == MatchRoute(RulesOf(P, p), state, tags)
           rule == RulesOf(P, p)[at]
           overrides == WorkflowLabels(P, tags)
           labels == ConfigLabels(P, tags)
           configs == ChosenConfigs(P, rule, tags)
           served == [fires |-> TRUE, workflow |-> OverrideOf(P, rule, tags),
                      cutover |-> p \in DOMAIN P.registry /\ P.registry[p] = "done",
                      config |-> IF configs = {} THEN NoConfig ELSE CHOOSE c \in configs : TRUE]
<1>1. Resolve(P, p, state, tags) =
        CASE at = 0 -> Refused("no route")
          [] at # 0 /\ Cardinality(overrides) > 1 -> Refused("ambiguous workflow")
          [] at # 0 /\ Cardinality(overrides) < 2 /\ OverrideOf(P, rule, tags) \notin Workflows
               -> Refused("unknown workflow")
          [] OTHER ->
               IF rule.config = NoConfig /\ labels # {} /\ (Cardinality(labels) > 1 \/ Cardinality(configs) > 1)
               THEN Refused("ambiguous config")
               ELSE IF rule.config = NoConfig /\ labels # {} /\ configs = {} THEN Refused("unknown config")
               ELSE served
  BY DEF Resolve, OverrideOf
<1> HIDE DEF at, rule, overrides, labels, configs, served
<1>2. /\ IsFiniteSet(overrides) /\ IsFiniteSet(labels)
      /\ Cardinality(overrides) \in Nat /\ Cardinality(labels) \in Nat
  BY RoutesAssumption, FS_Subset, FS_CardinalityType DEF overrides, labels, WorkflowLabels, ConfigLabels
<1>3. OneChoice(P, rule, tags) <=>
        (rule.config = NoConfig /\ labels # {} =>
           ~(Cardinality(labels) > 1) /\ ~(Cardinality(configs) > 1) /\ configs # {})
  BY DEF OneChoice, labels, configs
<1>r. \A why : ~Refused(why).fires /\ Refused(why).why = why
  BY DEF Refused
<1>s. /\ served.fires /\ served.workflow = OverrideOf(P, rule, tags)
      /\ served.config = IF configs = {} THEN NoConfig ELSE CHOOSE c \in configs : TRUE
  BY DEF served
<1>4. CASE at = 0 \/ Cardinality(overrides) > 1
  <2>1. CASE at = 0
    <3>1. Resolve(P, p, state, tags) = Refused("no route")
      BY <1>1, <2>1
    <3> QED BY <3>1, <1>r
  <2>2. CASE at # 0 /\ Cardinality(overrides) > 1
    <3>1. ~(Cardinality(overrides) < 2)
      BY <1>2, <2>2
    <3>2. Resolve(P, p, state, tags) = Refused("ambiguous workflow")
      BY <1>1, <2>2, <3>1
    <3> QED BY <3>2, <1>r
  <2> QED BY <1>4, <2>1, <2>2
<1>5. CASE at # 0 /\ ~(Cardinality(overrides) > 1) /\ OverrideOf(P, rule, tags) \notin Workflows
  <2>1. Cardinality(overrides) < 2
    BY <1>2, <1>5
  <2>2. Resolve(P, p, state, tags) = Refused("unknown workflow")
    BY <1>1, <1>5, <2>1
  <2> QED BY <2>2, <1>r
<1>6. CASE at # 0 /\ ~(Cardinality(overrides) > 1) /\ OverrideOf(P, rule, tags) \in Workflows
  <2>1. Cardinality(overrides) < 2
    BY <1>2, <1>6
  <2>2. Resolve(P, p, state, tags) =
          IF rule.config = NoConfig /\ labels # {} /\ (Cardinality(labels) > 1 \/ Cardinality(configs) > 1)
          THEN Refused("ambiguous config")
          ELSE IF rule.config = NoConfig /\ labels # {} /\ configs = {} THEN Refused("unknown config")
          ELSE served
    BY <1>1, <1>6, <2>1
  <2>3. \/ Resolve(P, p, state, tags) = Refused("ambiguous config")
        \/ /\ Resolve(P, p, state, tags) = Refused("unknown config")
           /\ rule.config = NoConfig /\ labels # {} /\ configs = {}
        \/ Resolve(P, p, state, tags) = served /\ OneChoice(P, rule, tags)
    BY <1>3, <2>2
  <2>4. CASE Resolve(P, p, state, tags) = Refused("ambiguous config")
    BY <2>4, <1>r
  <2>5. CASE /\ Resolve(P, p, state, tags) = Refused("unknown config")
             /\ rule.config = NoConfig /\ labels # {} /\ configs = {}
    BY <2>5, <1>r DEF at, rule, labels, configs
  <2>6. CASE Resolve(P, p, state, tags) = served /\ OneChoice(P, rule, tags)
    BY <2>6, <1>6, <1>s, Zenon DEF at, rule, configs
  <2> QED BY <2>3, <2>4, <2>5, <2>6
<1> QED BY <1>4, <1>5, <1>6

LEMMA FiredMeans ==
  ASSUME NEW P, NEW p, NEW state, NEW tags \in SUBSET Tag, NEW at, NEW rule, NEW d,
         at = MatchRoute(RulesOf(P, p), state, tags), rule = RulesOf(P, p)[at],
         d = Resolve(P, p, state, tags), d.fires
  PROVE  /\ at # 0 /\ d.workflow = OverrideOf(P, rule, tags) /\ d.workflow \in Workflows
         /\ OneChoice(P, rule, tags)
         /\ d.config = IF ChosenConfigs(P, rule, tags) = {} THEN NoConfig
                       ELSE CHOOSE c \in ChosenConfigs(P, rule, tags) : TRUE
<1>1. Resolve(P, p, state, tags).fires =>
        LET m == MatchRoute(RulesOf(P, p), state, tags)
            r == RulesOf(P, p)[m]
            e == Resolve(P, p, state, tags)
        IN /\ m # 0 /\ OverrideOf(P, r, tags) \in Workflows
           /\ OneChoice(P, r, tags) /\ e.workflow = OverrideOf(P, r, tags)
           /\ e.config = IF ChosenConfigs(P, r, tags) = {} THEN NoConfig
                         ELSE CHOOSE c \in ChosenConfigs(P, r, tags) : TRUE
  BY ResolveCases, Zenon
<1> QED BY <1>1

LEMMA RefusalMeans ==
  ASSUME NEW P, NEW p, NEW state, NEW tags \in SUBSET Tag, NEW rule, NEW d,
         rule = RulesOf(P, p)[MatchRoute(RulesOf(P, p), state, tags)],
         d = Resolve(P, p, state, tags), ~d.fires, d.why = "unknown config"
  PROVE  /\ rule.config = NoConfig /\ ConfigLabels(P, tags) # {}
         /\ ChosenConfigs(P, rule, tags) = {}
BY ResolveCases, Zenon

\* A decision that fires, or that names an unknown config, is one of Resolve.
LEMMA DecisionIsResolved ==
  ASSUME NEW P, NEW c,
         Decision(P, c).fires \/ Decision(P, c).why = "unknown config"
  PROVE  Valid(P) /\ Decision(P, c) = Resolve(P, c.project, c.state, c.tags)
<1>1. \A why : ~Refused(why).fires /\ Refused(why).why = why
  BY DEF Refused
<1>2. CASE ~Valid(P)
  <2>1. Decision(P, c) = Refused("invalid payload")
    BY <1>2 DEF Decision, Poll
  <2> QED BY <1>1, <2>1
<1>3. CASE Valid(P)
  BY <1>3 DEF Decision, Poll
<1> QED BY <1>2, <1>3

\* A config entry that may be chosen exists.
LEMMA ChosenExist ==
  ASSUME NEW P, NEW rule, RuleValid(P, rule), NEW tags
  PROVE  ChosenConfigs(P, rule, tags) \subseteq DOMAIN P.configs
<1>1. \A t : ConfigsOf(P, t) \subseteq DOMAIN P.configs
  BY DEF ConfigsOf
<1> QED BY <1>1 DEF ChosenConfigs, RuleValid

LEMMA Served == RouteIInv => DecisionsAreServed
<1> SUFFICES ASSUME RouteIInv, NEW c \in Cards
             PROVE  LET d == Decision(payload, c)
                    IN IF d.fires THEN d.workflow \in Workflows /\ d.config \in DOMAIN payload.configs \cup {NoConfig}
                       ELSE d.why # "unknown config"
  BY DEF DecisionsAreServed
<1> DEFINE rules == RulesOf(payload, c.project)
           at == MatchRoute(rules, c.state, c.tags)
           rule == rules[at]
           d == Decision(payload, c)
<1>1. c.tags \in SUBSET Tag
  BY DEF Cards
<1>2. CASE d.fires
  <2>1. Valid(payload) /\ d = Resolve(payload, c.project, c.state, c.tags)
    BY <1>2, DecisionIsResolved
  <2>2. /\ at # 0 /\ d.workflow \in Workflows
        /\ d.config = IF ChosenConfigs(payload, rule, c.tags) = {} THEN NoConfig
                      ELSE CHOOSE e \in ChosenConfigs(payload, rule, c.tags) : TRUE
    BY <1>1, <1>2, <2>1, FiredMeans
  <2>3. at \in DOMAIN rules
    BY <2>2, RulesOfTyped, MatchedRule
  <2>4. RuleValid(payload, rule)
    BY <2>1, <2>3, RulesOfTyped
  <2>5. ChosenConfigs(payload, rule, c.tags) \subseteq DOMAIN payload.configs
    BY <2>4, ChosenExist
  <2>6. d.config \in DOMAIN payload.configs \cup {NoConfig}
    BY <2>2, <2>5
  <2> QED BY <1>2, <2>2, <2>6
<1>3. CASE ~d.fires
  <2> SUFFICES ASSUME d.why = "unknown config"  PROVE FALSE
    BY <1>3
  <2>1. d = Resolve(payload, c.project, c.state, c.tags)
    BY DecisionIsResolved
  <2>2. /\ rule.config = NoConfig /\ ConfigLabels(payload, c.tags) # {}
        /\ ChosenConfigs(payload, rule, c.tags) = {}
    BY <1>1, <1>3, <2>1, RefusalMeans
  <2>3. PICK t \in ConfigLabels(payload, c.tags) : TRUE
    BY <2>2
  <2>4. ConfigsOf(payload, t) # {}
    BY DEF ConfigLabels, ConfigsTagGroupMember
  <2>5. ConfigsOf(payload, t) \subseteq ChosenConfigs(payload, rule, c.tags)
    BY <2>2 DEF ChosenConfigs
  <2> QED BY <2>2, <2>4, <2>5
<1> QED BY <1>2, <1>3

\* A finite set with at most one member.
LEMMA AtMostOne ==
  ASSUME NEW S, IsFiniteSet(S), ~(Cardinality(S) > 1), NEW x \in S
  PROVE  S = {x}
<1>1. Cardinality(S) \in Nat
  BY FS_CardinalityType
<1>2. Cardinality(S) # 0
  BY FS_EmptySet
<1>3. Cardinality(S) = 1
  BY <1>1, <1>2
<1> QED BY <1>3, FS_Singleton

LEMMA NotArbitrary == RouteIInv => NothingIsArbitrary
<1> SUFFICES ASSUME RouteIInv, NEW c \in Cards, Decision(payload, c).fires
             PROVE  LET d == Decision(payload, c)
                        mine == RulesOf(payload, c.project)
                        rules == {i \in DOMAIN mine : c.state \in mine[i].states /\ RuleFits(mine[i], c.tags)}
                    IN \E i \in rules :
                         /\ mine[i].tags = {} => \A j \in rules : mine[j].tags = {} /\ i <= j
                         /\ WorkflowLabels(payload, c.tags) = {} => d.workflow = mine[i].workflow
                         /\ d.config \in {mine[i].config} \cup DOMAIN payload.configs
                         /\ mine[i].config # NoConfig => d.config = mine[i].config
                         /\ mine[i].config = NoConfig =>
                              \A e \in DOMAIN payload.configs : \A t \in c.tags \ RoutingTags :
                                (e = t \/ (t \notin DOMAIN payload.configs /\ EntrySatisfied(payload, e, t)))
                                  => e = d.config
  BY DEF NothingIsArbitrary
<1> DEFINE d == Decision(payload, c)
           mine == RulesOf(payload, c.project)
           rules == {i \in DOMAIN mine : c.state \in mine[i].states /\ RuleFits(mine[i], c.tags)}
           at == MatchRoute(mine, c.state, c.tags)
           labels == ConfigLabels(payload, c.tags)
           chosen == ChosenConfigs(payload, mine[at], c.tags)
<1>1. c.tags \in SUBSET Tag
  BY DEF Cards
<1>2. Valid(payload) /\ d = Resolve(payload, c.project, c.state, c.tags)
  BY DecisionIsResolved
<1>3. /\ at # 0 /\ d.workflow = OverrideOf(payload, mine[at], c.tags)
      /\ OneChoice(payload, mine[at], c.tags)
      /\ d.config = IF chosen = {} THEN NoConfig ELSE CHOOSE e \in chosen : TRUE
  BY <1>1, <1>2, FiredMeans
<1>4. IsRuleList(mine)
  BY RulesOfTyped
<1>5. /\ at \in DOMAIN mine /\ c.state \in mine[at].states
      /\ \/ mine[at].tags # {} /\ Satisfied(mine[at].tags, mine[at].match, c.tags)
         \/ /\ mine[at].tags = {} /\ Specific(mine, c.state, c.tags) = {}
            /\ \A j \in General(mine, c.state) : at <= j
  BY <1>3, <1>4, MatchedRule
<1>6. RuleValid(payload, mine[at])
  BY <1>2, <1>5, RulesOfTyped
<1>7. chosen \subseteq DOMAIN payload.configs
  BY <1>6, ChosenExist
<1>8. at \in rules
  BY <1>5 DEF RuleFits
<1>9. mine[at].tags = {} => \A j \in rules : mine[j].tags = {} /\ at <= j
  <2> SUFFICES ASSUME mine[at].tags = {}, NEW j \in rules
               PROVE  mine[j].tags = {} /\ at <= j
    OBVIOUS
  <2>1. Specific(mine, c.state, c.tags) = {} /\ \A k \in General(mine, c.state) : at <= k
    BY <1>5
  <2>2. mine[j].tags = {}
    BY <2>1 DEF Specific, RuleFits
  <2>3. j \in General(mine, c.state)
    BY <2>2 DEF General
  <2> QED BY <2>1, <2>2, <2>3
<1>10. WorkflowLabels(payload, c.tags) = {} => d.workflow = mine[at].workflow
  BY <1>3 DEF OverrideOf
<1>11. mine[at].config # NoConfig => d.config = mine[at].config
  <2> SUFFICES ASSUME mine[at].config # NoConfig  PROVE d.config = mine[at].config
    OBVIOUS
  <2>1. chosen = {mine[at].config}
    BY DEF ChosenConfigs
  <2> QED BY <1>3, <2>1
<1>12. d.config \in {mine[at].config} \cup DOMAIN payload.configs
  <2>1. CASE chosen = {}
    <3>1. mine[at].config = NoConfig
      BY <2>1 DEF ChosenConfigs
    <3> QED BY <1>3, <2>1, <3>1
  <2>2. CASE chosen # {}
    BY <1>3, <1>7, <2>2
  <2> QED BY <2>1, <2>2
<1>13. ASSUME mine[at].config = NoConfig, NEW e \in DOMAIN payload.configs,
              NEW t \in c.tags \ RoutingTags,
              e = t \/ (t \notin DOMAIN payload.configs /\ EntrySatisfied(payload, e, t))
       PROVE  e = d.config
  <2>1. e \in ConfigsOf(payload, t)
    BY <1>13 DEF ConfigsOf
  <2>2. t \in labels
    BY <1>13, <2>1 DEF ConfigLabels, ConfigsTagGroupMember
  <2>3. e \in chosen
    BY <1>13, <2>1, <2>2 DEF ChosenConfigs
  <2>4. ~(Cardinality(chosen) > 1)
    BY <1>3, <1>13, <2>2 DEF OneChoice
  <2>5. DOMAIN payload.configs \subseteq DOMAIN Configs
    BY DEF RouteIInv, RouteTypeOK
  <2>6. IsFiniteSet(chosen)
    BY <1>7, <2>5, RoutesAssumption, FS_Subset
  <2>7. chosen = {e}
    BY <2>3, <2>4, <2>6, AtMostOne
  <2> QED BY <1>3, <2>7
<1> HIDE DEF d, mine, rules, at
<1>14. \E i \in rules :
         /\ mine[i].tags = {} => \A j \in rules : mine[j].tags = {} /\ i <= j
         /\ WorkflowLabels(payload, c.tags) = {} => d.workflow = mine[i].workflow
         /\ d.config \in {mine[i].config} \cup DOMAIN payload.configs
         /\ mine[i].config # NoConfig => d.config = mine[i].config
         /\ mine[i].config = NoConfig =>
              \A e \in DOMAIN payload.configs : \A t \in c.tags \ RoutingTags :
                (e = t \/ (t \notin DOMAIN payload.configs /\ EntrySatisfied(payload, e, t))) => e = d.config
  BY <1>8, <1>9, <1>10, <1>11, <1>12, <1>13, Zenon
<1> QED BY <1>14 DEF d, mine, rules

-----------------------------------------------------------------------------
(* RouteIInv is inductive, and each part of RouteInv follows from it.      *)
LEMMA RouteIInvIsInv == RouteSpec => []RouteIInv
<1> QED BY RouteInitTyped, RouteStepTyped, PTL DEF RouteSpec

\* Whatever the rules, entries, tags and projects, and however editors got to
\* the payload: what fires is in the library, the watcher's sorting of tags
\* agrees with Resolve's lookup, and neither the rule nor the config of a card
\* that fires depends on an order the payload does not fix (Payload.Validate,
\* matchRoute, Resolve, ConfigsTagGroupMember).
THEOREM DecisionsAreDetermined == RouteSpec => []RouteInv
<1>1. RouteIInv => RouteInv
  BY Served, NotArbitrary DEF RouteInv, RouteIInv
<1> QED BY <1>1, RouteIInvIsInv, PTL

-----------------------------------------------------------------------------
(* Two valid payloads that agree on the rules of a card's project, on the  *)
(* registry and on the entries decide alike.                               *)
Outcome(at, rule, workflow, overrides, labels, configs, done) ==
  CASE at = 0                              -> Refused("no route")
    [] at # 0 /\ Cardinality(overrides) > 1 -> Refused("ambiguous workflow")
    [] at # 0 /\ Cardinality(overrides) < 2 /\ workflow \notin Workflows -> Refused("unknown workflow")
    [] OTHER ->
         IF rule.config = NoConfig /\ labels # {} /\ (Cardinality(labels) > 1 \/ Cardinality(configs) > 1)
         THEN Refused("ambiguous config")
         ELSE IF rule.config = NoConfig /\ labels # {} /\ configs = {} THEN Refused("unknown config")
         ELSE [fires |-> TRUE, workflow |-> workflow, cutover |-> done,
               config |-> IF configs = {} THEN NoConfig ELSE CHOOSE c \in configs : TRUE]

LEMMA ResolveIsOutcome ==
  ASSUME NEW P, NEW p, NEW state, NEW tags
  PROVE  LET at == MatchRoute(RulesOf(P, p), state, tags)
             rule == RulesOf(P, p)[at]
         IN Resolve(P, p, state, tags) =
              Outcome(at, rule, OverrideOf(P, rule, tags), WorkflowLabels(P, tags), ConfigLabels(P, tags),
                      ChosenConfigs(P, rule, tags), p \in DOMAIN P.registry /\ P.registry[p] = "done")
BY DEF Resolve, Outcome, OverrideOf

LEMMA SameRulesSameDecision ==
  ASSUME NEW P, NEW Q, NEW c, Valid(P), Valid(Q), Q.configs = P.configs, Q.registry = P.registry,
         RulesOf(Q, c.project) = RulesOf(P, c.project)
  PROVE  Decision(Q, c) = Decision(P, c)
<1>1. \A t : ConfigsOf(Q, t) = ConfigsOf(P, t)
  BY DEF ConfigsOf, EntrySatisfied
<1>2. /\ ConfigLabels(Q, c.tags) = ConfigLabels(P, c.tags)
      /\ WorkflowLabels(Q, c.tags) = WorkflowLabels(P, c.tags)
  BY <1>1 DEF ConfigLabels, WorkflowLabels, ConfigsTagGroupMember
<1>3. \A r : ChosenConfigs(Q, r, c.tags) = ChosenConfigs(P, r, c.tags)
  BY <1>1, <1>2 DEF ChosenConfigs
<1>4. \A r : OverrideOf(Q, r, c.tags) = OverrideOf(P, r, c.tags)
  BY <1>2 DEF OverrideOf
<1> DEFINE at == MatchRoute(RulesOf(P, c.project), c.state, c.tags)
           rule == RulesOf(P, c.project)[at]
<1>5. Resolve(P, c.project, c.state, c.tags) =
        Outcome(at, rule, OverrideOf(P, rule, c.tags), WorkflowLabels(P, c.tags), ConfigLabels(P, c.tags),
                ChosenConfigs(P, rule, c.tags),
                c.project \in DOMAIN P.registry /\ P.registry[c.project] = "done")
  BY ResolveIsOutcome
<1>6. Resolve(Q, c.project, c.state, c.tags) =
        Outcome(at, rule, OverrideOf(Q, rule, c.tags), WorkflowLabels(Q, c.tags), ConfigLabels(Q, c.tags),
                ChosenConfigs(Q, rule, c.tags),
                c.project \in DOMAIN P.registry /\ P.registry[c.project] = "done")
  BY ResolveIsOutcome
<1>7. Resolve(Q, c.project, c.state, c.tags) = Resolve(P, c.project, c.state, c.tags)
  BY <1>2, <1>3, <1>4, <1>5, <1>6
<1> QED BY <1>7 DEF Decision, Poll

\* A project's record, when it is made, holds what its rules were.
LEMMA MigratedRules ==
  ASSUME RouteIInv, NEW p \in Project, Migrate(p), NEW q
  PROVE  RulesOf(payload', q) = RulesOf(payload, q)
<1>1. payload' = [payload EXCEPT !.dispatch = With(payload.dispatch, p, ArrayRules(payload, p))]
  BY DEF Migrate, Change
<1>2. /\ payload'.routes = payload.routes
      /\ payload'.dispatch = With(payload.dispatch, p, ArrayRules(payload, p))
  BY <1>1 DEF RouteIInv
<1>3. ArrayRules(payload', q) = ArrayRules(payload, q)
  BY <1>2 DEF ArrayRules
<1>4. CASE q = p
  <2>1. HasRecord(payload', p) /\ payload'.dispatch[p] = ArrayRules(payload, p)
    BY <1>2 DEF HasRecord, With
  <2>2. ~HasRecord(payload, p)
    BY DEF Migrate
  <2> QED BY <1>4, <2>1, <2>2 DEF RulesOf
<1>5. CASE q # p
  <2>1. HasRecord(payload', q) <=> HasRecord(payload, q)
    BY <1>2, <1>5 DEF HasRecord, With
  <2>2. HasRecord(payload, q) => payload'.dispatch[q] = payload.dispatch[q]
    BY <1>2, <1>5 DEF HasRecord, With
  <2> QED BY <1>3, <2>1, <2>2 DEF RulesOf
<1> QED BY <1>4, <1>5

\* The rules that are deleted are of a project that has a record.
LEMMA DeadRules ==
  ASSUME RouteIInv, NEW p \in Project, DropDead(p), NEW q
  PROVE  RulesOf(payload', q) = RulesOf(payload, q)
<1> DEFINE kept == Restrict(payload.routes, DOMAIN payload.routes \ DOMAIN ArrayRules(payload, p))
<1>1. payload' = [payload EXCEPT !.routes = kept]
  BY DEF DropDead, Change
<1>2. payload'.routes = kept /\ payload'.dispatch = payload.dispatch
  BY <1>1 DEF RouteIInv
<1>3. HasRecord(payload', q) <=> HasRecord(payload, q)
  BY <1>2 DEF HasRecord
<1>4. CASE HasRecord(payload, q)
  BY <1>2, <1>3, <1>4 DEF RulesOf
<1>5. CASE ~HasRecord(payload, q)
  <2>1. q # p
    BY <1>5 DEF DropDead
  <2>2. DOMAIN ArrayRules(payload, p) = {i \in DOMAIN payload.routes : payload.routes[i].project = p}
    BY DEF ArrayRules, Restrict
  <2>3. /\ DOMAIN kept = {i \in DOMAIN payload.routes : payload.routes[i].project # p}
        /\ \A i \in DOMAIN kept : kept[i] = payload.routes[i]
    BY <2>2 DEF Restrict
  <2> HIDE DEF kept
  <2>4. {i \in DOMAIN kept : kept[i].project = q} = {i \in DOMAIN payload.routes : payload.routes[i].project = q}
    BY <2>1, <2>3
  <2>5. ArrayRules(payload', q) = ArrayRules(payload, q)
    BY <1>2, <2>3, <2>4 DEF ArrayRules, Restrict
  <2> QED BY <1>3, <1>5, <2>5 DEF RulesOf
<1> QED BY <1>4, <1>5

\* Whatever the array and the records hold: a step of a migration between two
\* payloads that validate decides every card as before (the dual-read of
\* Payload.matchRoute).
THEOREM MigrationChangesNoDecision == RouteSpec => MigrationIsInvisible
<1>1. ASSUME RouteIInv, RouteNext, edit' = "migrate", Valid(payload), Valid(payload'), NEW c \in Cards
      PROVE  Decision(payload', c) = Decision(payload, c)
  <2>1. PICK p \in Project : Migrate(p) \/ DropDead(p)
    BY <1>1 DEF RouteNext, AddRule, EditRecord, DropRule, Register, CutOver, MoveToBinding,
                Declare, Withdraw, Change
  <2>2. RulesOf(payload', c.project) = RulesOf(payload, c.project)
    BY <1>1, <2>1, MigratedRules, DeadRules
  <2>3. payload'.configs = payload.configs /\ payload'.registry = payload.registry
    BY <1>1, <2>1 DEF Migrate, DropDead, Change, RouteIInv
  <2> QED BY <1>1, <2>2, <2>3, SameRulesSameDecision
<1>2. ASSUME RouteIInv, [RouteNext]_routeVars
      PROVE  [edit' = "migrate" /\ Valid(payload) /\ Valid(payload') =>
                \A c \in Cards : Decision(payload', c) = Decision(payload, c)]_routeVars
  BY <1>1, <1>2
<1> QED BY <1>2, RouteIInvIsInv, PTL DEF RouteSpec, MigrationIsInvisible
=============================================================================
