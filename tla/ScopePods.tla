------------------------------ MODULE ScopePods ------------------------------
(***************************************************************************)
(* The per-scope adapter pods of one run (internal/controller/per_scope.go,*)
(* the pod builders of internal/jobbuilder, the pod-state feed of          *)
(* internal/castle/podstate.go).  A pass takes castle's lifecycle history, *)
(* derives the pods the active scopes want, defers while the runner pod    *)
(* has no address, lists the pods, reports their state, deletes the        *)
(* undesired ones and creates the missing ones.  The engine wants and      *)
(* releases scopes and pods come and go between any two calls.             *)
(***************************************************************************)
EXTENDS Naturals, FiniteSets

CONSTANTS
  Scope,        \* scope instances of the run, each wanted and released once
  Env,          \* environments
  EnvOf,        \* EnvOf[s]: the environment s declares, or NoEnv
  DefOf,        \* DefOf[s]: the adapter definition s is an instance of
  Wire,         \* the scopes whose provision carries an accept token
  GraphDefs,    \* GraphDefs[e]: definitions the compiled graphs bind to e
  NoEnv, NoScope,
  MaxFaults     \* bound on failed calls

ASSUME PodsAssumption ==
  /\ EnvOf \in [Scope -> Env \cup {NoEnv}] /\ NoEnv \notin Env /\ NoScope \notin Scope
  /\ DOMAIN DefOf = Scope /\ Wire \subseteq Scope
  /\ DOMAIN GraphDefs = Env /\ MaxFaults \in Nat

VARIABLES
  wanted, released,  \* scopes the engine's events have named
  graphs,            \* the compiled graphs have been published
  routable,          \* the runner pod has an address
  pods,              \* pods[n]: the pod object named n
  session,           \* scopes an adapter has dialed the engine for
  told,              \* told[s]: the pod phase castle last heard for s
  last,              \* the feed's memo of the phase it last emitted for s
  pass,              \* the reconcile in progress
  faults

engineVars == <<wanted, released, graphs, routable>>
vars == <<engineVars, pods, session, told, last, pass, faults>>

Peer(e) == <<"peer", e>>
Own(s) == <<"adapter", s>>
PodName == {Peer(e) : e \in Env} \cup {Own(s) : s \in Scope}
PodPhase == {"none", "Pending", "Running", "terminating"}
NoPod == [phase |-> "none", pinned |-> NoScope, dials |-> FALSE]
Live(n) == pods[n].phase \in {"Pending", "Running"}

Fault == faults < MaxFaults /\ faults' = faults + 1
NoFault == UNCHANGED faults

-----------------------------------------------------------------------------
(* What a set of active scopes wants. *)
EveryWanted(W, R) == W                     \* mutant: a release is not looked at
ActiveProvisions(W, R) == W \ R

MembersOf(active, e) == {s \in active : EnvOf[s] = e}
PodOf(s) == IF EnvOf[s] = NoEnv THEN Own(s) ELSE Peer(EnvOf[s])
Hosted(n) == {s \in Scope : PodOf(s) = n}
Desired(active) == {PodOf(s) : s \in active}

\* Every peer pod bakes the runner's address in, and so does a token delivery.
NeedsOnlyForToken(active) == active \cap Wire # {}    \* mutant
NeedsRunnerIP(active) == \E s \in active : s \in Wire \/ EnvOf[s] # NoEnv

\* Definitions of the environment no observed scope has provisioned yet.
GraphMembers(active, e, known) ==
  IF known THEN GraphDefs[e] \ {DefOf[s] : s \in MembersOf(active, e)} ELSE {}

\* Several members make a scope-set pod that dials for every token it finds;
\* a single member with a token is baked into the pod.
ScopeSet(active, e, known) ==
  Cardinality(MembersOf(active, e)) + Cardinality(GraphMembers(active, e, known)) > 1
WireDelivery(active, e, known) ==
  MembersOf(active, e) \subseteq Wire /\ GraphMembers(active, e, known) = {}

PinnedScope(active, e, known, ip) ==
  IF ip /\ WireDelivery(active, e, known) /\ ~ScopeSet(active, e, known)
  THEN CHOOSE s \in MembersOf(active, e) : TRUE ELSE NoScope
BuildPeerPod(active, e, known, ip) ==
  [phase |-> "Pending", dials |-> ip, pinned |-> PinnedScope(active, e, known, ip)]

\* Without a token the fallback pod finds the runner by itself.
BuildAdapterPod(s, ip) == [phase |-> "Pending", dials |-> ip \/ s \notin Wire, pinned |-> s]

Build(n, active, known, ip) ==
  IF n \in {Own(s) : s \in Scope}
  THEN BuildAdapterPod(CHOOSE s \in Scope : n = Own(s), ip)
  ELSE BuildPeerPod(active, CHOOSE e \in Env : n = Peer(e), known, ip)

-----------------------------------------------------------------------------
(* The reconcile. *)
IdlePass == [step |-> "idle", active |-> {}, graph |-> FALSE, ip |-> FALSE,
             existing |-> [n \in {} |-> "none"], todo |-> {}]

\* The pass observed castle; unusable graphs are ignored.
StartPass ==
  /\ pass.step = "idle"
  /\ \E known \in {graphs, FALSE} :
       /\ IF known = graphs THEN NoFault ELSE Fault
       /\ pass' = [IdlePass EXCEPT !.step = "runner", !.graph = known,
                                   !.active = ActiveProvisions(wanted, released)]
  /\ UNCHANGED <<engineVars, pods, session, told, last>>

\* Nothing is touched while the address is needed and not there.
ResolveRunner ==
  /\ pass.step = "runner"
  /\ \/ /\ NoFault
        /\ pass' = IF NeedsRunnerIP(pass.active) /\ ~routable THEN IdlePass
                   ELSE [pass EXCEPT !.step = "list",
                                     !.ip = NeedsRunnerIP(pass.active) /\ routable]
     \/ Fault /\ pass' = IdlePass
  /\ UNCHANGED <<engineVars, pods, session, told, last>>

ListPods ==
  /\ pass.step = "list"
  /\ \/ /\ NoFault
        /\ pass' = [pass EXCEPT !.step = "emit",
             !.existing = [n \in {m \in PodName : pods[m].phase # "none"} |-> pods[n].phase],
             !.todo = {s \in pass.active : pods[PodOf(s)].phase \in {"Pending", "Running"}}]
     \/ Fault /\ pass' = IdlePass
  /\ UNCHANGED <<engineVars, pods, session, told, last>>

Phase(s) == pass.existing[PodOf(s)]
Unsaid(s) == last[s] # Phase(s)

\* A changed state is submitted; the memo follows what castle accepted.
Submit(s) ==
  \/ NoFault /\ told' = [told EXCEPT ![s] = Phase(s)] /\ last' = [last EXCEPT ![s] = Phase(s)]
  \/ Fault /\ UNCHANGED <<told, last>>

EmitPodState ==
  /\ pass.step = "emit" /\ pass.todo # {}
  /\ LET s == CHOOSE t \in pass.todo : TRUE
     IN /\ pass' = [pass EXCEPT !.todo = @ \ {s}]
        /\ IF Unsaid(s) THEN Submit(s) ELSE NoFault /\ UNCHANGED <<told, last>>
  /\ UNCHANGED <<engineVars, pods, session>>

RecreateOnDrift(n) ==                      \* mutant: a shrunken group is rebuilt
  n \notin Desired(pass.active) \/ Hosted(n) \cap released # {}
Undesired(n) == n \notin Desired(pass.active)

EmitDone ==
  /\ pass.step = "emit" /\ pass.todo = {}
  /\ pass' = [pass EXCEPT !.step = "delete", !.todo = {n \in DOMAIN pass.existing : Undesired(n)}]
  /\ UNCHANGED <<engineVars, pods, session, told, last, faults>>

DeletePod ==
  /\ pass.step = "delete"
  /\ \E n \in pass.todo :
       \/ /\ NoFault
          /\ pods' = [pods EXCEPT ![n].phase = IF @ = "none" THEN @ ELSE "terminating"]
          /\ session' = session \ Hosted(n)
          /\ pass' = [pass EXCEPT !.todo = @ \ {n}]
       \/ Fault /\ pass' = IdlePass /\ UNCHANGED <<pods, session>>
  /\ UNCHANGED <<engineVars, told, last>>

DeleteDone ==
  /\ pass.step = "delete" /\ pass.todo = {}
  /\ pass' = [pass EXCEPT !.step = "create", !.todo = Desired(pass.active) \ DOMAIN pass.existing]
  /\ UNCHANGED <<engineVars, pods, session, told, last, faults>>

\* A name still terminating is left to a later pass.
CreatePod ==
  /\ pass.step = "create"
  /\ \E n \in pass.todo :
       \/ /\ NoFault
          /\ pods' = IF pods[n].phase # "none" THEN pods
                     ELSE [pods EXCEPT ![n] = Build(n, pass.active, pass.graph, pass.ip)]
          /\ pass' = [pass EXCEPT !.todo = @ \ {n}]
       \/ Fault /\ pass' = IdlePass /\ UNCHANGED pods
  /\ UNCHANGED <<engineVars, session, told, last>>

CreateDone ==
  /\ pass.step = "create" /\ pass.todo = {}
  /\ pass' = IdlePass
  /\ UNCHANGED <<engineVars, pods, session, told, last, faults>>

-----------------------------------------------------------------------------
(* The engine, the kubelet and the adapters. *)
Want(s) ==
  /\ s \notin wanted
  /\ wanted' = wanted \cup {s}
  /\ UNCHANGED <<released, graphs, routable, pods, session, told, last, pass, faults>>

\* A scope is released when its session is over, or was never needed.
ReleaseScope(s) ==
  /\ s \in wanted \ released
  /\ released' = released \cup {s} /\ session' = session \ {s}
  /\ UNCHANGED <<wanted, graphs, routable, pods, told, last, pass, faults>>

PublishGraphs ==
  /\ ~graphs /\ graphs' = TRUE
  /\ UNCHANGED <<wanted, released, routable, pods, session, told, last, pass, faults>>

RunnerGetsAddress ==
  /\ ~routable /\ routable' = TRUE
  /\ UNCHANGED <<wanted, released, graphs, pods, session, told, last, pass, faults>>

StartPod(n) ==
  /\ pods[n].phase = "Pending"
  /\ pods' = [pods EXCEPT ![n].phase = "Running"]
  /\ UNCHANGED <<engineVars, session, told, last, pass, faults>>

PodIsGone(n) ==
  /\ pods[n].phase = "terminating"
  /\ pods' = [pods EXCEPT ![n] = NoPod]
  /\ UNCHANGED <<engineVars, session, told, last, pass, faults>>

\* A running pod that knows where the runner is dials for its own scope, or
\* for every scope of its environment with a token on the shared volume.
Dial(s) ==
  LET pod == pods[PodOf(s)]
  IN /\ s \in wanted \ released /\ s \notin session
     /\ pod.phase = "Running" /\ pod.dials /\ pod.pinned \in {NoScope, s}
     /\ session' = session \cup {s}
     /\ UNCHANGED <<engineVars, pods, told, last, pass, faults>>

-----------------------------------------------------------------------------
Init ==
  /\ wanted = {} /\ released = {} /\ graphs = FALSE /\ routable = FALSE
  /\ pods = [n \in PodName |-> NoPod]
  /\ session = {} /\ pass = IdlePass /\ faults = 0
  /\ told = [s \in Scope |-> "none"] /\ last = [s \in Scope |-> "none"]

Reconcile == \/ StartPass \/ ResolveRunner \/ ListPods \/ EmitPodState \/ EmitDone
             \/ DeletePod \/ DeleteDone \/ CreatePod \/ CreateDone

Cluster == RunnerGetsAddress \/ \E n \in PodName : StartPod(n) \/ PodIsGone(n)

Next == \/ Reconcile \/ Cluster \/ PublishGraphs
        \/ \E s \in Scope : Want(s) \/ ReleaseScope(s) \/ Dial(s)

Spec == Init /\ [][Next]_vars

\* The run is polled, the cluster starts and removes pods, adapters dial.
FairSpec ==
  /\ Spec /\ WF_vars(Reconcile) /\ WF_vars(RunnerGetsAddress)
  /\ \A n \in PodName : WF_vars(StartPod(n)) /\ WF_vars(PodIsGone(n))
  /\ \A s \in Scope : WF_vars(Dial(s))

-----------------------------------------------------------------------------
(* Every variable keeps its type, and a session has an adapter pod.         *)
TypeOK ==
  /\ released \subseteq wanted /\ wanted \subseteq Scope
  /\ pods \in [PodName -> [phase : PodPhase, pinned : Scope \cup {NoScope}, dials : BOOLEAN]]
  /\ session \subseteq wanted \ released
  /\ told \in [Scope -> PodPhase] /\ last \in [Scope -> PodPhase]
  /\ \A s \in session : pods[PodOf(s)].phase = "Running"

(* KB-253: no pass ends the session of a scope it observed active, whatever *)
(* the other scopes of the environment and the graphs did since the pod was *)
(* built.                                                                   *)
ObservedSessionSurvives ==
  [][\A s \in session \ session' : s \in released' \/ s \notin pass.active]_vars

(* CRI-237: every pod the controller creates knows how to reach the runner: *)
(* none is built before the address is there, released scopes or not.       *)
PodsCanDial == \A n \in PodName : pods[n].phase # "none" => pods[n].dials

(* When the engine's events stop, the pods are those the active scopes want.*)
PodsConverge ==
  <>[]({n \in PodName : pods[n].phase # "none"} = Desired(wanted \ released))

(* KB-225: castle learns the state a scope's pod has settled in, across a   *)
(* failed submission.                                                       *)
PodStateIsReported ==
  <>[](\A s \in wanted \ released : Live(PodOf(s)) => told[s] = pods[PodOf(s)].phase)

(* KB-214: one peer pod serves every scope of its environment: a wanted     *)
(* scope gets its session, or is released.                                  *)
ScopeIsServed == \A s \in Scope : s \in wanted ~> s \in session \cup released

(* The types, and no pod without an address to dial.                        *)
Inv == TypeOK /\ PodsCanDial

(* What the environments come to when faults are over.                      *)
EnvironmentsSettle == PodsConverge /\ PodStateIsReported /\ ScopeIsServed
=============================================================================
