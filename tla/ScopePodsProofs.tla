---------------------------- MODULE ScopePodsProofs ----------------------------
(***************************************************************************)
(* Proofs about ScopePods, for every set of scopes, environments, graphs   *)
(* and faults: no pod is built that cannot reach the runner, and no pass   *)
(* ends a session of a scope it observed active.                           *)
(***************************************************************************)
EXTENDS ScopePods, TLAPS

\* What a pass knows at each of its steps.  What it has left to do at a step is
\* a set of scopes with an observed pod, of pods nobody wants, or of pods that
\* the scopes it observed want.
PassType ==
  /\ pass.active \subseteq Scope
  /\ pass.graph \in BOOLEAN /\ pass.ip \in BOOLEAN
  /\ DOMAIN pass.existing \subseteq PodName
  /\ pass.existing = [n \in DOMAIN pass.existing |-> pass.existing[n]]
  /\ \A n \in DOMAIN pass.existing : pass.existing[n] \in PodPhase
Todo ==
  /\ pass.step = "emit" =>
       pass.todo \subseteq {s \in Scope : PodOf(s) \in DOMAIN pass.existing}
  /\ pass.step = "delete" => pass.todo \subseteq PodName \ Desired(pass.active)
  /\ pass.step = "create" => pass.todo \subseteq Desired(pass.active)

\* Behind ResolveRunner the address is known if any active scope needs it.
AddressKnown ==
  pass.step \in {"list", "emit", "delete", "create"} /\ NeedsRunnerIP(pass.active) => pass.ip

IsPass(p) == p = [step |-> p.step, active |-> p.active, graph |-> p.graph, ip |-> p.ip,
                  existing |-> p.existing, todo |-> p.todo]

IInv ==
  /\ TypeOK /\ PodsCanDial /\ graphs \in BOOLEAN /\ routable \in BOOLEAN
  /\ IsPass(pass) /\ PassType /\ Todo /\ AddressKnown

-----------------------------------------------------------------------------
\* A scope's pod is one of the run's pods: its own, or the peer of its environment.
LEMMA PodOfIsPod == \A s \in Scope : PodOf(s) \in PodName
BY PodsAssumption DEF PodOf, PodName, Own, Peer

\* What a pass builds for an active scope can dial: a pod that needs the
\* runner's address is built when the pass has it.
LEMMA BuiltPodsDial ==
  ASSUME NEW active \in SUBSET Scope, NEW known \in BOOLEAN, NEW ip \in BOOLEAN,
         NEW n \in Desired(active), NeedsRunnerIP(active) => ip
  PROVE  \E scope \in Scope \cup {NoScope} :
           Build(n, active, known, ip) = [phase |-> "Pending", pinned |-> scope, dials |-> TRUE]
<1>1. PICK t \in active : n = PodOf(t)
  BY DEF Desired
<1>2. CASE EnvOf[t] = NoEnv
  <2>1. n = Own(t) /\ n \in {Own(s) : s \in Scope}
    BY <1>1, <1>2 DEF PodOf
  <2>2. (CHOOSE s \in Scope : n = Own(s)) = t
    BY <2>1 DEF Own
  <2>3. Build(n, active, known, ip) = BuildAdapterPod(t, ip)
    BY <2>1, <2>2 DEF Build
  <2>4. (ip \/ t \notin Wire) = TRUE
    BY DEF NeedsRunnerIP
  <2>5. BuildAdapterPod(t, ip) = [phase |-> "Pending", pinned |-> t, dials |-> TRUE]
    BY <2>4, Zenon DEF BuildAdapterPod
  <2> QED BY <2>3, <2>5
<1>3. CASE EnvOf[t] # NoEnv
  <2>1. EnvOf[t] \in Env /\ n = Peer(EnvOf[t])
    BY <1>1, <1>3, PodsAssumption DEF PodOf
  <2>2. n \notin {Own(s) : s \in Scope}
    BY <2>1 DEF Own, Peer
  <2>3. (CHOOSE e \in Env : n = Peer(e)) = EnvOf[t]
    BY <2>1 DEF Peer
  <2>4. Build(n, active, known, ip) = BuildPeerPod(active, EnvOf[t], known, ip)
    BY <2>2, <2>3 DEF Build
  <2>5. ip = TRUE
    BY <1>3 DEF NeedsRunnerIP
  <2>6. t \in MembersOf(active, EnvOf[t]) /\ MembersOf(active, EnvOf[t]) \subseteq Scope
    BY DEF MembersOf
  <2>7. (CHOOSE s \in MembersOf(active, EnvOf[t]) : TRUE) \in Scope
    BY <2>6
  <2>8. PinnedScope(active, EnvOf[t], known, ip) \in Scope \cup {NoScope}
    BY <2>7 DEF PinnedScope
  <2>9. BuildPeerPod(active, EnvOf[t], known, ip)
          = [phase |-> "Pending", pinned |-> PinnedScope(active, EnvOf[t], known, ip), dials |-> TRUE]
    BY <2>5, Zenon DEF BuildPeerPod
  <2> QED BY <2>4, <2>8, <2>9
<1> QED BY <1>2, <1>3

-----------------------------------------------------------------------------
LEMMA InitIsGood == Init => IInv
<1> SUFFICES ASSUME Init PROVE IInv
  OBVIOUS
<1>1. TypeOK
  BY DEF Init, TypeOK, PodPhase, NoPod
<1>2. PodsCanDial
  BY DEF Init, PodsCanDial, NoPod
<1>3. IsPass(pass) /\ PassType /\ Todo /\ AddressKnown
  BY DEF Init, IdlePass, IsPass, PassType, Todo, AddressKnown
<1> QED BY <1>1, <1>2, <1>3 DEF IInv, Init

\* The pass gives up, defers or is over.
LEMMA IdlePassIsGood ==
  ASSUME pass' = IdlePass
  PROVE  IsPass(pass)' /\ PassType' /\ Todo' /\ AddressKnown'
BY DEF IdlePass, IsPass, PassType, Todo, AddressKnown

\* The steps of a pass that only read.
LEMMA ReadsKeepGood ==
  ASSUME IInv, StartPass \/ ResolveRunner \/ ListPods \/ EmitDone \/ DeleteDone \/ CreateDone
  PROVE  IInv'
<1>1. UNCHANGED <<wanted, released, graphs, routable, pods, session, told, last>>
  BY DEF StartPass, ResolveRunner, ListPods, EmitDone, DeleteDone, CreateDone, engineVars
<1>2. TypeOK' /\ PodsCanDial' /\ graphs' \in BOOLEAN /\ routable' \in BOOLEAN
  BY <1>1 DEF IInv, TypeOK, PodsCanDial
<1>3. CASE pass' = IdlePass
  BY <1>2, <1>3, IdlePassIsGood DEF IInv
<1>4. CASE StartPass
  <2>1. PICK known \in BOOLEAN :
          pass' = [step |-> "runner", active |-> wanted \ released, graph |-> known, ip |-> FALSE,
                   existing |-> [n \in {} |-> "none"], todo |-> {}]
    BY <1>4 DEF StartPass, IdlePass, ActiveProvisions, IInv
  <2>2. IsPass(pass)' /\ PassType' /\ Todo' /\ AddressKnown'
    BY <2>1 DEF IsPass, PassType, Todo, AddressKnown, IInv, TypeOK
  <2> QED BY <1>2, <2>2 DEF IInv
<1>5. CASE ResolveRunner /\ pass' # IdlePass
  <2> DEFINE ip == NeedsRunnerIP(pass.active) /\ routable
  <2>1. /\ pass' = [step |-> "list", active |-> pass.active, graph |-> pass.graph, ip |-> ip,
                    existing |-> pass.existing, todo |-> pass.todo]
        /\ ~(NeedsRunnerIP(pass.active) /\ ~routable)
    BY <1>5 DEF ResolveRunner, IInv, IsPass
  <2>2. IsPass(pass)' /\ PassType' /\ Todo'
    BY <2>1 DEF IsPass, PassType, Todo, IInv
  <2>3. AddressKnown'
    BY <2>1 DEF AddressKnown, NeedsRunnerIP
  <2> QED BY <1>2, <2>2, <2>3 DEF IInv
<1>6. CASE ListPods /\ pass' # IdlePass
  <2> DEFINE there == {m \in PodName : pods[m].phase # "none"}
             seen == {s \in pass.active : pods[PodOf(s)].phase \in {"Pending", "Running"}}
  <2>1. /\ pass' = [step |-> "emit", active |-> pass.active, graph |-> pass.graph, ip |-> pass.ip,
                    existing |-> [n \in there |-> pods[n].phase], todo |-> seen]
        /\ pass.step = "list"
    BY <1>6 DEF ListPods, IInv, IsPass
  <2>2. IsPass(pass)' /\ PassType'
    BY <2>1 DEF IsPass, PassType, IInv, TypeOK
  <2>3. seen \subseteq {s \in Scope : PodOf(s) \in there}
    BY PodOfIsPod DEF IInv, PassType
  <2>4. Todo'
    BY <2>1, <2>3 DEF Todo
  <2>5. AddressKnown'
    BY <2>1 DEF AddressKnown, NeedsRunnerIP, IInv
  <2> QED BY <1>2, <2>2, <2>4, <2>5 DEF IInv
<1>7. CASE EmitDone
  <2>1. /\ pass' = [step |-> "delete", active |-> pass.active, graph |-> pass.graph, ip |-> pass.ip,
                    existing |-> pass.existing, todo |-> {n \in DOMAIN pass.existing : Undesired(n)}]
        /\ pass.step = "emit"
    BY <1>7 DEF EmitDone, IInv, IsPass
  <2>2. IsPass(pass)' /\ PassType' /\ Todo' /\ AddressKnown'
    BY <2>1 DEF IsPass, PassType, Todo, AddressKnown, NeedsRunnerIP, Undesired, Desired, IInv
  <2> QED BY <1>2, <2>2 DEF IInv
<1>8. CASE DeleteDone
  <2>1. /\ pass' = [step |-> "create", active |-> pass.active, graph |-> pass.graph, ip |-> pass.ip,
                    existing |-> pass.existing, todo |-> Desired(pass.active) \ DOMAIN pass.existing]
        /\ pass.step = "delete"
    BY <1>8 DEF DeleteDone, IInv, IsPass
  <2>2. IsPass(pass)' /\ PassType' /\ Todo' /\ AddressKnown'
    BY <2>1 DEF IsPass, PassType, Todo, AddressKnown, NeedsRunnerIP, Desired, IInv
  <2> QED BY <1>2, <2>2 DEF IInv
<1> QED BY <1>3, <1>4, <1>5, <1>6, <1>7, <1>8 DEF CreateDone

\* A pass that has done with one of its tasks goes on with fewer.
LEMMA OneLessIsGood ==
  ASSUME IInv, NEW x, pass' = [pass EXCEPT !.todo = @ \ {x}]
  PROVE  IsPass(pass)' /\ PassType' /\ Todo' /\ AddressKnown'
<1>1. pass' = [step |-> pass.step, active |-> pass.active, graph |-> pass.graph, ip |-> pass.ip,
               existing |-> pass.existing, todo |-> pass.todo \ {x}]
  BY DEF IInv, IsPass
<1> QED BY <1>1 DEF IInv, IsPass, PassType, Todo, AddressKnown, NeedsRunnerIP, Desired

\* What castle is told is a phase the pass observed.
LEMMA EmitKeepsGood ==
  ASSUME IInv, EmitPodState
  PROVE  IInv'
<1> DEFINE s == CHOOSE t \in pass.todo : TRUE
<1>1. /\ s \in pass.todo /\ pass.step = "emit"
      /\ pass' = [pass EXCEPT !.todo = @ \ {s}]
      /\ UNCHANGED <<wanted, released, graphs, routable, pods, session>>
      /\ \/ UNCHANGED <<told, last>>
         \/ told' = [told EXCEPT ![s] = Phase(s)] /\ last' = [last EXCEPT ![s] = Phase(s)]
  BY DEF EmitPodState, Submit, engineVars
<1>2. Phase(s) \in PodPhase
  BY <1>1 DEF IInv, Todo, PassType, Phase
<1>3. TypeOK' /\ PodsCanDial' /\ graphs' \in BOOLEAN /\ routable' \in BOOLEAN
  BY <1>1, <1>2, ZenonT(60) DEF IInv, TypeOK, PodsCanDial
<1> HIDE DEF s
<1> QED BY <1>1, <1>3, OneLessIsGood DEF IInv

\* A pod that is deleted takes the sessions it hosts with it.
LEMMA DeleteKeepsGood ==
  ASSUME IInv, DeletePod
  PROVE  IInv'
<1>1. PICK n \in pass.todo :
        \/ /\ pods' = [pods EXCEPT ![n].phase = IF @ = "none" THEN @ ELSE "terminating"]
           /\ session' = session \ Hosted(n)
           /\ pass' = [pass EXCEPT !.todo = @ \ {n}]
        \/ pass' = IdlePass /\ UNCHANGED <<pods, session>>
  BY DEF DeletePod
<1>2. UNCHANGED <<wanted, released, graphs, routable, told, last>> /\ pass.step = "delete"
  BY DEF DeletePod, engineVars
<1>3. CASE pass' = IdlePass /\ UNCHANGED <<pods, session>>
  <2>1. TypeOK' /\ PodsCanDial'
    BY <1>2, <1>3 DEF IInv, TypeOK, PodsCanDial
  <2> QED BY <1>2, <1>3, <2>1, IdlePassIsGood DEF IInv
<1>4. CASE /\ pods' = [pods EXCEPT ![n].phase = IF @ = "none" THEN @ ELSE "terminating"]
           /\ session' = session \ Hosted(n)
           /\ pass' = [pass EXCEPT !.todo = @ \ {n}]
  <2>1. /\ pods' \in [PodName -> [phase : PodPhase, pinned : Scope \cup {NoScope}, dials : BOOLEAN]]
        /\ \A m \in PodName \ {n} : pods'[m] = pods[m]
        /\ n \in PodName => /\ pods'[n].dials = pods[n].dials
                            /\ pods[n].phase = "none" => pods'[n].phase = "none"
    BY <1>4, ZenonT(60) DEF IInv, TypeOK, PodPhase
  <2>2. \A t \in session' : PodOf(t) # n /\ t \in session /\ t \in Scope
    BY <1>4 DEF Hosted, IInv, TypeOK
  <2>3. TypeOK'
    BY <1>2, <2>1, <2>2, PodOfIsPod DEF IInv, TypeOK
  <2>4. PodsCanDial'
    BY <2>1 DEF IInv, PodsCanDial
  <2> QED BY <1>2, <1>4, <2>3, <2>4, OneLessIsGood DEF IInv
<1> QED BY <1>1, <1>3, <1>4

\* A pod that is created can dial, and a name in use is left alone.
LEMMA CreateKeepsGood ==
  ASSUME IInv, CreatePod
  PROVE  IInv'
<1>1. PICK n \in pass.todo :
        \/ /\ pods' = IF pods[n].phase # "none" THEN pods
                      ELSE [pods EXCEPT ![n] = Build(n, pass.active, pass.graph, pass.ip)]
           /\ pass' = [pass EXCEPT !.todo = @ \ {n}]
        \/ pass' = IdlePass /\ UNCHANGED pods
  BY DEF CreatePod
<1>2. UNCHANGED <<wanted, released, graphs, routable, session, told, last>> /\ pass.step = "create"
  BY DEF CreatePod, engineVars
<1>3. n \in Desired(pass.active) /\ pass.active \in SUBSET Scope
  BY <1>2 DEF IInv, Todo, PassType
<1>4. PICK scope \in Scope \cup {NoScope} :
        Build(n, pass.active, pass.graph, pass.ip) = [phase |-> "Pending", pinned |-> scope, dials |-> TRUE]
  BY <1>2, <1>3, BuiltPodsDial, ZenonT(60) DEF IInv, PassType, AddressKnown
<1>5. \/ UNCHANGED pods
      \/ /\ pods[n].phase = "none"
         /\ pods' = [pods EXCEPT ![n] = [phase |-> "Pending", pinned |-> scope, dials |-> TRUE]]
  BY <1>1, <1>4
<1>6. TypeOK'
  <2>1. n \in PodName
    BY <1>3, PodOfIsPod DEF Desired
  <2>2. pods' \in [PodName -> [phase : PodPhase, pinned : Scope \cup {NoScope}, dials : BOOLEAN]]
    <3>1. [phase |-> "Pending", pinned |-> scope, dials |-> TRUE]
            \in [phase : PodPhase, pinned : Scope \cup {NoScope}, dials : BOOLEAN]
      BY <1>4 DEF PodPhase
    <3> QED BY <1>5, <2>1, <3>1 DEF IInv, TypeOK
  <2>3. \A t \in session : pods'[PodOf(t)] = pods[PodOf(t)]
    BY <1>5, <2>1, PodOfIsPod DEF IInv, TypeOK
  <2> QED BY <1>2, <2>2, <2>3 DEF IInv, TypeOK
<1>7. PodsCanDial'
  BY <1>5 DEF IInv, TypeOK, PodsCanDial
<1> QED BY <1>1, <1>2, <1>6, <1>7, OneLessIsGood, IdlePassIsGood DEF IInv

\* The engine, the kubelet and the adapters do not touch the pass, and change no
\* pod that hosts a session.
LEMMA WorldKeepsGood ==
  ASSUME IInv,
         \/ Cluster \/ PublishGraphs \/ UNCHANGED vars
         \/ \E s \in Scope : Want(s) \/ ReleaseScope(s) \/ Dial(s)
  PROVE  IInv'
<1>1. UNCHANGED pass
  BY DEF Cluster, RunnerGetsAddress, StartPod, PodIsGone, PublishGraphs, Want, ReleaseScope, Dial, vars
<1>2. IsPass(pass)' /\ PassType' /\ Todo' /\ AddressKnown'
  BY <1>1 DEF IInv, IsPass, PassType, Todo, AddressKnown, NeedsRunnerIP, Desired
<1>3. graphs' \in BOOLEAN /\ routable' \in BOOLEAN
  BY DEF IInv, Cluster, RunnerGetsAddress, StartPod, PodIsGone, PublishGraphs, Want, ReleaseScope, Dial,
         vars, engineVars
<1>4. CASE \E s \in Scope : Want(s) \/ ReleaseScope(s)
  <2>1. TypeOK' /\ PodsCanDial'
    BY <1>4 DEF IInv, TypeOK, PodsCanDial, Want, ReleaseScope
  <2> QED BY <1>2, <1>3, <2>1 DEF IInv
<1>5. CASE PublishGraphs \/ RunnerGetsAddress \/ UNCHANGED vars
  <2>1. TypeOK' /\ PodsCanDial'
    BY <1>5 DEF IInv, TypeOK, PodsCanDial, PublishGraphs, RunnerGetsAddress, vars, engineVars
  <2> QED BY <1>2, <1>3, <2>1 DEF IInv
<1>6. ASSUME NEW s \in Scope, Dial(s)
      PROVE  IInv'
  <2>1. TypeOK' /\ PodsCanDial'
    BY <1>6 DEF IInv, TypeOK, PodsCanDial, Dial, engineVars
  <2> QED BY <1>2, <1>3, <2>1 DEF IInv
<1>7. ASSUME NEW n \in PodName, StartPod(n)
      PROVE  IInv'
  <2>1. /\ pods' = [pods EXCEPT ![n].phase = "Running"]
        /\ pods[n].phase = "Pending"
        /\ UNCHANGED <<wanted, released, session, told, last>>
    BY <1>7 DEF StartPod, engineVars
  <2>2. TypeOK'
    BY <2>1, PodOfIsPod DEF IInv, TypeOK, PodPhase
  <2>3. PodsCanDial'
    BY <2>1 DEF IInv, TypeOK, PodsCanDial
  <2> QED BY <1>2, <1>3, <2>2, <2>3 DEF IInv
<1>8. ASSUME NEW n \in PodName, PodIsGone(n)
      PROVE  IInv'
  <2>1. /\ pods' = [pods EXCEPT ![n] = NoPod]
        /\ pods[n].phase = "terminating"
        /\ UNCHANGED <<wanted, released, session, told, last>>
    BY <1>8 DEF PodIsGone, engineVars
  <2>2. NoPod \in [phase : PodPhase, pinned : Scope \cup {NoScope}, dials : BOOLEAN]
    BY DEF NoPod, PodPhase
  <2>3. TypeOK'
    BY <2>1, <2>2, PodOfIsPod DEF IInv, TypeOK
  <2>4. PodsCanDial'
    BY <2>1 DEF IInv, TypeOK, PodsCanDial, NoPod
  <2> QED BY <1>2, <1>3, <2>3, <2>4 DEF IInv
<1> QED BY <1>4, <1>5, <1>6, <1>7, <1>8 DEF Cluster

LEMMA NextKeepsGood ==
  ASSUME IInv, [Next]_vars
  PROVE  IInv'
<1>1. CASE StartPass \/ ResolveRunner \/ ListPods \/ EmitDone \/ DeleteDone \/ CreateDone
  BY <1>1, ReadsKeepGood
<1>2. CASE EmitPodState
  BY <1>2, EmitKeepsGood
<1>3. CASE DeletePod
  BY <1>3, DeleteKeepsGood
<1>4. CASE CreatePod
  BY <1>4, CreateKeepsGood
<1>5. CASE \/ Cluster \/ PublishGraphs \/ UNCHANGED vars
           \/ \E s \in Scope : Want(s) \/ ReleaseScope(s) \/ Dial(s)
  BY <1>5, WorldKeepsGood
<1> QED BY <1>1, <1>2, <1>3, <1>4, <1>5 DEF Next, Reconcile

\* In every reachable state no pod exists that cannot reach the runner
\* (reconcilePerScopeAdapters defers until resolveRunnerIP has the address),
\* and a session has a running pod: for every set of scopes and environments.
THEOREM PodsAreDialable == Spec => []Inv
<1>1. Init => IInv
  BY InitIsGood
<1>2. IInv /\ [Next]_vars => IInv'
  BY NextKeepsGood
<1>3. IInv => Inv
  BY DEF IInv, Inv
<1> QED BY <1>1, <1>2, <1>3, PTL DEF Spec

\* A session ends because its scope is released or because its pod is deleted,
\* and a pass deletes no pod that a scope it observed active wants (KB-253: the
\* drift recreate of reconcilePerScopeAdapters is gone).
THEOREM SessionsSurvive == Spec => ObservedSessionSurvives
<1> DEFINE Survive == \A s \in session \ session' : s \in released' \/ s \notin pass.active
<1>1. Init => IInv
  BY InitIsGood
<1>2. IInv /\ [Next]_vars => IInv'
  BY NextKeepsGood
<1>3. IInv /\ [Next]_vars => [Survive]_vars
  <2> SUFFICES ASSUME IInv, Next, NEW s \in session, s \notin session'
               PROVE  s \in released' \/ s \notin pass.active
    OBVIOUS
  <2>1. CASE DeletePod
    <3>1. PICK n \in pass.todo : session' = session \/ session' = session \ Hosted(n)
      BY <2>1 DEF DeletePod
    <3>2. n \notin Desired(pass.active) /\ n = PodOf(s)
      BY <2>1, <3>1 DEF DeletePod, IInv, Todo, Hosted
    <3> QED BY <3>2 DEF Desired
  <2>2. CASE \E t \in Scope : ReleaseScope(t)
    BY <2>2 DEF ReleaseScope
  <2>3. CASE StartPass \/ ResolveRunner \/ ListPods \/ EmitDone \/ DeleteDone \/ CreateDone
             \/ EmitPodState \/ CreatePod
    BY <2>3 DEF StartPass, ResolveRunner, ListPods, EmitDone, DeleteDone, CreateDone, EmitPodState, CreatePod
  <2>4. CASE Cluster \/ PublishGraphs \/ \E t \in Scope : Want(t) \/ Dial(t)
    BY <2>4 DEF Cluster, RunnerGetsAddress, StartPod, PodIsGone, PublishGraphs, Want, Dial
  <2> QED BY <2>1, <2>2, <2>3, <2>4 DEF Next, Reconcile
<1> QED BY <1>1, <1>2, <1>3, PTL DEF Spec, ObservedSessionSurvives
=============================================================================
