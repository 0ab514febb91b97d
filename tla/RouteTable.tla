------------------------------ MODULE RouteTable ------------------------------
(***************************************************************************)
(* The routes payload of internal/routes and how the Kanboard watcher asks *)
(* it.  Editors change the payload one step at a time: rules come and go,  *)
(* projects are migrated from the routes array to dispatch records of      *)
(* their own and cut over to their bindings, config entries are declared.  *)
(* The watcher loads the payload again at every poll; one that does not    *)
(* validate serves nobody.                                                 *)
(***************************************************************************)
EXTENDS Naturals, FiniteSets, Functions

CONSTANTS
  Project, State, Tag,
  Rules,        \* the rules editors write
  Workflows,    \* names of the workflow library
  Stale,        \* those that still carry a configuration of their own
  Configs,      \* the config entries editors declare, by name: tags, match
  RoutingTags,  \* tags the watcher never reads as an override
  MaxRules      \* bound on the places of a list of rules

NoConfig == ""
Rule == [project : Project, states : SUBSET State, tags : SUBSET Tag,
         match : {"all", "any"}, workflow : Tag \cup Workflows, config : DOMAIN Configs \cup {NoConfig}]
ASSUME RoutesAssumption ==
  /\ Rules \subseteq Rule /\ Stale \subseteq Workflows /\ RoutingTags \subseteq Tag /\ MaxRules \in Nat
  /\ IsFiniteSet(Tag) /\ IsFiniteSet(DOMAIN Configs) /\ NoConfig \notin DOMAIN Configs
  /\ \A c \in DOMAIN Configs : Configs[c].tags \subseteq Tag /\ Configs[c].match \in {"all", "any"}

VARIABLES
  payload,   \* the ConfigMap's content
  edit       \* whether the last edit was a step of a migration

routeVars == <<payload, edit>>

\* A list of rules is a function from the places that hold one: what is read
\* of it is the order of its rules, and an editor may insert at any place.
Place == 1 .. MaxRules
Nothing == [x \in {} |-> x]
With(f, x, v) == [y \in DOMAIN f \cup {x} |-> IF y = x THEN v ELSE f[y]]

-----------------------------------------------------------------------------
(* The rules of a project: its record's alone if it has one, else those of *)
(* the array (the dual-read).                                              *)
HasRecord(P, p) == p \in DOMAIN P.dispatch
ArrayRules(P, p) == Restrict(P.routes, {i \in DOMAIN P.routes : P.routes[i].project = p})
MergedRules(P, p) ==                              \* mutant: the surfaces merge
  LET array == ArrayRules(P, p)
  IN IF HasRecord(P, p)
     THEN [i \in DOMAIN array \cup DOMAIN P.dispatch[p] |->
             IF i \in DOMAIN array THEN array[i] ELSE P.dispatch[p][i]]
     ELSE array
RulesOf(P, p) == IF HasRecord(P, p) THEN P.dispatch[p] ELSE ArrayRules(P, p)

Satisfied(tags, match, labels) ==
  IF match = "any" THEN tags \cap labels # {} ELSE tags \subseteq labels

\* The first rule for the state whose tags are satisfied, else the first
\* without tags; 0 when no rule matches.
FirstOf(places) ==
  IF places = {} THEN 0 ELSE CHOOSE i \in places : \A j \in places : i <= j
Specific(rules, state, labels) ==
  {i \in DOMAIN rules : /\ state \in rules[i].states /\ rules[i].tags # {}
                        /\ Satisfied(rules[i].tags, rules[i].match, labels)}
General(rules, state) == {i \in DOMAIN rules : state \in rules[i].states /\ rules[i].tags = {}}
MatchRoute(rules, state, labels) ==
  IF Specific(rules, state, labels) # {} THEN FirstOf(Specific(rules, state, labels))
  ELSE FirstOf(General(rules, state))

\* One label of the configs group: the entry it names, else the only entry
\* whose tags it satisfies.
EntrySatisfied(P, c, label) ==
  IF P.configs[c].match = "any" THEN label \in P.configs[c].tags ELSE P.configs[c].tags = {label}
ConfigsOf(P, label) ==
  IF label \in DOMAIN P.configs THEN {label}
  ELSE {c \in DOMAIN P.configs : EntrySatisfied(P, c, label)}

\* How the watcher sorts the tags of a card into groups before it asks.
DeclaredTag(P, tag) ==                                     \* mutant: membership is looser than lookup
  tag \in DOMAIN P.configs \/ \E c \in DOMAIN P.configs : tag \in P.configs[c].tags
ConfigsTagGroupMember(P, tag) == ConfigsOf(P, tag) # {}
ConfigLabels(P, tags) == {t \in tags \ RoutingTags : ConfigsTagGroupMember(P, t)}
WorkflowLabels(P, tags) == {t \in tags \ RoutingTags : ~ConfigsTagGroupMember(P, t)}

-----------------------------------------------------------------------------
(* Validate: what the payload must satisfy to serve anybody. *)
RuleValid(P, r) ==
  /\ r.workflow \in Workflows /\ r.states # {}
  /\ r.config = NoConfig \/ r.config \in DOMAIN P.configs
Registered(P, p) == DOMAIN P.registry = {} \/ p \in DOMAIN P.registry
PostCutover(P) == DOMAIN P.registry # {} /\ \A p \in DOMAIN P.registry : P.registry[p] = "done"
Valid(P) ==
  /\ P.routes # Nothing
  /\ \A i \in DOMAIN P.routes : RuleValid(P, P.routes[i]) /\ Registered(P, P.routes[i].project)
  /\ \A p \in DOMAIN P.dispatch :
       /\ P.dispatch[p] # Nothing /\ Registered(P, p)
       /\ \A i \in DOMAIN P.dispatch[p] :
            RuleValid(P, P.dispatch[p][i]) /\ P.dispatch[p][i].project = p
  /\ P.stale = {} \/ ~PostCutover(P)

-----------------------------------------------------------------------------
(* Resolve, for a card of the watcher's board. *)
Refused(why) == [fires |-> FALSE, why |-> why]

\* A configRef of the route outranks the card's labels, which are not read then.
ChosenConfigs(P, rule, tags) ==
  IF rule.config # NoConfig THEN {rule.config}
  ELSE UNION {ConfigsOf(P, t) : t \in ConfigLabels(P, tags)}

Resolve(P, p, state, tags) ==
  LET at        == MatchRoute(RulesOf(P, p), state, tags)
      rule      == RulesOf(P, p)[at]
      overrides == WorkflowLabels(P, tags)
      workflow  == IF overrides = {} THEN rule.workflow ELSE CHOOSE t \in overrides : TRUE
      labels    == ConfigLabels(P, tags)
      configs   == ChosenConfigs(P, rule, tags)
  IN CASE at = 0                              -> Refused("no route")
       [] at # 0 /\ Cardinality(overrides) > 1 -> Refused("ambiguous workflow")
       [] at # 0 /\ Cardinality(overrides) < 2 /\ workflow \notin Workflows -> Refused("unknown workflow")
       [] OTHER ->
            IF rule.config = NoConfig /\ labels # {} /\ (Cardinality(labels) > 1 \/ Cardinality(configs) > 1)
            THEN Refused("ambiguous config")
            ELSE IF rule.config = NoConfig /\ labels # {} /\ configs = {} THEN Refused("unknown config")
            ELSE [fires |-> TRUE, workflow |-> workflow, cutover |-> p \in DOMAIN P.registry /\ P.registry[p] = "done",
                  config |-> IF configs = {} THEN NoConfig ELSE CHOOSE c \in configs : TRUE]

\* A poll asks Kanboard for every card of the project, whatever its column.
Poll(P, p, state, tags) ==
  IF ~Valid(P) THEN Refused("invalid payload") ELSE Resolve(P, p, state, tags)

-----------------------------------------------------------------------------
(* The editors. *)
Change(P, kind) == payload' = P /\ edit' = kind

AddRule(i, r) ==
  /\ i \notin DOMAIN payload.routes
  /\ Change([payload EXCEPT !.routes = With(@, i, r)], "other")
DropRule(i) ==
  /\ i \in DOMAIN payload.routes
  /\ Change([payload EXCEPT !.routes = Restrict(@, DOMAIN @ \ {i})], "other")

\* A dispatch record: the rules of the project, verbatim and in their order.
Migrate(p) ==
  /\ ~HasRecord(payload, p) /\ ArrayRules(payload, p) # Nothing
  /\ Change([payload EXCEPT !.dispatch = With(@, p, ArrayRules(payload, p))], "migrate")
\* Then its rules in the array, which nothing reads any more, are deleted.
DropDead(p) ==
  /\ HasRecord(payload, p) /\ ArrayRules(payload, p) # Nothing
  /\ Change([payload EXCEPT !.routes = Restrict(@, DOMAIN @ \ DOMAIN ArrayRules(payload, p))], "migrate")
EditRecord(i, r) ==
  /\ HasRecord(payload, r.project) /\ i \notin DOMAIN payload.dispatch[r.project]
  /\ Change([payload EXCEPT !.dispatch[r.project] = With(@, i, r)], "other")

Register(p) ==
  /\ p \notin DOMAIN payload.registry
  /\ Change([payload EXCEPT !.registry = With(@, p, "open")], "other")
CutOver(p) ==
  /\ p \in DOMAIN payload.registry /\ payload.registry[p] = "open"
  /\ Change([payload EXCEPT !.registry[p] = "done"], "other")
MoveToBinding(w) ==
  /\ w \in payload.stale
  /\ Change([payload EXCEPT !.stale = @ \ {w}], "other")

Declare(c) ==
  /\ c \notin DOMAIN payload.configs
  /\ Change([payload EXCEPT !.configs = With(@, c, Configs[c])], "other")
Withdraw(c) ==
  /\ c \in DOMAIN payload.configs
  /\ Change([payload EXCEPT !.configs = Restrict(@, DOMAIN @ \ {c})], "other")

RouteInit ==
  /\ payload = [routes |-> Nothing, dispatch |-> Nothing, registry |-> Nothing,
                configs |-> Nothing, stale |-> Stale]
  /\ edit = "other"

RouteNext ==
  \/ \E i \in Place, r \in Rules : AddRule(i, r) \/ EditRecord(i, r)
  \/ \E i \in Place : DropRule(i)
  \/ \E p \in Project : Migrate(p) \/ DropDead(p) \/ Register(p) \/ CutOver(p)
  \/ \E w \in Stale : MoveToBinding(w)
  \/ \E c \in DOMAIN Configs : Declare(c) \/ Withdraw(c)

RouteSpec == RouteInit /\ [][RouteNext]_routeVars

-----------------------------------------------------------------------------
Cards == [project : Project, state : State, tags : SUBSET Tag]
Decision(P, c) == Poll(P, c.project, c.state, c.tags)

IsRuleList(f) == DOMAIN f \subseteq Place /\ \A i \in DOMAIN f : f[i] \in Rules
RouteTypeOK ==
  /\ IsRuleList(payload.routes) /\ DOMAIN payload.dispatch \subseteq Project
  /\ \A p \in DOMAIN payload.dispatch :
       /\ IsRuleList(payload.dispatch[p])
       /\ \A i \in DOMAIN payload.dispatch[p] : payload.dispatch[p][i].project = p
  /\ DOMAIN payload.configs \subseteq DOMAIN Configs /\ payload.stale \subseteq Stale
  /\ \A c \in DOMAIN payload.configs : payload.configs[c] = Configs[c]
  /\ \A p \in DOMAIN payload.registry : payload.registry[p] \in {"open", "done"}

\* The migration of a project to a record, and the deletion of the rules it
\* leaves behind, change no decision on any card (the dual-read of KB-338 is
\* "behavior-identical"), as long as the payload stays valid.
MigrationIsInvisible ==
  [][edit' = "migrate" /\ Valid(payload) /\ Valid(payload') =>
       \A c \in Cards : Decision(payload', c) = Decision(payload, c)]_routeVars

\* What fires is in the library, and the watcher's own sorting of tags never
\* makes Resolve look up a config that does not exist (ConfigsTagGroupMember
\* agrees with configNameForLabel).
DecisionsAreServed ==
  \A c \in Cards :
    LET d == Decision(payload, c)
    IN IF d.fires THEN d.workflow \in Workflows /\ d.config \in DOMAIN payload.configs \cup {NoConfig}
       ELSE d.why # "unknown config"

RuleFits(r, labels) == r.tags = {} \/ Satisfied(r.tags, r.match, labels)

\* When several entries or several rules fit a card, it is refused or the more
\* specific rule decides: the entry a card runs under is the only one its
\* labels allow, so no map order shows (configNameForLabel, matchRoute).
NothingIsArbitrary ==
  \A c \in Cards :
    LET d == Decision(payload, c)
        mine == RulesOf(payload, c.project)
        rules == {i \in DOMAIN mine : c.state \in mine[i].states /\ RuleFits(mine[i], c.tags)}
    IN d.fires =>
         /\ \E i \in rules :
              /\ mine[i].tags = {} => \A j \in rules : mine[j].tags = {} /\ i <= j
              /\ WorkflowLabels(payload, c.tags) = {} => d.workflow = mine[i].workflow
              /\ d.config \in {mine[i].config} \cup DOMAIN payload.configs
              /\ mine[i].config # NoConfig => d.config = mine[i].config
              /\ mine[i].config = NoConfig =>
                   \A e \in DOMAIN payload.configs : \A t \in c.tags \ RoutingTags :
                     (e = t \/ (t \notin DOMAIN payload.configs /\ EntrySatisfied(payload, e, t))) => e = d.config

\* The payload keeps its type, and sorting, lookup and choice agree with each
\* other in every reachable payload.
RouteInv == RouteTypeOK /\ DecisionsAreServed /\ NothingIsArbitrary
=============================================================================
