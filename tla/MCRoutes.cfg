SPECIFICATION RouteSpec
CONSTANTS
  Project = {"p", "q"}
  State = {"todo", "doing"}
  Tag = {"urgent", "rel", "v1", "dev"}
  Rules <- MCRules
  Workflows = {"dev", "triage"}
  Stale = {"dev"}
  Configs <- MCConfigs
  RoutingTags = {"urgent"}
  MaxRules = 2
INVARIANTS
  RouteInv
PROPERTIES
  MigrationIsInvisible
