CONSTANTS
  Scope = {"a", "b", "c"}
  Env = {"e"}
  EnvOf <- MCEnvOf
  DefOf <- OwnDefs
  Wire = {"c"}
  GraphDefs <- WholeGraph
  NoEnv = NoEnv
  NoScope = NoScope
  MaxFaults = 1
SPECIFICATION FairSpec
INVARIANTS
  Inv
PROPERTIES
  ObservedSessionSurvives
  EnvironmentsSettle
CHECK_DEADLOCK FALSE
