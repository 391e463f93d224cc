CONSTANT Scenarios <- MCScenarios
SPECIFICATION Spec
INVARIANTS
  ExplicitOptionsWin
  FindsFirst
