CONSTANTS
  Statements = {s1, s2}
  Streams = {x1, x2}
  Options <- MCOptions
  DriverTables <- MCDriverTables
  DriverStatus = {"OK", "INTERNAL"}
  MaxOperations = 2
  MaxExecutions = 2
SPECIFICATION ClientSpec
INVARIANTS
  ParentsOutliveChildren
  NothingLeftBehind
  StreamIsOfLatestQuery
  CommandRunsOnce
  TransactionMeansAutocommit
PROPERTY KeepsContract
