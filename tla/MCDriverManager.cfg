CONSTANTS
  Statements = {s1}
  Streams = {x1, x2}
  Options <- MCOptions
  DriverTables <- MCDriverTables
  DriverStatus = {"OK", "INTERNAL"}
SPECIFICATION Spec
SYMMETRY MCSymmetry
INVARIANTS
  HandlesMatchHeap
  HandlesReachDriver
  ErrorDetailsReachDriver
  ConnectionOptionsAccepted
