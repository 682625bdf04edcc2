\* The start-up on families of small configurations.
CONSTANTS
  Subjects <- AllSubjects
  Hardware <- HardwareNames
  NewValues <- Settings
  MaxChanges = 1
  NoCompute <- NoExpr
  NamesIn <- Names
SPECIFICATION Spec
INVARIANTS
  LoadsInOrder
  CompiledIsRunnable
  ScheduleFaithful
  RoundTrips
CHECK_DEADLOCK FALSE
