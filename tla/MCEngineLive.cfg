CONSTANTS
  Machines = {"fire", "press"}
  n1 = n1
  none = none
  nowhere = nowhere
  Nodes = {n1}
  NoNode = nowhere
  NoState = none
  Initial <- HoldInitial
  Program <- HoldProgram
  Order <- OrchestraOrder
  Consoles = {"hmi"}
  Reporters = {"rx"}
  TransitionsCap = 1
  MaxStimuli = 1
  MayStop = TRUE
  MaxEpoch = 2
SPECIFICATION FairSpec
PROPERTIES CancelledRunsExit TimedPausesEnd PriorityActs
CHECK_DEADLOCK FALSE
