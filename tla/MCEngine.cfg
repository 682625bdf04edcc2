CONSTANTS
  Machines = {"fire", "press"}
  n1 = n1
  none = none
  nowhere = nowhere
  Nodes = {n1}
  NoNode = nowhere
  NoState = none
  Initial <- OrchestraInitial
  Program <- OrchestraProgram
  Order <- OrchestraOrder
  Consoles = {"hmi"}
  Reporters = {"rx"}
  TransitionsCap = 1
  MaxStimuli = 2
  MayStop = FALSE
SPECIFICATION Spec
INVARIANTS TypeOK OneLiveRun FreshRequestsBelong NoLostWakeup RecordCorrelates
PROPERTY FollowsGraph
