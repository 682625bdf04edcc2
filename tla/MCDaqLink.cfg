CONSTANTS
  Machines = {"m1"}
  Nodes = {"daq"}
  NoNode = ""
  NoState = ""
  Initial <- OneInitial
  Program <- OneProgram
  Order <- OneOrder
  Consoles = {"hmi"}
  Reporters = {"link", "read"}
  TransitionsCap = 1
  MaxStimuli = 3
  MayStop = FALSE
  MaxConns = 2
  Node = "daq"
  Linker = "link"
  Reader = "read"
  EngineLoop = "engine"
  OutCap = 1
  EntryLength = 0
  ExitLength = 0
  MaxRequests = 1
CONSTRAINT FewEventsOnReturn
ACTION_CONSTRAINT NoTicks
SPECIFICATION LinkSpec
INVARIANTS LinkTypeOK NeverForwardsLeftover UncertainIsAborted Accounted InOnePlace
