CONSTANTS
  Machines = {"m1", "m2"}
  Nodes = {"daq"}
  NoNode = ""
  NoState = ""
  Initial <- TwoInitial
  Program <- TwoProgram
  Order <- TwoOrder
  Consoles = {"hmi"}
  Reporters = {"link", "read"}
  TransitionsCap = 1
  MaxStimuli = 3
  MayStop = FALSE
  MaxConns = 1
  Node = "daq"
  Linker = "link"
  Reader = "read"
  EngineLoop = "engine"
  OutCap = 1
  EntryLength = 0
  ExitLength = 1
  MaxRequests = 1
CONSTRAINT FewEvents
ACTION_CONSTRAINT NoTicks
SPECIFICATION LinkSpec
INVARIANTS CompletionTruthful RunIdsUnique
