CONSTANTS
  Declared = {"sp"}
  Registered = {"st"}
  Computed = {"ratio", "flag"}
  Settable = {"sp"}
  Value = {0, 1}
  Zero = 0
  Fault = 9
  Reads <- MCReads
  Derived = {"flag"}
  Hardware = {"h"}
  Eval <- MCEval
  Configs <- MCConfigs
  Setters = {"engine", "store", "seq"}
  DataCap = 1
  Links = {"_SOFTCHAN", "daq"}
  NodeOf <- MCNodeOf
  RestartCmds = {"rst"}
  CmdCap = 1
  LinkCap = 1
  EngineLoop = "engine"
  StoreLoop = "store"
  Targets = {"st"}
  MaxEvents = 2
SPECIFICATION FairSpace
INVARIANTS SpaceTypeOK WithinBounds RestartRestores ComputedConsistent SnapshotIsCurrent
PROPERTIES Durability ReaderCatchesUp
CONSTANT Scenarios <- MCScenarios
