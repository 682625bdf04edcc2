CONSTANTS
  Declared = {"sp"}
  Registered = {"sm"}
  Computed = {}
  Settable = {"sp"}
  Value = {"low", "high", "nan"}
  Zero = "low"
  Fault = "fault"
  Reads <- MCReads
  Derived = {}
  Hardware = {"pt"}
  Eval <- MCEval
  Configs <- MCConfigs
  Setters = {"engine", "seq"}
  DataCap = 1
  Conns = {1, 2}
  Checked = {"pt"}
  Status <- MCStatus
  NonFinite = {"nan"}
  RawCap = 1
  WireCap = 2
  Links = {"daq"}
  NodeOf <- MCNodeOf
  RestartCmds = {}
  CmdCap = 1
  LinkCap = 2
  Node = "daq"
  MaxLinks = 3
  EngineLoop = "engine"
  Sequence = "seq"
  StateChannel = "sm"
  Consoles = {"c1", "c2"}
  Contents = {"", "a", "b"}
  Empty = ""
  Scenarios <- MCScenarios
SPECIFICATION FairSessions
INVARIANTS NothingUnsent BadViewAgrees LayoutsAgree CmdsInOrder SubscribersSettle
CHECK_DEADLOCK FALSE
PROPERTIES StateShown SubscriptionsEnd
