CONSTANTS
  Checks <- None
  Clearing = {}
  Bounded = {"pt"}
  Sweep <- None
  Template = {"bad_data"}
  Faults = {"high"}
  MaxLen = 2
  MaxNotices = 0
  RawCap = 1
  WireCap = 1
  ClicksLost = TRUE
  MaxJoins = 2
CONSTRAINTS AtMostOneBusy NoTick
SPECIFICATION FairBoard
PROPERTY BoardCatchesUp
