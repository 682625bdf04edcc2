CONSTANTS
  Checks <- Rules
  Clearing = {"rule"}
  Bounded = {}
  Sweep <- OneNode
  Template = {"disconnect", "bad_data", "stale"}
  Faults = {"high"}
  MaxLen = 1
  MaxNotices = 1
SPECIFICATION Spec
INVARIANTS AlertsTypeOK RowsTell
PROPERTIES UnackedStays TrimKeepsBound LatchedByPerson
CONSTRAINTS AtMostTwoBusy FewMessages FewRows
