----------------------------- MODULE MCChannels -----------------------------
(* A setpoint, a machine's state, a ratio to a hardware reading and a flag *)
(* computed from the ratio, under definitions that may shrink at a start.  *)
EXTENDS ChannelSpace

Ratio(s, hw) == IF "h" \in DOMAIN hw /\ hw["h"] # 0 THEN s["sp"] ELSE Fault
MCEval(c, s, hw) == CASE c = "ratio" -> Ratio(s, hw)
                      [] c = "flag" -> IF s["ratio"] = 0 THEN Fault ELSE 1

MCReads == [c \in Computed |-> IF c = "flag" THEN {"ratio"} ELSE {}]

Definitions(allowed, default) ==
  [allowed |-> [c \in Declared |-> allowed],
   default |-> [c \in Named |-> IF c \in Declared THEN default ELSE 0]]
MCConfigs == {Definitions({0, 1}, 1), Definitions({0}, 0)}

MCNodeOf == [c \in Stored \cup Hardware |-> IF c \in Stored THEN "_SOFTCHAN" ELSE "daq"]

MCScenarios == {{"tick", "set", "reading"}, {"tick", "set", "command", "crash"},
                {"save", "crash", "set"}, {"save", "crash", "command"}}
=============================================================================
