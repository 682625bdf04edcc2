----------------------------- MODULE MCSessions -----------------------------
(* One machine, one checked sensor, one node, one layout and one browser.  *)
EXTENDS SessionProperties

MCStatus(c, v) == IF v = "low" THEN "ok" ELSE "high"
MCEval(c, s, hw) == Fault
MCReads == <<>>
MCConfigs == {[allowed |-> [c \in Declared |-> Value], default |-> [c \in Named |-> Zero]]}
MCNodeOf == [c \in Hardware |-> "daq"]

Budget(b) == [kind \in Kinds |-> IF kind \in DOMAIN b THEN b[kind] ELSE 0]
MCScenarios == {Budget([state |-> 2]), Budget([value |-> 2]),
                Budget([reading |-> 2, close |-> 1, reload |-> 1]),
                Budget([command |-> 3]), Budget([layout |-> 2]),
                Budget([layout |-> 1, close |-> 1])}
=============================================================================
