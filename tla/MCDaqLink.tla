------------------------------ MODULE MCDaqLink ------------------------------
(* Small programs for DaqLink: one machine whose burn runs on the node, or *)
(* two on one node, the second with no abort destination.                  *)
EXTENDS DaqLink, EngineProperties

StateDef(op, from, node, abort, done) ==
  [operator |-> op, from |-> from, node |-> node, abortTo |-> abort,
   doneTo |-> done, controller |-> <<>>, sequence |-> <<>>]

Machine == [safe  |-> StateDef(TRUE, {"burn"}, "", "", ""),
            burn  |-> StateDef(TRUE, {"safe"}, "daq", "safe", "safe")]

(* Bound: no clock ticks.  These programs have no controller and no         *)
(* sequence, so a tick would only drain the queues, as the select does.    *)
NoTicks == loop' = "drain" => back' = "select"

(* Bound: calls of the engine and state_req messages together, of the      *)
(* whole behaviour or of one in which the link has come back.              *)
FewEvents == stimuli + requests <= MaxStimuli
FewEventsOnReturn == conn > 1 => FewEvents

OneProgram == [m1 |-> Machine]
OneInitial == [m1 |-> "safe"]
TwoProgram == [m1 |-> Machine, m2 |-> [Machine EXCEPT !["burn"].abortTo = ""]]
TwoInitial == [m1 |-> "safe", m2 |-> "safe"]
OneOrder == <<"m1">>
TwoOrder == <<"m1", "m2">>
=============================================================================
