------------------------------ MODULE MCAlerts ------------------------------
(* One rule that clears itself, and one node.                              *)
EXTENDS AlertsProperties

Rules == <<"rule">>
OneNode == <<"daq">>

(* Bounds: goroutines in the middle of an event at once; messages that     *)
(* wait to be published at once, for nothing here depends on their order;  *)
(* and rows, two more than the limit.                                      *)
AtMostTwoBusy == Cardinality({g \in Goroutines : ~Idle(g)}) <= 2
FewMessages == Cardinality({g \in Goroutines : out[g] # Nothing}) <= 1
FewRows == Len(order) <= MaxLen + 2
=============================================================================
