---------------------------- MODULE MCAlertBoard ----------------------------
(* One channel the broker checks, on one browser.                          *)
EXTENDS AlertBoard, AlertsProperties

None == <<>>

(* Bound: goroutines in the middle of an event at once.                    *)
AtMostOneBusy == Cardinality({g \in Goroutines : ~Idle(g)}) <= 1

(* Bound: no tick, for without rules and nodes it has nothing to do.       *)
NoTick == ~swept
=============================================================================
