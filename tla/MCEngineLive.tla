---------------------------- MODULE MCEngineLive ----------------------------
(***************************************************************************)
(* A program for the liveness properties: a sequence with every statement  *)
(* that can block, and a wait nothing bounds.                              *)
(***************************************************************************)
EXTENDS MCEngine, EngineLiveness

HoldInitial == [fire |-> "hold", press |-> "idle"]
HoldProgram ==
  [fire |->
     [hold |-> WithController(WithSequence(Bare,
                 <<Sleep(1, 2), WaitTimeout(1, "safe", 3), Wait(4), Transition("safe")>>),
                 <<If({2, 4}), CommandTo("press", "busy", 3), Transition("safe")>>),
      safe |-> OperatorFrom(Bare, {"hold"})],
   press |-> [idle |-> Bare, busy |-> DaqLocal(Bare, n1, "idle", "idle")]]
=============================================================================
