----------------------------- MODULE StateGraph -----------------------------
(***************************************************************************)
(* What the engine promises about every machine: it is always in one       *)
(* state, each entry starts a new epoch, and every entry follows an edge   *)
(* the program declares from the state being left, or is one of the three  *)
(* entries that may interrupt any state: an operator request for a state   *)
(* that carries the operator flag, another machine's `command`, and the    *)
(* abort destination of one of the machine's daq_local states.             *)
(***************************************************************************)
EXTENDS MachineProgram

VARIABLES cur, epoch

vars == <<cur, epoch>>

Init == /\ cur = Initial
        /\ epoch = [m \in Machines |-> 0]

(* The edges out of s: its own statements and its completion transition.   *)
Edge(m, s, t) ==
  \/ t \in TargetsOf(Program[m][s].controller)
  \/ t \in TargetsOf(Program[m][s].sequence) /\ Program[m][s].node = NoNode
  \/ t = Program[m][s].doneTo /\ Program[m][s].node # NoNode

Interrupt(m, t) ==
  \/ Program[m][t].operator
  \/ \E s \in StatesOf(m) : t = Program[m][s].abortTo
  \/ \E n \in Machines \ {m} : \E s \in StatesOf(n) :
       \/ t \in CommandsOf(Program[n][s].controller, m)
       \/ t \in CommandsOf(Program[n][s].sequence, m)

Enter(m, t) ==
  /\ \/ epoch[m] = 0 /\ t = Initial[m]
     \/ Edge(m, cur[m], t)
     \/ Interrupt(m, t)
  /\ cur' = [cur EXCEPT ![m] = t]
  /\ epoch' = [epoch EXCEPT ![m] = @ + 1]

Next == \E m \in Machines : \E t \in StatesOf(m) : Enter(m, t)

Spec == Init /\ [][Next]_vars
=============================================================================
