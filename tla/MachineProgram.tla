--------------------------- MODULE MachineProgram ---------------------------
(***************************************************************************)
(* The compiled `.sm` program the engine interprets: what Compile (package *)
(* statemachine, compile.go) hands to New.                                 *)
(*                                                                         *)
(* A controller or sequence block is a control-flow graph: a sequence of   *)
(* statements, each naming the statements that may run next.  An index     *)
(* outside the block is its end.  An `if` names the first statement of     *)
(* each of its branches; its condition is left open, because channel       *)
(* values are not part of this model.  Durations are counted in ticks.     *)
(***************************************************************************)
EXTENDS Integers, Sequences

CONSTANTS
  Machines,   \* the machines of the program
  Nodes,      \* the DAQ nodes a state may be daq_local to
  NoNode,     \* "": the state runs in the control node
  NoState,    \* "": no abort or completion destination
  Initial,    \* Machine.Initial, the first state in each machine's file
  Program     \* Machine.byName: [machine -> [its states -> state definition]]

StatesOf(m) == DOMAIN Program[m]
States == UNION {StatesOf(m) : m \in Machines}

NoTimeout == -1
Ops == {"assign", "if", "transition", "command", "sleep", "wait"}

(* Statements.  "to" is the target of a transition, a command or an        *)
(* expired wait; "ticks" a sleep's duration or a wait's timeout.           *)
Stmts == [op : Ops, to : States \cup {NoState}, machine : Machines,
          ticks : Nat \cup {NoTimeout}, next : SUBSET Nat]

StateDefs == [operator : BOOLEAN, from : SUBSET States,
              node : Nodes \cup {NoNode},
              abortTo : States \cup {NoState}, doneTo : States \cup {NoState},
              controller : Seq(Stmts), sequence : Seq(Stmts)]

Moves(st) == st.op = "transition" \/ (st.op = "wait" /\ st.ticks # NoTimeout)

(* checkTargets, checkCommand: what a block may name.                      *)
BlockOK(m, block) ==
  \A i \in DOMAIN block :
    /\ Moves(block[i]) => block[i].to \in StatesOf(m)
    /\ block[i].op = "command" => /\ block[i].machine # m
                                  /\ block[i].to \in StatesOf(block[i].machine)

(* The checks of Compile that the engine relies on.                        *)
ProgramOK ==
  /\ NoState \notin States
  /\ NoNode \notin Nodes
  /\ Initial \in [Machines -> States]
  /\ \A m \in Machines :
       /\ Initial[m] \in StatesOf(m)
       /\ \A s \in StatesOf(m) :
            LET d == Program[m][s] IN
            /\ d \in StateDefs
            /\ d.from \subseteq StatesOf(m) \ {s}
            /\ d.abortTo \in StatesOf(m) \cup {NoState}
            /\ d.doneTo \in StatesOf(m) \cup {NoState}
            /\ BlockOK(m, d.controller)
            /\ BlockOK(m, d.sequence)

ASSUME ProgramAssumption == ProgramOK

(* operatorCommandableFrom, with the operator flag RequestTarget tests     *)
(* before it.                                                              *)
Commandable(m, from, to) ==
  /\ Program[m][to].operator
  /\ Program[m][to].from = {} \/ from \in Program[m][to].from

(* Where a block can send its own machine, and where it can send others.   *)
TargetsOf(block) == {block[i].to : i \in {j \in DOMAIN block : Moves(block[j])}}
CommandsOf(block, m) ==
  {block[i].to : i \in {j \in DOMAIN block : /\ block[j].op = "command"
                                             /\ block[j].machine = m}}
=============================================================================
