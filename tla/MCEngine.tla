------------------------------ MODULE MCEngine ------------------------------
(***************************************************************************)
(* Small programs for Engine, in the shape of the ones the repository      *)
(* ships and documents.                                                    *)
(***************************************************************************)
EXTENDS EngineProperties, TLC

CONSTANTS n1, none, nowhere

(* Statements.                                                             *)
Plain(op, next) ==
  [op |-> op, to |-> none, machine |-> "fire", ticks |-> 0, next |-> next]
Assign(next) == Plain("assign", {next})
If(branches) == Plain("if", branches)
Transition(t) == [Plain("transition", {}) EXCEPT !.to = t]
CommandTo(m, t, next) == [Plain("command", {next}) EXCEPT !.machine = m, !.to = t]
Sleep(k, next) == [Plain("sleep", {next}) EXCEPT !.ticks = k]
Wait(next) == [Plain("wait", {next}) EXCEPT !.ticks = NoTimeout]
WaitTimeout(k, t, next) == [Plain("wait", {next}) EXCEPT !.ticks = k, !.to = t]

(* States.                                                                 *)
Bare == [operator |-> FALSE, from |-> {}, node |-> nowhere,
         abortTo |-> none, doneTo |-> none, controller |-> <<>>, sequence |-> <<>>]
OperatorFrom(d, gate) == [d EXCEPT !.operator = TRUE, !.from = gate]
WithSequence(d, block) == [d EXCEPT !.sequence = block]
WithController(d, block) == [d EXCEPT !.controller = block]
DaqLocal(d, n, ab, done) == [d EXCEPT !.node = n, !.abortTo = ab, !.doneTo = done]

(* dsl-guide.md's orchestration in small: a firing sequence that commands  *)
(* the press system, which runs on the DAQ node; its controller may abort   *)
(* it, and an operator may start it again while it is still ending.         *)
OrchestraOrder == <<"fire", "press">>
OrchestraInitial == [fire |-> "auto", press |-> "idle"]
OrchestraProgram ==
  [fire |->
     [auto |-> WithController(WithSequence(OperatorFrom(Bare, {"post"}),
                 <<CommandTo("press", "running", 2), Transition("post")>>),
                 <<Transition("post")>>),
      post |-> WithController(Bare, <<Assign(2)>>)],
   press |->
     [idle |-> Bare,
      running |-> DaqLocal(Bare, n1, "idle", none)]]
=============================================================================
