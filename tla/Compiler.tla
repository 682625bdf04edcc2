------------------------------ MODULE Compiler ------------------------------
(***************************************************************************)
(* Compile (package statemachine, compile.go and the checks of             *)
(* daqlocal.go, and package dsl's reference checker): what a set of        *)
(* machine definitions must satisfy, and the program the engine is given.  *)
(* Errors are told apart by their absence only: any one of them refuses    *)
(* the whole configuration, and main exits.                                *)
(***************************************************************************)
EXTENDS Dialect

(* Every statement of a block, those of nested branches included.          *)
RECURSIVE Statements(_)
Statements(block) ==
  UNION {IF s.op # "if" THEN {s}
         ELSE {s} \cup UNION {Statements(s.branches[n].body) : n \in DOMAIN s.branches}
         : s \in ToSet(block)}

-----------------------------------------------------------------------------
(* buildMachine: the checks of one state.                                  *)
checkController(st) ==
  \A s \in Statements(st.controller) : s.op \notin {"sleep", "wait"}

(* The parser reads a target only after a timeout.                         *)
checkSequence(st) ==
  \A s \in Statements(st.sequence) : s.op = "wait" /\ s.timeout # NoExpr => s.to # ""

(* compileDaqLocal.                                                        *)
RECURSIVE isConstantOrIdent(_)
isConstantOrIdent(e) ==
  \/ Primary(e)
  \/ e.k = "unary" /\ e.op = "-" /\ isConstantOrIdent(e.of)
  \/ e.k = "binary" /\ e.op \in Arithmetic
     /\ isConstantOrIdent(e.left) /\ isConstantOrIdent(e.right)

EndsInTransition(block) == block # <<>> /\ Last(block).op = "transition"
Body(block) == IF EndsInTransition(block) THEN Front(block) ELSE block
Destination(block) == IF EndsInTransition(block) THEN Last(block).to ELSE ""

(* Sleeps and assignments only, so no transition but a trailing one.  The  *)
(* refusal of a negative literal never applies: "-1" is a unary minus.     *)
compileDaqSteps(block) ==
  \A s \in ToSet(Body(block)) :
    \/ s.op = "assign" /\ isConstantOrIdent(s.value)
    \/ s.op = "sleep" /\ isConstantOrIdent(s.for)

compileDaqLocal(st) ==
  /\ st.controller = <<>>
  /\ compileDaqSteps(st.sequence)
  /\ st.rules # <<>> => st.aborts
  /\ st.aborts => Destination(st.abortSequence) # "" /\ compileDaqSteps(st.abortSequence)
  /\ \A r \in ToSet(st.rules) : /\ isConstantOrIdent(r.value)
                                /\ isConstantOrIdent(r.from) /\ isConstantOrIdent(r.to)

NamesOf(defs) == {d.name : d \in ToSet(defs)}
Distinct(defs) == \A i, j \in DOMAIN defs : defs[i].name = defs[j].name => i = j

buildMachine(def) ==
  /\ Distinct(def.states)
  /\ \A st \in ToSet(def.states) :
       /\ checkController(st) /\ checkSequence(st)
       /\ IF st.node = "" THEN st.rules = <<>> /\ ~st.aborts ELSE compileDaqLocal(st)

-----------------------------------------------------------------------------
(* The checks that need the whole program.                                 *)
Executed(st) == Statements(st.controller) \cup Statements(st.sequence)

checkTargets(def) ==
  \A st \in ToSet(def.states) :
    \A s \in Executed(st) \cup Statements(st.abortSequence) :
      s.op = "transition" \/ (s.op = "wait" /\ s.to # "") => s.to \in NamesOf(def.states)

(* Fault: a gate may name the state itself.                                *)
GatesAnyState(def) ==
  \A st \in ToSet(def.states) : ToSet(st.from) \subseteq NamesOf(def.states)

checkOperatorGates(def) ==
  \A st \in ToSet(def.states) :
    /\ ToSet(st.from) \subseteq NamesOf(def.states) \ {st.name}
    /\ IsInjective(st.from)

checkCommands(defs, def) ==
  \A s \in UNION {Executed(st) : st \in ToSet(def.states)} :
    s.op = "command" =>
      /\ s.machine # def.name
      /\ \E other \in ToSet(defs) : other.name = s.machine /\ s.to \in NamesOf(other.states)

(* The reference checker.  A name is a channel's, or a machine's state,    *)
(* which is compared with the names of that machine's states; any other    *)
(* name that begins with a machine is let pass.                            *)
RECURSIVE Subtrees(_)
Subtrees(e) == {e} \cup CASE e.k = "unary" -> Subtrees(e.of)
                       [] e.k = "binary" -> Subtrees(e.left) \cup Subtrees(e.right)
                       [] OTHER -> {}
IsQualified(e) == e.k = "ident" /\ "machine" \in DOMAIN e
IsMachineState(e) == IsQualified(e) /\ e.field = "state"

checkIdent(defs, known, e) ==
  IF IsQualified(e) THEN IsMachineState(e) => e.machine \in NamesOf(defs)
  ELSE e.name \in known

checkStateComparison(defs, side, other) ==
  IsMachineState(side) /\ other.k = "lit" /\ other.value.type = "string" =>
    \A d \in ToSet(defs) :
      d.name = side.machine => other.value \in {Text(n) : n \in NamesOf(d.states)}

checkExpr(defs, known, e) ==
  \A n \in Subtrees(e) :
    /\ n.k = "ident" => checkIdent(defs, known, n)
    /\ n.k = "binary" /\ n.op \in {"==", "!="} =>
         /\ checkStateComparison(defs, n.left, n.right)
         /\ checkStateComparison(defs, n.right, n.left)

Expressions(s) ==
  CASE s.op = "assign" -> {s.value}
    [] s.op = "sleep" -> {s.for}
    [] s.op = "wait" -> {s.cond, s.timeout}
    [] s.op = "if" -> {s.branches[n].cond : n \in DOMAIN s.branches}
    [] OTHER -> {}

checkStmt(defs, known, s) ==
  /\ s.op \in {"assign", "step"} => s.target \in known
  /\ \A e \in Expressions(s) : checkExpr(defs, known, e)

(* The channel an abort rule watches is not looked at.                     *)
checkReferences(defs, known, def) ==
  \A st \in ToSet(def.states) :
    /\ \A s \in Executed(st) \cup Statements(st.abortSequence) : checkStmt(defs, known, s)
    /\ \A r \in ToSet(st.rules) :
         \A e \in {r.value, r.from, r.to} : checkExpr(defs, known, e)

(* Compile, of the definitions of all files in the order of their names.   *)
Compile(defs, known) ==
  /\ Distinct(defs)
  /\ \A def \in ToSet(defs) : buildMachine(def)
  /\ \A def \in ToSet(defs) :
       /\ checkTargets(def) /\ checkOperatorGates(def)
       /\ checkCommands(defs, def) /\ checkReferences(defs, known, def)

-----------------------------------------------------------------------------
(* What the engine interprets, in the form of MachineProgram: a block as a *)
(* sequence of statements that name the ones that may follow.  Every       *)
(* duration is one tick, for only whether there is one matters here.       *)
RECURSIVE Length(_)
Length(block) ==
  FoldLeft(LAMBDA n, s : n + 1 + (IF s.op # "if" THEN 0 ELSE
             FoldLeft(LAMBDA k, b : k + Length(b.body), 0, s.branches)), 0, block)

Stmt(op, to, machine, ticks, next) ==
  [op |-> op, to |-> to, machine |-> machine, ticks |-> ticks, next |-> next]

(* One statement, the next of which is at `after`.                         *)
Flat(s, m, after) ==
  CASE s.op \in {"assign", "step"} -> Stmt("assign", "", m, 0, {after})
    [] s.op = "transition" -> Stmt("transition", s.to, m, 0, {})
    [] s.op = "command" -> Stmt("command", s.to, s.machine, 0, {after})
    [] s.op = "sleep" -> Stmt("sleep", "", m, 1, {after})
    [] s.op = "wait" -> Stmt("wait", s.to, m, IF s.timeout = NoExpr THEN -1 ELSE 1, {after})

(* A block that begins at `at` and is followed by `exit`.                  *)
RECURSIVE Flattened(_, _, _, _)
Flattened(block, m, at, exit) ==
  IF block = <<>> THEN <<>>
  ELSE
    LET s == Head(block)
        rest == Tail(block)
        follows == at + Length(<<s>>)
        after == IF rest = <<>> THEN exit ELSE follows
        begins == [n \in DOMAIN s.branches |->
                     at + 1 + FoldLeft(LAMBDA k, b : k + Length(b.body), 0,
                                       SubSeq(s.branches, 1, n - 1))]
        entered == {begins[n] : n \in DOMAIN s.branches}
                     \cup (IF Last(s.branches).cond = Always THEN {} ELSE {after})
    IN (IF s.op # "if" THEN <<Flat(s, m, after)>>
        ELSE <<Stmt("if", "", m, 0, entered)>>
               \o FlattenSeq([n \in DOMAIN s.branches |->
                    Flattened(s.branches[n].body, m, begins[n], after)]))
       \o Flattened(rest, m, follows, exit)

(* A block ends where its index leaves it.                                 *)
FlowOf(block, m) == Flattened(block, m, 1, Length(block) + 1)

CompiledState(st, m) ==
  [operator |-> st.operator, from |-> ToSet(st.from), node |-> st.node,
   abortTo |-> Destination(st.abortSequence),
   doneTo |-> IF st.node = "" THEN "" ELSE Destination(st.sequence),
   controller |-> FlowOf(st.controller, m),
   sequence |-> IF st.node = "" THEN FlowOf(st.sequence, m) ELSE <<>>]

Definition(defs, name) == CHOOSE d \in ToSet(defs) : d.name = name
Compiled(defs) ==
  [m \in NamesOf(defs) |->
    LET states == Definition(defs, m).states IN
    [s \in NamesOf(states) |-> CompiledState(Definition(states, s), m)]]
InitialStates(defs) == [m \in NamesOf(defs) |-> Definition(defs, m).states[1].name]
=============================================================================
