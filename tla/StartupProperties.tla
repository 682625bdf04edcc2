------------------------- MODULE StartupProperties -------------------------
(***************************************************************************)
(* What the start-up promises the engine, the node and the reader of the   *)
(* documentation pages.                                                    *)
(***************************************************************************)
EXTENDS Startup

(* What Engine assumes of a program, here of the machines compiled.        *)
Runnable(defs_) == INSTANCE MachineProgram WITH
  Machines <- NamesOf(defs_), Nodes <- {st.node : st \in StatesIn(defs_)} \ {""},
  NoNode <- "", NoState <- "",
  Initial <- InitialStates(defs_), Program <- Compiled(defs_)

(* Every name that a state's statements read or write, and every name that *)
(* the numbers of its abort rules read.                                    *)
Idents(exprs) == {n \in UNION {Subtrees(e) : e \in exprs} : n.k = "ident"}
Mentioned(s) ==
  Idents(Expressions(s)) \cup (IF s.op \in {"assign", "step"} THEN {Ident(s.target)} ELSE {})
MentionedIn(st) ==
  UNION {Mentioned(s) : s \in Statements(st.controller \o st.sequence \o st.abortSequence)}
    \cup Idents(UNION {{r.value, r.from, r.to} : r \in ToSet(st.rules)})
Exists(e) == IF IsQualified(e) THEN IsMachineState(e) /\ e.machine \in NamesOf(machines)
             ELSE e.name \in KnownChannels

(* Files that are accepted make a program the engine can run: it has what  *)
(* MachineProgram assumes, no controller waits, every machine's channels   *)
(* were registered before it was compiled, and nothing reads or writes a   *)
(* channel, or reads the state of a machine, that does not exist.  Not so  *)
(* for what the reference checker does not look at: the other names that   *)
(* begin with a machine, and the channel an abort rule watches.            *)
CompiledIsRunnable ==
  stage = "serve" =>
    /\ Runnable(machines)!ProgramOK
    /\ \A m \in NamesOf(machines) : \A s \in DOMAIN Compiled(machines)[m] :
         LET block == Compiled(machines)[m][s].controller IN
         \A i \in DOMAIN block : block[i].op \notin {"sleep", "wait"}
    /\ \A st \in StatesIn(machines) : \A e \in MentionedIn(st) :
         Exists(e) \/ (IsQualified(e) /\ e.field # "state")
    /\ ToSet(scanned) = NamesOf(machines)

-----------------------------------------------------------------------------
(* What the engine would do with the same block: execAssign and execSleep, *)
(* in a space that does not change.                                        *)
Space == [name \in DOMAIN channels |-> Num(channels[name])]
Coerced(v) == CASE v.type = "float" -> v
                [] v.type = "bool" -> Num(Whole(IF v.truth THEN 1 ELSE 0))
                [] OTHER -> Error("type")

RunStmt(run, s) ==
  LET v == Eval(Expr(s), Space) IN
  IF ~run.ok THEN run
  ELSE CASE s.op = "sleep" /\ v.type = "float" ->
         IF Less(v.num, Zero) THEN [run EXCEPT !.ok = FALSE]
         ELSE [run EXCEPT !.at = Plus(@, v.num)]
    [] s.op = "assign" /\ Coerced(v).type = "float" ->
         [run EXCEPT !.steps = Append(@, SetPoint(run.at, s.target, Coerced(v).num))]
    [] OTHER -> [run EXCEPT !.ok = FALSE]
Run(block) == FoldLeft(RunStmt, [ok |-> TRUE, at |-> Zero, steps |-> <<>>], Body(block))

IsExit(step) == step.refDes = "exit"
EntryOf(p) == IF \E i \in DOMAIN p : IsExit(p[i])
              THEN SubSeq(p, 1, (CHOOSE i \in DOMAIN p : IsExit(p[i])) - 1) ELSE p
ExitOf(p) == SelectSeq(SubSeq(p, Len(EntryOf(p)) + 2, Len(p)), LAMBDA x : x.refDes # "")

SameStep(a, b) == Same(a.at, b.at) /\ a.refDes = b.refDes /\ Same(a.value, b.value)
SameSteps(p, q) == Len(p) = Len(q) /\ \A i \in DOMAIN p : SameStep(p[i], q[i])
InTime(p) == \A i, j \in DOMAIN p : i < j => ~Less(p[j].at, p[i].at)

(* What is sent to a node sets, at the same times, what the engine would   *)
(* have set had it run the state's two blocks itself, if no channel        *)
(* changed while the schedule was resolved and the engine's run would not  *)
(* have failed; then it is not refused either, but for a negative sleep.   *)
(* The engine's run is taken in that same space: a block that reads what   *)
(* it has assigned before would read it anew in the engine, and is outside *)
(* of this.  Whatever changed, the steps are in the order of their times.  *)
ScheduleFaithful ==
  LET entry == Run(entered.sequence)
      exit == Run(entered.abortSequence) IN
  /\ sending = "sent" => InTime(EntryOf(payload)) /\ InTime(ExitOf(payload))
  /\ sending = "sent" /\ changes = 0 =>
       /\ entry.ok => SameSteps(EntryOf(payload), entry.steps)
       /\ exit.ok => SameSteps(ExitOf(payload), exit.steps)
  /\ sending = "refused" /\ changes = 0 /\ entered.rules = <<>> => ~entry.ok \/ ~exit.ok

-----------------------------------------------------------------------------
(* The text of an expression or a block read again.                        *)
ReadAgain(e) == parseExpr(Shown(e), 1)
BlockText(block) == Tokenize(<<Line(0, <<Sign("sequence")>>)>> \o StmtLines(block, 1))
BlockReadAgain(block) == parseBlock(BlockText(block).tokens, 2)

MinusOfMinus(e) ==
  \E n \in Subtrees(e) : /\ n.k = "unary" /\ n.op = "-"
                      /\ n.of.k = "unary" /\ n.of.op = "-"
Escaped(e) == \E n \in Subtrees(e) :
                n.k = "lit" /\ n.value.type = "string" /\ n.value.escapes
Plain(s) ==
  /\ \A e \in Expressions(s) : ~MinusOfMinus(e) /\ ~Escaped(e)
  /\ s.op = "if" => \A n \in DOMAIN s.branches : s.branches[n].body # <<>>

(* What the pages show of a computed channel or of a state's blocks reads  *)
(* back as what is evaluated and run, but for a minus directly under a     *)
(* minus, whose signs would merge, a string with something to escape,      *)
(* which is not unescaped, and a branch without a statement.               *)
RoundTrips ==
  stage = "serve" =>
    /\ \A c \in DOMAIN computes :
         \/ MinusOfMinus(computes[c]) \/ Escaped(computes[c])
         \/ ReadAgain(computes[c]) = Parsed(computes[c], Len(Shown(computes[c])) + 1)
    /\ \A st \in StatesIn(machines) :
         \A block \in {st.controller, st.sequence, st.abortSequence} :
           (\A s \in Statements(block) : Plain(s)) /\ block # <<>> =>
             BlockReadAgain(block) = Parsed(block, Len(BlockText(block).tokens) + 1)
=============================================================================
