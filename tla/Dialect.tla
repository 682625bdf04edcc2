------------------------------ MODULE Dialect ------------------------------
(***************************************************************************)
(* The text of a `.sm` file and the machine it declares (package dsl): the *)
(* lexer's indentation, the parser of machines, states and statements, and *)
(* the lines the documentation pages write a compiled block back as.       *)
(*                                                                         *)
(* A line is its indentation and its tokens.  The lexer has no token for   *)
(* the end of a line: where a statement ends is decided by the parser      *)
(* alone.  `from` and `to` are identifiers to it.                          *)
(***************************************************************************)
EXTENDS Expressions, SequencesExt

Line(indent, tokens) == [indent |-> indent, tokens |-> tokens]

(* Statements.  The branches of an `if` are its elifs and its else too,    *)
(* whose condition is Always.                                              *)
NoExpr == [k |-> "none"]
Always == NoExpr
Assign(target, e) == [op |-> "assign", target |-> target, value |-> e]
Step(target, by) == [op |-> "step", target |-> target, by |-> by]
If(branches) == [op |-> "if", branches |-> branches]
Branch(cond, body) == [cond |-> cond, body |-> body]
Transition(t) == [op |-> "transition", to |-> t]
CommandTo(m, t) == [op |-> "command", machine |-> m, to |-> t]
Sleep(e) == [op |-> "sleep", for |-> e]
WaitUntil(cond, timeout, to) == [op |-> "wait", cond |-> cond, timeout |-> timeout, to |-> to]

-----------------------------------------------------------------------------
(* StmtLines.                                                              *)
Shown(e) == exprString(e, 0)
Marked(t, e) == <<Sign(t)>> \o Shown(e)

StmtTokens(s) ==
  CASE s.op = "assign" -> <<Ident(s.target), Sign("=")>> \o Shown(s.value)
    [] s.op = "step" -> <<Ident(s.target), Sign(s.by)>>
    [] s.op = "transition" -> <<Sign("transition"), Ident(s.to)>>
    [] s.op = "command" -> <<Sign("command"), Ident(s.machine), Sign("->"), Ident(s.to)>>
    [] s.op = "sleep" -> Marked("sleep", s.for)
    [] s.op = "wait" ->
         Marked("wait_until", s.cond)
           \o (IF s.timeout = NoExpr THEN <<>> ELSE Marked("timeout", s.timeout))
           \o (IF s.to = "" THEN <<>> ELSE <<Sign("->"), Ident(s.to)>>)

Opening(n, cond) == CASE n = 1 -> Marked("if", cond)
                      [] n # 1 /\ cond = Always -> <<Sign("else")>>
                      [] OTHER -> Marked("elif", cond)

RECURSIVE StmtLines(_, _)
StmtLines(block, indent) ==
  FlattenSeq([i \in DOMAIN block |->
    LET s == block[i] IN
    IF s.op # "if" THEN <<Line(indent, StmtTokens(s))>>
    ELSE FlattenSeq([n \in DOMAIN s.branches |->
           <<Line(indent, Opening(n, s.branches[n].cond))>>
             \o StmtLines(s.branches[n].body, indent + 1)])])

-----------------------------------------------------------------------------
(* Tokenize: the tokens of every line, with an INDENT or DEDENTs where the *)
(* indentation changes.  A line aligned with no outer level is refused.    *)
Popped(levels, indent) == SelectSeq(levels, LAMBDA n : n <= indent)

Closing(levels, indent) ==
  [i \in 1 .. Len(levels) - Len(Popped(levels, indent)) |-> Sign("dedent")]

handleIndentation(lexed, line) ==
  LET current == Last(lexed.levels)
      kept == Popped(lexed.levels, line.indent) IN
  CASE ~lexed.ok -> lexed
    [] lexed.ok /\ line.indent > current ->
         [lexed EXCEPT !.levels = Append(@, line.indent), !.tokens = Append(@, Sign("indent"))]
    [] OTHER -> [ok |-> Last(kept) = line.indent, levels |-> kept,
                 tokens |-> lexed.tokens \o Closing(lexed.levels, line.indent)]

NextLine(lexed, line) ==
  LET placed == handleIndentation(lexed, line) IN
  [placed EXCEPT !.tokens = @ \o line.tokens]

Tokenize(lines) ==
  LET lexed == FoldLeft(NextLine, [ok |-> TRUE, levels |-> <<0>>, tokens |-> <<>>], lines)
  IN IF ~lexed.ok THEN Failed
     ELSE [ok |-> TRUE, tokens |-> lexed.tokens \o Closing(lexed.levels, 0)]

-----------------------------------------------------------------------------
(* The parser: each function gives what it read and the place after it.    *)
IsIdent(s, i) == i \in DOMAIN s /\ s[i].k = "ident"
Named(s, i) == IF IsIdent(s, i) THEN Parsed(s[i].name, i + 1) ELSE Failed
IsWord(s, i, word) == IsIdent(s, i) /\ s[i].name = word

Then(result, f(_, _)) == IF result.ok THEN f(result.e, result.next) ELSE Failed

parseAssignOrOp(s, i) ==
  CASE IsSign(s, i + 1, {"="}) ->
         Then(parseExpr(s, i + 2), LAMBDA e, j : Parsed(Assign(s[i].name, e), j))
    [] IsSign(s, i + 1, {"++", "--"}) -> Parsed(Step(s[i].name, s[i + 1].op), i + 2)
    [] OTHER -> Failed

parseTransition(s, i) == Then(Named(s, i + 1), LAMBDA t, j : Parsed(Transition(t), j))

parseCommand(s, i) ==
  Then(Named(s, i + 1), LAMBDA m, j :
    IF IsSign(s, j, {"->"})
    THEN Then(Named(s, j + 1), LAMBDA t, n : Parsed(CommandTo(m, t), n))
    ELSE Failed)

parseSleep(s, i) == Then(parseExpr(s, i + 1), LAMBDA e, j : Parsed(Sleep(e), j))

parseTimeout(s, i, cond) ==
  Then(parseExpr(s, i), LAMBDA e, j :
    IF IsSign(s, j, {"->"})
    THEN Then(Named(s, j + 1), LAMBDA t, n : Parsed(WaitUntil(cond, e, t), n))
    ELSE Parsed(WaitUntil(cond, e, ""), j))

parseWaitUntil(s, i) ==
  Then(parseExpr(s, i + 1), LAMBDA cond, j :
    IF IsSign(s, j, {"timeout"}) THEN parseTimeout(s, j + 1, cond)
    ELSE Parsed(WaitUntil(cond, NoExpr, ""), j))

(* Statements up to one of the given marks or the end of the file.  A      *)
(* block's DEDENT is consumed; one that ends otherwise has none.           *)
Past(s, i) == IF IsSign(s, i, {"dedent"}) THEN i + 1 ELSE i

RECURSIVE parseStmt(_, _), parseBody(_, _, _, _), parseElse(_, _, _)
parseBody(s, i, marks, sofar) ==
  IF i > Len(s) \/ IsSign(s, i, marks) THEN Parsed(sofar, Past(s, i))
  ELSE Then(parseStmt(s, i), LAMBDA stmt, j : parseBody(s, j, marks, Append(sofar, stmt)))

parseBlock(s, i) ==
  IF IsSign(s, i, {"indent"}) THEN parseBody(s, i + 1, {"dedent"}, <<>>)
  ELSE Parsed(<<>>, i)

BodyEnds == {"dedent", "elif", "else"}
parseBranch(s, i, marks, cond) ==
  IF ~IsSign(s, i, {"indent"}) THEN Failed
  ELSE Then(parseBody(s, i + 1, marks, <<>>), LAMBDA body, j : Parsed(Branch(cond, body), j))

parseElse(s, i, branches) ==
  CASE IsSign(s, i, {"elif"}) ->
         Then(parseExpr(s, i + 1), LAMBDA cond, j :
           Then(parseBranch(s, j, BodyEnds, cond), LAMBDA b, n :
             parseElse(s, n, Append(branches, b))))
    [] IsSign(s, i, {"else"}) ->
         Then(parseBranch(s, i + 1, {"dedent"}, Always), LAMBDA b, n :
           Parsed(If(Append(branches, b)), n))
    [] OTHER -> Parsed(If(branches), i)

parseIf(s, i) ==
  Then(parseExpr(s, i + 1), LAMBDA cond, j :
    Then(parseBranch(s, j, BodyEnds, cond), LAMBDA b, n : parseElse(s, n, <<b>>)))

parseStmt(s, i) ==
  CASE IsSign(s, i, {"if"}) -> parseIf(s, i)
    [] IsSign(s, i, {"transition"}) -> parseTransition(s, i)
    [] IsSign(s, i, {"command"}) -> parseCommand(s, i)
    [] IsSign(s, i, {"sleep"}) -> parseSleep(s, i)
    [] IsSign(s, i, {"wait_until"}) -> parseWaitUntil(s, i)
    [] IsIdent(s, i) -> parseAssignOrOp(s, i)
    [] OTHER -> Failed

-----------------------------------------------------------------------------
(* States and machines.  Line numbers are left out, and with them the      *)
(* refusal of a `from` list that begins on a line of its own.              *)
Rule(channel, op, value, from, to) ==
  [channel |-> channel, op |-> op, value |-> value, from |-> from, to |-> to]

parseAbortRule(s, i) ==
  Then(Named(s, i + 1), LAMBDA channel, j :
    IF ~IsSign(s, j, Level[3]) THEN Failed
    ELSE Then(parseExpr(s, j + 1), LAMBDA value, n :
      IF ~IsWord(s, n, "from") THEN Failed
      ELSE Then(parseExpr(s, n + 1), LAMBDA from, o :
        IF ~IsWord(s, o, "to") THEN Failed
        ELSE Then(parseExpr(s, o + 1), LAMBDA to, q :
          Parsed(Rule(channel, s[j].op, value, from, to), q)))))

RECURSIVE parseOperatorFrom(_, _, _)
parseOperatorFrom(s, i, names) ==
  Then(Named(s, i), LAMBDA name, j :
    IF IsSign(s, j, {","}) THEN parseOperatorFrom(s, j + 1, Append(names, name))
    ELSE Parsed(Append(names, name), j))

Bare(name) == [name |-> name, operator |-> FALSE, from |-> <<>>, node |-> "",
               controller |-> <<>>, sequence |-> <<>>, aborts |-> FALSE,
               abortSequence |-> <<>>, rules |-> <<>>]

RECURSIVE parseItems(_, _, _)
parseItems(s, i, st) ==
  CASE IsSign(s, i, {"operator"}) ->
         LET flagged == [st EXCEPT !.operator = TRUE] IN
         IF IsWord(s, i + 1, "from")
         THEN Then(parseOperatorFrom(s, i + 2, <<>>), LAMBDA names, j :
                parseItems(s, j, [flagged EXCEPT !.from = names]))
         ELSE parseItems(s, i + 1, flagged)
    [] IsSign(s, i, {"daq_local"}) ->
         Then(Named(s, i + 1), LAMBDA n, j : parseItems(s, j, [st EXCEPT !.node = n]))
    [] IsSign(s, i, {"controller"}) ->
         Then(parseBlock(s, i + 1), LAMBDA b, j :
           parseItems(s, j, [st EXCEPT !.controller = @ \o b]))
    [] IsSign(s, i, {"sequence"}) ->
         Then(parseBlock(s, i + 1), LAMBDA b, j :
           parseItems(s, j, [st EXCEPT !.sequence = @ \o b]))
    [] IsSign(s, i, {"abort_sequence"}) ->
         Then(parseBlock(s, i + 1), LAMBDA b, j :
           parseItems(s, j, [st EXCEPT !.aborts = TRUE, !.abortSequence = @ \o b]))
    [] IsSign(s, i, {"abort_rule"}) ->
         Then(parseAbortRule(s, i), LAMBDA r, j :
           parseItems(s, j, [st EXCEPT !.rules = Append(@, r)]))
    [] IsSign(s, i, {"dedent"}) -> Parsed(st, i + 1)
    [] OTHER -> Failed

parseState(s, i) ==
  Then(Named(s, i + 1), LAMBDA name, j :
    IF IsSign(s, j, {"indent"}) THEN parseItems(s, j + 1, Bare(name))
    ELSE Parsed(Bare(name), j))

(* The states may be indented under the machine or not: skipNewlines skips *)
(* every INDENT and DEDENT between them.                                   *)
RECURSIVE skipNewlines(_, _), parseStates(_, _, _)
skipNewlines(s, i) ==
  IF IsSign(s, i, {"indent", "dedent"}) THEN skipNewlines(s, i + 1) ELSE i
parseStates(s, i, states) ==
  IF IsSign(s, i, {"state"})
  THEN Then(parseState(s, i), LAMBDA st, j :
         parseStates(s, skipNewlines(s, j), Append(states, st)))
  ELSE Parsed(states, i)

parseMachine(s, i) ==
  IF ~IsSign(s, i, {"machine"}) THEN Failed
  ELSE Then(Named(s, i + 1), LAMBDA name, j :
    Then(parseStates(s, skipNewlines(s, j), <<>>), LAMBDA states, n :
      IF states # <<>> /\ n > Len(s) THEN Parsed([name |-> name, states |-> states], n)
      ELSE Failed))

(* A file: lexed and parsed.                                               *)
Parse(lines) == LET lexed == Tokenize(lines) IN
                IF lexed.ok THEN parseMachine(lexed.tokens, skipNewlines(lexed.tokens, 1))
                ELSE Failed
=============================================================================
