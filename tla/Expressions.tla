---------------------------- MODULE Expressions ----------------------------
(***************************************************************************)
(* Expressions of the control language (package dsl): their trees, their   *)
(* values, the tree a text stands for and the text written back for the    *)
(* documentation pages.                                                    *)
(*                                                                         *)
(* A number is an exact rational <<n, d>>, d > 0: rounding is left out.    *)
(* Whether a literal was written with a decimal point is not kept, for     *)
(* evalLiteral makes every number a float.                                 *)
(***************************************************************************)
EXTENDS Integers, Sequences, FiniteSets

(* Trees.                                                                  *)
Lit(value) == [k |-> "lit", value |-> value]
Ident(name) == [k |-> "ident", name |-> name]
(* machine.<m>.<field>: to the lexer one identifier, for it may hold dots. *)
Qualified(m, field) ==
  [k |-> "ident", name |-> "machine." \o m \o "." \o field, machine |-> m, field |-> field]
MachineState(m) == Qualified(m, "state")
Unary(op, e) == [k |-> "unary", op |-> op, of |-> e]
Binary(op, l, r) == [k |-> "binary", op |-> op, left |-> l, right |-> r]

(* Values; an error is told by its reason.  A string is its text and, if   *)
(* that holds something strconv.Quote escapes (a quote, a backslash, a     *)
(* line's end), how often it has been quoted since: the lexer keeps an     *)
(* escape as it is written, so every quoting makes another string of it.   *)
Num(q) == [type |-> "float", num |-> q]
Bool(b) == [type |-> "bool", truth |-> b]
Text(s) == [type |-> "string", text |-> s, escapes |-> FALSE, quoted |-> 0]
WithEscape(s) == [Text(s) EXCEPT !.escapes = TRUE]
Quoted(v) == [v EXCEPT !.quoted = IF v.escapes THEN @ + 1 ELSE @]
Error(why) == [type |-> "error", why |-> why]

Whole(n) == <<n, 1>>
Neg(a) == <<-a[1], a[2]>>
Plus(a, b) == <<a[1] * b[2] + b[1] * a[2], a[2] * b[2]>>
Times(a, b) == <<a[1] * b[1], a[2] * b[2]>>
Over(a, b) == IF b[1] > 0 THEN <<a[1] * b[2], a[2] * b[1]>>
              ELSE <<-(a[1] * b[2]), -(a[2] * b[1])>>
Same(a, b) == a[1] * b[2] = b[1] * a[2]
Less(a, b) == a[1] * b[2] < b[1] * a[2]
Truncated(a) == IF a[1] >= 0 THEN Whole(a[1] \div a[2]) ELSE Neg(Whole((-a[1]) \div a[2]))
(* math.Mod: the remainder has the sign of the dividend.                   *)
Mod(a, b) == Plus(a, Neg(Times(b, Truncated(Over(a, b)))))

SameValue(x, y) == IF x.type = "float" /\ y.type = "float" THEN Same(x.num, y.num)
                   ELSE x = y

Arithmetic == {"+", "-", "*", "/", "%"}
Compute(op, a, b) == CASE op = "+" -> Num(Plus(a, b))
                       [] op = "-" -> Num(Plus(a, Neg(b)))
                       [] op = "*" -> Num(Times(a, b))
                       [] op \in {"/", "%"} ->
                            IF Same(b, Whole(0)) THEN Error("zero")
                            ELSE Num(IF op = "/" THEN Over(a, b) ELSE Mod(a, b))
Compare(op, a, b) == CASE op = "<" -> Less(a, b)
                       [] op = "<=" -> ~Less(b, a)
                       [] op = ">" -> Less(b, a)
                       [] op = ">=" -> ~Less(a, b)

(* Values of two types are different, which is no error; any other         *)
(* operator wants numbers.                                                 *)
evalBinaryOp(op, l, r) ==
  CASE op = "==" -> Bool(SameValue(l, r))
    [] op = "!=" -> Bool(~SameValue(l, r))
    [] op \notin {"==", "!="} ->
         IF l.type # "float" \/ r.type # "float" THEN Error("type")
         ELSE IF op \in Arithmetic THEN Compute(op, l.num, r.num)
         ELSE Bool(Compare(op, l.num, r.num))

evalUnary(op, x) ==
  IF x.type = "error" THEN x
  ELSE CASE op = "not" -> IF x.type = "bool" THEN Bool(~x.truth) ELSE Error("type")
         [] op = "-" -> IF x.type = "float" THEN Num(Neg(x.num)) ELSE Error("type")

(* Eval, in a space cs that has a value for each name of its domain.  A    *)
(* junction whose left side decides it does not look at the other.         *)
RECURSIVE Eval(_, _)
evalIdent(name, cs) == IF name \in DOMAIN cs THEN cs[name] ELSE Error("unresolved")
evalJunction(e, cs) ==
  LET l == Eval(e.left, cs) IN
  CASE l.type = "error" -> l
    [] l.type \notin {"error", "bool"} -> Error("type")
    [] l.type = "bool" ->
         IF l.truth = (e.op = "or") THEN l
         ELSE LET r == Eval(e.right, cs) IN
              IF r.type \in {"error", "bool"} THEN r ELSE Error("type")
evalBinary(e, cs) ==
  IF e.op \in {"and", "or"} THEN evalJunction(e, cs)
  ELSE LET l == Eval(e.left, cs) r == Eval(e.right, cs) IN
       IF l.type = "error" THEN l
       ELSE IF r.type = "error" THEN r ELSE evalBinaryOp(e.op, l, r)
Eval(e, cs) ==
  CASE e.k = "lit" -> e.value
    [] e.k = "ident" -> evalIdent(e.name, cs)
    [] e.k = "unary" -> evalUnary(e.op, Eval(e.of, cs))
    [] e.k = "binary" -> evalBinary(e, cs)

(* walkExpr: every name in the tree.                                       *)
RECURSIVE Names(_)
Names(e) == CASE e.k = "lit" -> {}
              [] e.k = "ident" -> {e.name}
              [] e.k = "unary" -> Names(e.of)
              [] e.k = "binary" -> Names(e.left) \cup Names(e.right)

-----------------------------------------------------------------------------
(* Tokens and back.  A token is an operator, a keyword or another mark     *)
(* (Sign), or a primary expression.                                        *)

Primary(e) == e.k \in {"lit", "ident"}
Sign(op) == [k |-> "op", op |-> op]
Level == <<{"or"}, {"and"}, {"==", "!=", "<", "<=", ">", ">="}, {"+", "-"}, {"*", "/", "%"}>>
precedence(op) == CHOOSE n \in DOMAIN Level : op \in Level[n]
Tightest == Len(Level) + 1

InParentheses(s) == <<Sign("(")>> \o s \o <<Sign(")")>>

(* The lexer takes "--" for a decrement wherever it stands.                *)
Negated(s) == IF Head(s) = Sign("-") THEN <<Sign("--")>> \o Tail(s)
              ELSE <<Sign("-")>> \o s

(* Fault: equal precedence on the right goes without parentheses.          *)
RightLimitLoose(op) == precedence(op)

RightLimit(op) == precedence(op) + 1

LiteralString(e) ==
  IF e.k = "lit" /\ e.value.type = "string" THEN Lit(Quoted(e.value)) ELSE e

(* exprString, already split into tokens.                                  *)
RECURSIVE exprString(_, _)
exprString(e, limit) ==
  CASE Primary(e) -> <<LiteralString(e)>>
    [] e.k = "unary" ->
         LET inner == exprString(e.of, Tightest) IN
         CASE e.op = "-" -> Negated(inner)
           [] e.op # "-" /\ limit > 0 -> InParentheses(<<Sign("not")>> \o inner)
           [] OTHER -> <<Sign("not")>> \o inner
    [] e.k = "binary" ->
         LET n == precedence(e.op)
             s == exprString(e.left, n) \o <<Sign(e.op)>>
                    \o exprString(e.right, RightLimit(e.op))
         IN IF n < limit THEN InParentheses(s) ELSE s

(* The parser's functions, one per level, and its loops: an expression and *)
(* the place after it, or a failure.                                       *)
Parsed(e, next) == [ok |-> TRUE, e |-> e, next |-> next]
Failed == [ok |-> FALSE]
IsSign(s, i, ops) == i \in DOMAIN s /\ s[i].k = "op" /\ s[i].op \in ops

RECURSIVE parseLevel(_, _, _), parseUnary(_, _), parseRest(_, _, _)
parsePrimary(s, i) ==
  IF IsSign(s, i, {"("})
  THEN LET inner == parseLevel(1, s, i + 1) IN
       IF inner.ok /\ IsSign(s, inner.next, {")"}) THEN Parsed(inner.e, inner.next + 1)
       ELSE Failed
  ELSE IF i \in DOMAIN s /\ Primary(s[i]) THEN Parsed(s[i], i + 1) ELSE Failed
parseUnary(s, i) ==
  IF IsSign(s, i, {"not", "-"})
  THEN LET inner == parseUnary(s, i + 1) IN
       IF inner.ok THEN Parsed(Unary(s[i].op, inner.e), inner.next) ELSE Failed
  ELSE parsePrimary(s, i)
parseRest(n, s, left) ==
  IF ~left.ok \/ ~IsSign(s, left.next, Level[n]) THEN left
  ELSE LET right == parseLevel(n + 1, s, left.next + 1) IN
       IF right.ok THEN parseRest(n, s, Parsed(Binary(s[left.next].op, left.e, right.e), right.next))
       ELSE Failed
parseLevel(n, s, i) ==
  IF n = Tightest THEN parseUnary(s, i) ELSE parseRest(n, s, parseLevel(n + 1, s, i))
parseExpr(s, i) == parseLevel(1, s, i)
=============================================================================
