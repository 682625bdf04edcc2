----------------------------- MODULE DaqPayload -----------------------------
(***************************************************************************)
(* resolveDaqLocalState (package statemachine, daqlocal.go): the schedule  *)
(* a daq_local state sends to its node, computed from the channels as the  *)
(* machine enters the state.  Each name is read from the live channels     *)
(* when the walk comes to it, so the values of one schedule need not be    *)
(* those of one instant.                                                   *)
(*                                                                         *)
(* Times are exact here: roundSeconds only removes what floating point     *)
(* adds, and the factor to milliseconds is left out.                       *)
(***************************************************************************)
EXTENDS Compiler

VARIABLES
  channels,  \* the channels that have a value: [name -> number]
  todo,      \* the statements and the rules' expressions still to resolve
  elapsed,   \* tSec
  payload,   \* the steps so far: [at, refDes, value], refDes "" for a rule's
             \* number, whose "at" is its place among them
  sending    \* "idle", "resolve", "sent" or "refused"

payloadVars == <<channels, todo, elapsed, payload, sending>>

Zero == Whole(0)
PayloadInit(chs) ==
  /\ channels = chs /\ todo = <<>> /\ elapsed = Zero /\ payload = <<>>
  /\ sending = "idle"

(* What is resolved, in this order: the sequence, the abort sequence,      *)
(* whose time begins again at zero, the numbers of the rules.              *)
Rewind == [op |-> "rewind"]
Number(e) == [op |-> "number", value |-> e]
RuleNumbers(r) == <<Number(r.value), Number(r.from), Number(r.to)>>
Items(st) ==
  Body(st.sequence) \o <<Rewind>> \o Body(st.abortSequence)
    \o FlattenSeq([i \in DOMAIN st.rules |-> RuleNumbers(st.rules[i])])

ResolveBegins(st) ==
  /\ sending = "idle" /\ sending' = "resolve"
  /\ todo' = Items(st) /\ elapsed' = Zero /\ payload' = <<>>
  /\ UNCHANGED channels

Current == Head(todo)
Expr(item) == IF item.op = "sleep" THEN item.for ELSE item.value
WithExpr(item, e) == IF item.op = "sleep" THEN [item EXCEPT !.for = e]
                     ELSE [item EXCEPT !.value = e]

(* resolveExpr reads the leftmost name first.                              *)
RECURSIVE Leftmost(_), ReadAs(_, _)
Leftmost(e) == CASE e.k = "ident" -> e.name
                 [] e.k = "unary" -> Leftmost(e.of)
                 [] e.k = "binary" ->
                      IF Names(e.left) # {} THEN Leftmost(e.left) ELSE Leftmost(e.right)
ReadAs(e, v) ==
  CASE e.k = "ident" -> Lit(Num(v))
    [] e.k = "unary" -> [e EXCEPT !.of = ReadAs(@, v)]
    [] e.k = "binary" -> IF Names(e.left) # {} THEN [e EXCEPT !.left = ReadAs(@, v)]
                         ELSE [e EXCEPT !.right = ReadAs(@, v)]

(* The rest of resolveExpr: a number or an error.  A boolean counts as 1   *)
(* or 0 wherever it stands.                                                *)
RECURSIVE resolveExpr(_)
literalNumber(v) == CASE v.type = "float" -> v
                      [] v.type = "bool" -> Num(Whole(IF v.truth THEN 1 ELSE 0))
                      [] OTHER -> Error("type")
resolveExpr(e) ==
  CASE e.k = "lit" -> literalNumber(e.value)
    [] e.k = "unary" -> evalUnary("-", resolveExpr(e.of))
    [] e.k = "binary" ->
         LET l == resolveExpr(e.left) r == resolveExpr(e.right) IN
         IF "error" \in {l.type, r.type} THEN Error("operand") ELSE Compute(e.op, l.num, r.num)

Resolving == sending = "resolve" /\ todo # <<>>
Grounded == Names(Expr(Current)) = {}
Value == resolveExpr(Expr(Current))

Reads ==
  /\ Resolving /\ Current # Rewind /\ ~Grounded
  /\ LET name == Leftmost(Expr(Current)) IN
     /\ name \in DOMAIN channels
     /\ todo' = <<WithExpr(Current, ReadAs(Expr(Current), channels[name]))>> \o Tail(todo)
  /\ UNCHANGED <<channels, elapsed, payload, sending>>

(* Fault: a sleep sets the time.                                           *)
LaterAbsolute(v) == v

Later(v) == Plus(elapsed, v)

Sleeps ==
  /\ Resolving /\ Current.op = "sleep" /\ Grounded
  /\ Value.type = "float" /\ ~Less(Value.num, Zero)
  /\ elapsed' = Later(Value.num) /\ todo' = Tail(todo)
  /\ UNCHANGED <<channels, payload, sending>>

SetPoint(at, refDes, value) == [at |-> at, refDes |-> refDes, value |-> value]

Emits ==
  /\ Resolving /\ Current.op \in {"assign", "number"} /\ Grounded
  /\ Value.type = "float"
  /\ payload' = Append(payload, IF Current.op = "number" THEN SetPoint(Zero, "", Value.num)
                                ELSE SetPoint(elapsed, Current.target, Value.num))
  /\ todo' = Tail(todo)
  /\ UNCHANGED <<channels, elapsed, sending>>

Rewinds ==
  /\ Resolving /\ Current = Rewind
  /\ payload' = Append(payload, SetPoint(Zero, "exit", Zero))
  /\ elapsed' = Zero /\ todo' = Tail(todo)
  /\ UNCHANGED <<channels, sending>>

(* A name without a value, an error, a negative sleep: nothing is sent.    *)
Unusable ==
  IF Grounded THEN \/ Value.type = "error"
                   \/ Current.op = "sleep" /\ Less(Value.num, Zero)
  ELSE Leftmost(Expr(Current)) \notin DOMAIN channels

Refuses ==
  /\ Resolving /\ Current # Rewind /\ Unusable
  /\ sending' = "refused" /\ todo' = <<>>
  /\ UNCHANGED <<channels, elapsed, payload>>

Sends ==
  /\ sending = "resolve" /\ todo = <<>>
  /\ sending' = "sent"
  /\ UNCHANGED <<channels, todo, elapsed, payload>>

Resolves == Reads \/ Sleeps \/ Emits \/ Rewinds \/ Refuses \/ Sends

(* A channel that the walk reads is set meanwhile.                         *)
Changes(name, v) ==
  /\ channels' = [channels EXCEPT ![name] = v]
  /\ UNCHANGED <<todo, elapsed, payload, sending>>
=============================================================================
