----------------------------- MODULE MCStartup -----------------------------
(***************************************************************************)
(* Families of small configurations for Startup; each exercises one part   *)
(* of the start and leaves the others empty.                               *)
(***************************************************************************)
EXTENDS StartupProperties

Subject(d, f, c) == [decls |-> d, files |-> f, channels |-> c]
Channel(name, compute) == [name |-> name, compute |-> compute]
W(n) == Lit(Num(Whole(n)))
Yes == Lit(Bool(TRUE))

(* Three channels, each declared or computed from any of them.             *)
SumOf(names) == FoldSet(LAMBDA n, e : Binary("+", Ident(n), e), Ident("PT"), names)
Computes == {NoExpr} \cup {SumOf(S) : S \in SUBSET {"a", "b", "c"}}
Graphs ==
  {Subject(<<Channel("a", x), Channel("b", y), Channel("c", z)>>, <<>>, <<>>)
     : x, y, z \in Computes}
  \cup {Subject(<<Channel("a", x), Channel("a", y)>>, <<>>, <<>>) : x, y \in Computes}

(* Every expression of depth two over these operators.                     *)
Leaves == {Ident("a"), W(1)}
Over_(S) == {Unary(op, e) : op \in {"-", "not"}, e \in S}
            \cup {Binary(op, l, r) : op \in {"and", "<", "-"}, l, r \in S}
Trees == Over_(Leaves \cup Over_(Leaves))
Strings == {Lit(Text("s")), Lit(WithEscape("s"))}
PageOf(e) == Subject(<<Channel("x", e)>>, <<>>, <<>>)
Labels == {PageOf(e) : e \in Over_({Ident("a")} \cup Strings)}
Pages == {PageOf(e) : e \in Trees} \cup Labels

(* Files that differ in three lines of a block.                            *)
Lines_ == {<<Sign("if"), Ident("PT"), Sign("<"), W(1)>>,
           <<Sign("elif"), MachineState("n"), Sign("=="), Lit(Text("run"))>>,
           <<Sign("else")>>,
           <<Ident("V"), Sign("++")>>,
           <<Ident("V"), Sign("="), Qualified("n", "temp")>>,
           <<Sign("elif"), Qualified("lost", "temp"), Sign("=="), Lit(WithEscape("run"))>>,
           <<Sign("transition"), Ident("off")>>,
           <<Sign("sleep"), Ident("PT")>>,
           <<Sign("command"), Ident("n"), Sign("->"), Ident("run")>>,
           <<Sign("wait_until"), Yes, Sign("timeout"), W(1), Sign("->"), Ident("off")>>,
           <<Sign("wait_until"), Ident("SM-n-STATE"), Sign(">"), W(0), Sign("timeout"), W(1)>>}

Other == <<Line(0, <<Sign("machine"), Ident("n")>>),
           Line(2, <<Sign("state"), Ident("run")>>), Line(4, <<Sign("operator")>>)>>
Around(where, block) ==
  <<Line(0, <<Sign("machine"), Ident("m")>>),
    Line(2, <<Sign("state"), Ident("off")>>),
    Line(2, <<Sign("state"), Ident("armed")>>),
    Line(4, <<Sign("operator"), Ident("from"), Ident("off")>>),
    Line(4, where)>> \o block
Blocks == {<<Line(6, x), Line(i, y), Line(j, z)>> :
             x, y, z \in Lines_, i, j \in {6, 8}}
Nested == {<<Line(6, <<Sign("if"), Yes>>), Line(8, <<Ident("V"), Sign("++")>>),
             Line(6, x), Line(8, y), Line(i, z)>> :
             x \in {<<Sign("elif"), Yes>>, <<Sign("else")>>}, y, z \in Lines_, i \in {6, 8}}
          \cup {<<Line(6, <<Sign("if"), Yes>>), Line(8, x), Line(10, y)>> :
                  x \in {<<Sign("elif"), Yes>>, <<Sign("else")>>}, y \in Lines_}
Sources == {Subject(<<>>, <<Around(<<Sign(w)>>, b), Other>>, <<>>) :
              w \in {"controller", "sequence"}, b \in Blocks \cup Nested}

(* Files that only the checks of the whole program tell apart.             *)
Gated(gate) ==
  <<Line(0, <<Sign("machine"), Ident("m")>>), Line(2, <<Sign("state"), Ident("off")>>),
    Line(4, <<Sign("operator"), Ident("from")>> \o gate),
    Line(2, <<Sign("state"), Ident("armed")>>)>>
Comma == <<Sign(",")>>
Gates == {Subject(<<>>, <<Gated(g), Other>>, <<>>) :
            g \in {<<Ident("armed")>>, <<Ident("off")>>, <<Ident("run")>>,
                   <<Ident("armed")>> \o Comma \o <<Ident("armed")>>, <<Ident("armed")>> \o Comma}}
         \cup {Subject(<<>>, <<Gated(<<Ident("armed")>>), f>>, <<>>) :
                 f \in {Gated(<<Ident("armed")>>), Append(Other, Line(3, <<Sign("sequence")>>))}}

(* A state on a DAQ node, its sequence one of several.                     *)
OneMinus(e) == Binary("-", W(1), e)
NodeStmts == {Assign("V", Ident("PT")), Assign("V", OneMinus(Ident("T"))), Assign("V", Yes),
              Assign("V", Binary("/", W(1), Ident("T"))), Sleep(Ident("T")),
              Sleep(OneMinus(Ident("T"))), Sleep(W(1)), Assign("V", Ident("LOST")),
              Assign("V", Binary("*", Ident("T"), Ident("T")))}
OnNode(seq, rules) ==
  <<Line(0, <<Sign("machine"), Ident("m")>>), Line(2, <<Sign("state"), Ident("off")>>),
    Line(2, <<Sign("state"), Ident("burn")>>), Line(4, <<Sign("daq_local"), Ident("N")>>),
    Line(4, <<Sign("sequence")>>)>> \o StmtLines(seq, 5)
    \o <<Line(4, <<Sign("abort_sequence")>>)>>
    \o StmtLines(<<Sleep(Ident("T")), Assign("V", W(0)), Transition("off")>>, 5)
    \o rules
ArmedRule == Line(4, <<Sign("abort_rule"), Ident("PT"), Sign(">"), Ident("T"), Ident("from"),
                       W(0), Ident("to"), Ident("T")>>)
WatchesLost == [ArmedRule EXCEPT !.tokens[2] = Ident("GONE")]
ReadsLost == [ArmedRule EXCEPT !.tokens[4] = Ident("GONE")]
Readings == {("T" :> Whole(t)) @@ ("PT" :> Whole(3)) : t \in {0, 1, 2}}
Bursts == {Subject(<<>>, <<OnNode(<<Sleep(W(1)), x, y, Transition("off")>>, r)>>, chs) :
             x, y \in NodeStmts, r \in {<<>>, <<ArmedRule>>}, chs \in Readings}

Watches == {Subject(<<>>, <<OnNode(<<Sleep(W(1)), Transition("off")>>, <<r>>)>>,
                    CHOOSE chs \in Readings : TRUE)
              : r \in {ArmedRule, WatchesLost, ReadsLost}}

AllSubjects == Graphs \cup Pages \cup Sources \cup Gates \cup Bursts \cup Watches
HardwareNames == {"PT", "V", "T", "LOST", "a"}
Settings == {Whole(2)}
=============================================================================
