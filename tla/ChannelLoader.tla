---------------------------- MODULE ChannelLoader ---------------------------
(***************************************************************************)
(* LoadFromDir (package softchan, dsl_loader.go): the channels of the      *)
(* .chan files, and the order in which the computed ones are evaluated.    *)
(* Both walks over their dependencies are recursive and take the names of  *)
(* a map in an order that differs from one run to the next: here a walk is *)
(* a stack of the channels being visited, each with the names it has still *)
(* to go to, and a step takes any of them.                                 *)
(*                                                                         *)
(* A declaration is a name and its expression, NoCompute if it is not      *)
(* computed.  Of an expression only the names in it matter here: Names of  *)
(* module Expressions is what the program has for NamesIn.  The values a   *)
(* channel starts with are in SoftStore.                                   *)
(***************************************************************************)
EXTENDS Integers, SequencesExt

CONSTANTS
  NoCompute,   \* in place of the expression of a channel that has none
  NamesIn(_)   \* walkExpr: the names an expression mentions

VARIABLES
  loading,    \* "declare", "cycles", "sort" or "loaded", and "duplicate" or
              \* "cycle" if LoadFromDir has returned that error
  declared,   \* the declarations still to be read, of all files in order
  defs,       \* allDefs: the names that are not computed
  computes,   \* allComputeDefs: [name -> expression]
  visited, recStack,  \* of detectCycles; visited of topologicalSort too
  stack,      \* the calls of visit that have not returned
  toVisit,    \* the names the outer loop has still to come to
  computeOrder

loadVars == <<loading, declared, defs, computes, visited, recStack, stack, toVisit, computeOrder>>
walkVars == <<visited, recStack, stack, toVisit, computeOrder>>

LoadInit(decls) ==
  /\ loading = "declare" /\ declared = decls /\ defs = {} /\ computes = <<>>
  /\ visited = {} /\ recStack = {} /\ stack = <<>> /\ toVisit = {}
  /\ computeOrder = <<>>

(* loadChanFile.                                                           *)
Duplicate == Head(declared).name \in defs \cup DOMAIN computes

Declares ==
  /\ loading = "declare" /\ declared # <<>> /\ ~Duplicate
  /\ declared' = Tail(declared)
  /\ LET d == Head(declared) IN
     IF d.compute = NoCompute
     THEN defs' = defs \cup {d.name} /\ UNCHANGED computes
     ELSE computes' = computes @@ (d.name :> d.compute) /\ UNCHANGED defs
  /\ UNCHANGED <<loading, walkVars>>

RefusesDuplicate ==
  /\ loading = "declare" /\ declared # <<>> /\ Duplicate
  /\ loading' = "duplicate"
  /\ UNCHANGED <<declared, defs, computes, walkVars>>

(* extractChannelDeps, and the test both walks make of each.               *)
extractChannelDeps(name) == NamesIn(computes[name])
Dependencies(name) == extractChannelDeps(name) \cap DOMAIN computes

WalkBegins ==
  /\ visited' = {} /\ recStack' = {} /\ stack' = <<>> /\ toVisit' = DOMAIN computes
  /\ UNCHANGED <<declared, defs, computes, computeOrder>>
WalkOver == stack = <<>> /\ toVisit = {}

AllDeclared ==
  /\ loading = "declare" /\ declared = <<>> /\ loading' = "cycles"
  /\ WalkBegins

Frame(name) == [name |-> name, deps |-> Dependencies(name)]
Top == Last(stack)

(* visit(name), called from the loop or from the visit on top.             *)
Calls(name) ==
  \/ /\ stack = <<>> /\ name \in toVisit /\ toVisit' = toVisit \ {name}
     /\ stack' = IF name \in visited THEN stack ELSE <<Frame(name)>>
  \/ /\ stack # <<>> /\ name \in Top.deps /\ UNCHANGED toVisit
     /\ LET below == Append(Front(stack), [Top EXCEPT !.deps = @ \ {name}]) IN
        stack' = IF name \in visited THEN below ELSE Append(below, Frame(name))

(* detectCycles.                                                           *)
FindsCycle ==
  /\ loading = "cycles" /\ stack # <<>> /\ Top.deps \cap recStack # {}
  /\ loading' = "cycle"
  /\ UNCHANGED <<declared, defs, computes, walkVars>>

CycleVisits(name) ==
  /\ loading = "cycles" /\ name \notin recStack /\ Calls(name)
  /\ visited' = visited \cup {name}
  /\ recStack' = IF name \in visited THEN recStack ELSE recStack \cup {name}
  /\ UNCHANGED <<loading, declared, defs, computes, computeOrder>>

CycleReturns ==
  /\ loading = "cycles" /\ stack # <<>> /\ Top.deps = {}
  /\ stack' = Front(stack) /\ recStack' = recStack \ {Top.name}
  /\ UNCHANGED <<loading, declared, defs, computes, visited, toVisit, computeOrder>>

NoCycle == loading = "cycles" /\ WalkOver /\ loading' = "sort" /\ WalkBegins

(* topologicalSort.                                                        *)
SortVisits(name) ==
  /\ loading = "sort" /\ Calls(name)
  /\ visited' = visited \cup {name}
  /\ UNCHANGED <<loading, declared, defs, computes, recStack, computeOrder>>

(* Fault: the name goes before the ones it reads.                          *)
SortReturnsReversed ==
  /\ loading = "sort" /\ stack # <<>> /\ Top.deps = {}
  /\ stack' = Front(stack) /\ computeOrder' = <<Top.name>> \o computeOrder
  /\ UNCHANGED <<loading, declared, defs, computes, visited, recStack, toVisit>>

SortReturns ==
  /\ loading = "sort" /\ stack # <<>> /\ Top.deps = {}
  /\ stack' = Front(stack) /\ computeOrder' = Append(computeOrder, Top.name)
  /\ UNCHANGED <<loading, declared, defs, computes, visited, recStack, toVisit>>

Ready ==
  /\ loading = "sort" /\ WalkOver /\ loading' = "loaded"
  /\ UNCHANGED <<declared, defs, computes, walkVars>>

LoadNext ==
  \/ Declares \/ RefusesDuplicate \/ AllDeclared
  \/ (\E name \in DOMAIN computes : CycleVisits(name)) \/ CycleReturns
  \/ FindsCycle \/ NoCycle
  \/ (\E name \in DOMAIN computes : SortVisits(name)) \/ SortReturns \/ Ready

LoadSpec(decls) == LoadInit(decls) /\ [][LoadNext]_loadVars

-----------------------------------------------------------------------------
(* What the two walks are for, without a walk.                             *)
Looped(S) == S # {} /\ \A c \in S : Dependencies(c) \cap S # {}
Cyclic == \E S \in SUBSET DOMAIN computes : Looped(S)
Ordered(s) ==
  /\ ToSet(s) = DOMAIN computes /\ IsInjective(s)
  /\ \A i, j \in DOMAIN s : s[j] \in Dependencies(s[i]) => j < i

(* A configuration is refused for a cycle only if its computed channels    *)
(* have one, and gets past that check only if they have none; its sorted   *)
(* order then lists each of them once, after those it reads, whatever the  *)
(* order in which the two walks took the names.                            *)
LoadsInOrder ==
  /\ loading = "cycle" => Cyclic
  /\ loading \in {"sort", "loaded"} => ~Cyclic
  /\ loading = "loaded" => Ordered(computeOrder)

-----------------------------------------------------------------------------
(* What that rests on.                                                     *)

(* The stack is a path of names, each of which the one below it reads; a   *)
(* name that a call on the stack has nothing more to do with was done, or  *)
(* is the call above.  What is done is closed under what it reads.         *)
OnStack == {stack[i].name : i \in DOMAIN stack}
Done == visited \ OnStack
Walking ==
  /\ stack \in Seq([name : DOMAIN computes, deps : SUBSET DOMAIN computes])
  /\ \A i, j \in DOMAIN stack : stack[i].name = stack[j].name => i = j
  /\ \A i \in DOMAIN stack :
       /\ stack[i].deps \subseteq Dependencies(stack[i].name)
       /\ \A d \in Dependencies(stack[i].name) \ stack[i].deps :
            d \in Done \/ (i < Len(stack) /\ d = stack[i + 1].name)
       /\ i < Len(stack) => stack[i + 1].name \in Dependencies(stack[i].name)
  /\ OnStack \subseteq visited
  /\ visited \subseteq DOMAIN computes
  /\ DOMAIN computes \ toVisit \subseteq visited
  /\ \A c \in Done : Dependencies(c) \subseteq Done

(* No name that is done is on a cycle, or leads to one.                    *)
NoneLooped == \A S \in SUBSET DOMAIN computes : Looped(S) => S \cap Done = {}

LoadInv ==
  /\ loading \in {"declare", "duplicate", "cycles", "cycle", "sort", "loaded"}
  /\ loading \in {"declare", "cycles"} => computeOrder = <<>>
  /\ loading = "cycles" => Walking /\ recStack = OnStack /\ NoneLooped
  /\ loading = "cycle" => Cyclic
  /\ loading \in {"sort", "loaded"} => ~Cyclic
  /\ loading = "sort" => /\ Walking /\ computeOrder \in Seq(DOMAIN computes)
                        /\ ToSet(computeOrder) = Done /\ IsInjective(computeOrder)
                        /\ \A i, j \in DOMAIN computeOrder :
                             computeOrder[j] \in Dependencies(computeOrder[i]) => j < i
  /\ loading = "loaded" => Ordered(computeOrder)
=============================================================================
