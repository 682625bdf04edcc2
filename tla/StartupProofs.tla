---------------------------- MODULE StartupProofs ----------------------------
(***************************************************************************)
(* The two walks over the computed channels, for any declarations, any     *)
(* dependencies between them and any order in which the names are taken.   *)
(***************************************************************************)
EXTENDS ChannelLoader, TLAPS

-----------------------------------------------------------------------------
(* The walk both are made of.                                              *)

Frames == [name : DOMAIN computes, deps : SUBSET DOMAIN computes]

LEMMA Reading == \A c : Dependencies(c) \subseteq DOMAIN computes
BY DEF Dependencies

LEMMA TopOfStack ==
  ASSUME NEW S, NEW s \in Seq(S), s # <<>>
  PROVE  /\ Front(s) \in Seq(S) /\ Len(s) \in Nat \ {0} /\ Len(Front(s)) = Len(s) - 1
         /\ DOMAIN s = 1 .. Len(s) /\ DOMAIN Front(s) = 1 .. Len(s) - 1
         /\ \A i \in 1 .. Len(s) - 1 : Front(s)[i] = s[i]
         /\ Last(s) = s[Len(s)] /\ Last(s) \in S
<1>1. Len(s) \in Nat \ {0} /\ DOMAIN s = 1 .. Len(s)
  OBVIOUS
<1>2. Front(s) = SubSeq(s, 1, Len(s) - 1) /\ Last(s) = s[Len(s)]
  BY DEF Front, Last
<1> QED  BY <1>1, <1>2

LEMMA PushedOn ==
  ASSUME NEW S, NEW s \in Seq(S), NEW x \in S
  PROVE  /\ Append(s, x) \in Seq(S) /\ Len(Append(s, x)) = Len(s) + 1 /\ Len(s) \in Nat
         /\ DOMAIN Append(s, x) = 1 .. Len(s) + 1 /\ DOMAIN s = 1 .. Len(s)
         /\ \A i \in 1 .. Len(s) : Append(s, x)[i] = s[i]
         /\ Append(s, x)[Len(s) + 1] = x
OBVIOUS

(* A name that a call reads and another call is at is on a cycle: the one  *)
(* the calls between them go round.                                        *)
LEMMA StackLoops ==
  ASSUME Walking, stack # <<>>, NEW d \in Dependencies(Top.name) \cap OnStack
  PROVE  Cyclic
<1>1. stack \in Seq(Frames) /\ DOMAIN stack = 1 .. Len(stack) /\ Len(stack) \in Nat \ {0}
  BY TopOfStack DEF Walking, Frames
<1>n. \A i \in 1 .. Len(stack) : stack[i].name \in DOMAIN computes
  <2>1. \A i \in 1 .. Len(stack) : stack[i] \in Frames
    BY <1>1
  <2> QED  BY <2>1 DEF Frames
<1>2. Top = stack[Len(stack)]
  BY <1>1, TopOfStack DEF Top
<1>3. PICK k \in 1 .. Len(stack) : stack[k].name = d
  BY <1>1 DEF OnStack
<1> DEFINE S == {stack[i].name : i \in k .. Len(stack)}
<1>4. S \subseteq DOMAIN computes
  BY <1>n
<1>5. \A i \in k .. Len(stack) : Dependencies(stack[i].name) \cap S # {}
  <2> SUFFICES ASSUME NEW i \in k .. Len(stack)
               PROVE  \E c \in S : c \in Dependencies(stack[i].name)
    OBVIOUS
  <2>1. CASE i = Len(stack)
    <3>1. d \in S /\ d \in Dependencies(stack[i].name)
      BY <1>1, <1>2, <1>3, <2>1
    <3> QED  BY <3>1
  <2>2. CASE i < Len(stack)
    <3>1. i + 1 \in k .. Len(stack) /\ i \in DOMAIN stack
      BY <1>1, <2>2
    <3>2. stack[i + 1].name \in Dependencies(stack[i].name)
      BY <2>2, <3>1 DEF Walking
    <3> QED  BY <3>1, <3>2
  <2>3. i = Len(stack) \/ i < Len(stack)
    <3>1. Len(stack) \in Nat /\ k \in Nat
      BY <1>1
    <3> QED  BY <3>1
  <2> QED  BY <2>1, <2>2, <2>3
<1>6. d \in S
  BY <1>1, <1>3
<1>7. Looped(S)
  <2> SUFFICES S # {} /\ \A c \in S : Dependencies(c) \cap S # {}
    BY DEF Looped
  <2> QED  BY <1>5, <1>6
<1> QED  BY <1>4, <1>7 DEF Cyclic

(* The stack a visit finds, without the name it is about.                  *)
Below(name) == IF stack = <<>> THEN <<>>
               ELSE Append(Front(stack), [Top EXCEPT !.deps = @ \ {name}])

LEMMA FramesBelow ==
  ASSUME Walking, NEW name
  PROVE  /\ Below(name) \in Seq(Frames) /\ Len(Below(name)) = Len(stack)
         /\ Len(stack) \in Nat /\ DOMAIN stack = 1 .. Len(stack)
         /\ DOMAIN Below(name) = 1 .. Len(stack)
         /\ \A i \in 1 .. Len(stack) : /\ Below(name)[i].name = stack[i].name
                                       /\ stack[i].name \in DOMAIN computes
         /\ \A i \in 1 .. Len(stack) : i # Len(stack) => Below(name)[i].deps = stack[i].deps
         /\ stack # <<>> => Below(name)[Len(stack)].deps = Top.deps \ {name}
<1>1. stack \in Seq(Frames)
  BY DEF Walking, Frames
<1>2. \A i \in 1 .. Len(stack) : stack[i].name \in DOMAIN computes
  <2>1. \A i \in 1 .. Len(stack) : stack[i] \in Frames
    BY <1>1
  <2> QED  BY <2>1 DEF Frames
<1>3. CASE stack = <<>>
  BY <1>1, <1>3 DEF Below
<1>4. CASE stack # <<>>
  <2> DEFINE top == [Top EXCEPT !.deps = @ \ {name}]
  <2>1. /\ Front(stack) \in Seq(Frames) /\ Len(stack) \in Nat \ {0}
        /\ Len(Front(stack)) = Len(stack) - 1 /\ DOMAIN stack = 1 .. Len(stack)
        /\ \A i \in 1 .. Len(stack) - 1 : Front(stack)[i] = stack[i]
        /\ Top = stack[Len(stack)] /\ Top \in Frames
    BY <1>1, <1>4, TopOfStack DEF Top
  <2>2. top \in Frames /\ top.name = Top.name /\ top.deps = Top.deps \ {name}
    BY <2>1 DEF Frames
  <2>3. Below(name) = Append(Front(stack), top)
    BY <1>4 DEF Below
  <2> HIDE DEF top
  <2>4. /\ Below(name) \in Seq(Frames) /\ Len(Below(name)) = Len(stack)
        /\ DOMAIN Below(name) = 1 .. Len(stack)
        /\ \A i \in 1 .. Len(stack) - 1 : Below(name)[i] = stack[i]
        /\ Below(name)[Len(stack)] = top
    BY <2>1, <2>2, <2>3, PushedOn
  <2>5. \A i \in 1 .. Len(stack) : i = Len(stack) \/ i \in 1 .. Len(stack) - 1
    BY <2>1
  <2> QED  BY <1>2, <2>1, <2>2, <2>4, <2>5
<1> QED  BY <1>3, <1>4

(* A visit that begins, of a name no call is at, leaves what is done.      *)
LEMMA VisitWalks ==
  ASSUME Walking, NEW name \in DOMAIN computes, Calls(name), name \notin OnStack,
         visited' = visited \cup {name}, computes' = computes
  PROVE  /\ Walking' /\ Done' = Done
         /\ OnStack' = IF name \in visited THEN OnStack ELSE OnStack \cup {name}
<1> DEFINE below == Below(name)
           n == Len(stack)
<1>d. \A c : Dependencies(c)' = Dependencies(c)
  BY DEF Dependencies, extractChannelDeps
<1>1. /\ stack' = IF name \in visited THEN below ELSE Append(below, Frame(name))
      /\ stack # <<>> => name \in Top.deps
      /\ toVisit \ {name} \subseteq toVisit'
  <2>1. CASE stack = <<>>
    <3>1. Append(<<>>, Frame(name)) = <<Frame(name)>>
      OBVIOUS
    <3>2. below = <<>>
      BY <2>1 DEF Below
    <3> HIDE DEF below
    <3> QED  BY <2>1, <3>1, <3>2 DEF Calls
  <2>2. CASE stack # <<>>
    BY <2>2 DEF Calls, Below
  <2> QED  BY <2>1, <2>2
<1>2. /\ below \in Seq(Frames) /\ Len(below) = n /\ Len(stack) = n /\ n \in Nat
      /\ DOMAIN stack = 1 .. n /\ DOMAIN below = 1 .. n
      /\ \A i \in 1 .. n : below[i].name = stack[i].name /\ stack[i].name \in DOMAIN computes
      /\ \A i \in 1 .. n : i # n => below[i].deps = stack[i].deps
      /\ stack # <<>> => below[n].deps = Top.deps \ {name} /\ Top = stack[n]
      /\ n # 0 => stack # <<>>
  <2>1. stack \in Seq(Frames)
    BY DEF Walking, Frames
  <2>2. stack # <<>> => Top = stack[n]
    BY <2>1, TopOfStack DEF Top
  <2> QED  BY <2>1, <2>2, FramesBelow
<1> HIDE DEF below, n
<1>n. n \in Nat /\ (n # 0 => stack # <<>>)
  BY <1>2
<1>i. /\ \A i \in 1 .. n : (i < n => i + 1 \in 1 .. n) /\ (i = n => n # 0)
      /\ n # 0 => n \in 1 .. n
  BY <1>n
<1>3. Frame(name) \in Frames /\ Frame(name).name = name /\ Frame(name).deps = Dependencies(name)
  BY Reading DEF Frame, Frames
<1>w. /\ \A i, j \in 1 .. n : stack[i].name = stack[j].name => i = j
      /\ \A i \in 1 .. n :
           /\ stack[i].deps \subseteq Dependencies(stack[i].name)
           /\ \A d \in Dependencies(stack[i].name) \ stack[i].deps :
                d \in Done \/ (i < n /\ d = stack[i + 1].name)
           /\ i < n => stack[i + 1].name \in Dependencies(stack[i].name)
      /\ OnStack \subseteq visited /\ visited \subseteq DOMAIN computes
      /\ DOMAIN computes \ toVisit \subseteq visited
      /\ \A c \in Done : Dependencies(c) \subseteq Done
  <2>1. Len(stack) = n /\ DOMAIN stack = 1 .. n
    BY <1>2
  <2> QED  BY <2>1 DEF Walking
<1>o. OnStack = {stack[i].name : i \in 1 .. n} /\ \A i \in 1 .. n : stack[i].name # name
  BY <1>2 DEF OnStack
<1>v. visited' \subseteq DOMAIN computes' /\ DOMAIN computes' \ toVisit' \subseteq visited'
  BY <1>1, <1>w
(* What the lowered stack has of the old one.                              *)
<1>s. /\ \A i \in 1 .. n : below[i].deps \subseteq Dependencies(below[i].name)
      /\ \A i \in 1 .. n : \A d \in Dependencies(below[i].name) \ below[i].deps :
           d \in Done \/ (i < n /\ d = below[i + 1].name) \/ (i = n /\ d = name)
      /\ \A i \in 1 .. n : i < n => below[i + 1].name \in Dependencies(below[i].name)
      /\ \A i, j \in 1 .. n : below[i].name = below[j].name => i = j
      /\ n # 0 => name \in Dependencies(below[n].name)
  <2>1. \A i \in 1 .. n : below[i].deps \subseteq stack[i].deps
                          /\ stack[i].deps \subseteq below[i].deps \cup {name}
                          /\ (i # n => below[i].deps = stack[i].deps)
    BY <1>2, <1>n, <1>i
  <2>2. \A i \in 1 .. n : \A d \in Dependencies(below[i].name) \ below[i].deps :
           d \in Done \/ (i < n /\ d = below[i + 1].name) \/ (i = n /\ d = name)
    BY <1>2, <1>w, <1>i, <2>1
  <2> QED  BY <1>1, <1>2, <1>w, <1>n, <1>i, <2>1, <2>2
<1>4. CASE name \in visited
  <2>1. visited' = visited /\ stack' = below /\ Len(stack') = n /\ DOMAIN stack' = 1 .. n
    BY <1>1, <1>2, <1>4
  <2>2. OnStack' = OnStack
    BY <1>2, <1>o, <2>1 DEF OnStack
  <2>3. Done' = Done /\ name \in Done
    BY <1>4, <2>1, <2>2 DEF Done
  <2>4. stack' \in Seq(Frames)' /\ Frames' = Frames
    BY <1>2, <2>1 DEF Frames
  <2>5. \A i \in 1 .. n : \A d \in Dependencies(below[i].name) \ below[i].deps :
           d \in Done \/ (i < n /\ d = below[i + 1].name)
    BY <1>s, <2>3
  <2>6. Walking'
    BY <1>d, <1>w, <1>v, <1>s, <2>1, <2>2, <2>3, <2>4, <2>5 DEF Walking, Frames
  <2> QED  BY <1>4, <2>2, <2>3, <2>6
<1>5. CASE name \notin visited
  <2> DEFINE s == Append(below, Frame(name))
  <2>1. /\ stack' = s /\ s \in Seq(Frames) /\ Len(s) = n + 1 /\ DOMAIN s = 1 .. n + 1
        /\ \A i \in 1 .. n : s[i] = below[i]
        /\ s[n + 1] = Frame(name)
    BY <1>1, <1>2, <1>3, <1>5, PushedOn
  <2> HIDE DEF s
  <2>i. \A i \in 1 .. n + 1 : i = n + 1 \/ (i \in 1 .. n /\ (i < n => i + 1 \in 1 .. n)
                                            /\ (i = n \/ i < n))
    BY <1>2
  <2>2. OnStack' = OnStack \cup {name}
    <3>1. \A i \in 1 .. n + 1 : s[i].name \in OnStack \cup {name}
      BY <1>2, <1>3, <1>o, <2>1, <2>i
    <3>2. \A c \in OnStack : \E i \in 1 .. n + 1 : s[i].name = c
      <4>1. \A i \in 1 .. n : i \in 1 .. n + 1
        BY <1>2
      <4> QED  BY <1>2, <1>o, <2>1, <4>1
    <3>3. n + 1 \in 1 .. n + 1 /\ s[n + 1].name = name
      BY <1>2, <1>3, <2>1
    <3>4. OnStack' = {s[i].name : i \in 1 .. n + 1}
      BY <2>1 DEF OnStack
    <3> QED  BY <3>1, <3>2, <3>3, <3>4
  <2>3. Done' = Done
    BY <1>5, <1>w, <2>2 DEF Done
  <2>4. Frames' = Frames
    BY DEF Frames
  <2>5. \A i, j \in 1 .. n + 1 : s[i].name = s[j].name => i = j
    BY <1>2, <1>3, <1>o, <1>s, <2>1, <2>i
  <2>6. ASSUME NEW i \in 1 .. n + 1
        PROVE  /\ s[i].deps \subseteq Dependencies(s[i].name)
               /\ \A d \in Dependencies(s[i].name) \ s[i].deps :
                    d \in Done \/ (i < n + 1 /\ d = s[i + 1].name)
               /\ i < n + 1 => s[i + 1].name \in Dependencies(s[i].name)
    <3>1. CASE i = n + 1
      BY <1>2, <1>3, <2>1, <3>1
    <3>2. CASE i \in 1 .. n /\ i < n
      <4>1. s[i] = below[i] /\ s[i + 1] = below[i + 1] /\ i # n /\ i \in 1 .. n /\ i < n + 1
        BY <1>2, <2>1, <2>i, <3>2
      <4> QED  BY <1>s, <3>2, <4>1
    <3>3. CASE i \in 1 .. n /\ i = n
      <4>1. s[i] = below[n] /\ s[i + 1].name = name /\ n # 0 /\ ~(i < n) /\ i < n + 1 /\ n \in 1 .. n
        BY <1>2, <1>3, <2>1, <3>3
      <4> QED  BY <1>s, <3>3, <4>1
    <3> QED  BY <2>i, <3>1, <3>2, <3>3
  <2>7. OnStack' \subseteq visited'
    BY <1>w, <2>2
  <2>8. Walking'
    BY <1>d, <1>w, <1>v, <2>1, <2>3, <2>4, <2>5, <2>6, <2>7 DEF Walking, Frames
  <2> QED  BY <1>5, <2>2, <2>3, <2>8
<1> QED  BY <1>4, <1>5

(* A call that returns: its name is done, and so is all it reads.          *)
LEMMA ReturnWalks ==
  ASSUME Walking, stack # <<>>, Top.deps = {}, stack' = Front(stack),
         visited' = visited, computes' = computes, toVisit' = toVisit
  PROVE  /\ Walking' /\ OnStack' = OnStack \ {Top.name} /\ Done' = Done \cup {Top.name}
         /\ Top.name \in OnStack /\ Top.name \in DOMAIN computes
         /\ Dependencies(Top.name) \subseteq Done
<1> DEFINE n == Len(stack)
           name == Top.name
<1>d. \A c : Dependencies(c)' = Dependencies(c)
  BY DEF Dependencies, extractChannelDeps
<1>1. /\ stack' \in Seq(Frames) /\ n \in Nat \ {0} /\ Len(stack') = n - 1 /\ Len(stack) = n
      /\ DOMAIN stack = 1 .. n /\ DOMAIN stack' = 1 .. n - 1
      /\ \A i \in 1 .. n - 1 : stack'[i] = stack[i]
      /\ Top = stack[n] /\ Top \in Frames
  <2>1. stack \in Seq(Frames)
    BY DEF Walking, Frames
  <2> QED  BY <2>1, TopOfStack DEF Top
<1>2. /\ \A i, j \in 1 .. n : stack[i].name = stack[j].name => i = j
      /\ \A i \in 1 .. n :
           /\ stack[i].deps \subseteq Dependencies(stack[i].name)
           /\ \A d \in Dependencies(stack[i].name) \ stack[i].deps :
                d \in Done \/ (i < n /\ d = stack[i + 1].name)
           /\ i < n => stack[i + 1].name \in Dependencies(stack[i].name)
      /\ OnStack \subseteq visited /\ visited \subseteq DOMAIN computes
      /\ DOMAIN computes \ toVisit \subseteq visited
      /\ \A c \in Done : Dependencies(c) \subseteq Done
  <2>1. Len(stack) = n /\ DOMAIN stack = 1 .. n
    BY <1>1
  <2> QED  BY <2>1 DEF Walking
<1>3. name = stack[n].name /\ stack[n].deps = {} /\ name \in DOMAIN computes
  BY <1>1 DEF Frames
<1> HIDE DEF n, name
<1>i. /\ n \in 1 .. n /\ ~(n < n)
      /\ \A i \in 1 .. n - 1 : /\ i \in 1 .. n /\ i # n /\ i < n
                               /\ i + 1 = n \/ (i < n - 1 /\ i + 1 \in 1 .. n - 1)
                               /\ i < n - 1 => i + 1 \in 1 .. n - 1
      /\ \A i \in 1 .. n : i = n \/ i \in 1 .. n - 1
  <2>1. n \in Nat \ {0}
    BY <1>1
  <2> QED  BY <2>1
<1>4. name \in OnStack /\ OnStack' = OnStack \ {name}
  <2>1. OnStack = {stack[i].name : i \in 1 .. n} /\ OnStack' = {stack[i].name : i \in 1 .. n - 1}
    <3>1. OnStack' = {stack'[i].name : i \in 1 .. n - 1}
      BY <1>1 DEF OnStack
    <3> QED  BY <1>1, <3>1 DEF OnStack
  <2>2. \A i \in 1 .. n - 1 : stack[i].name # name
    BY <1>2, <1>3, <1>i
  <2> QED  BY <1>3, <1>i, <2>1, <2>2
<1>5. Done' = Done \cup {name}
  BY <1>2, <1>4 DEF Done
<1>6. Dependencies(name) \subseteq Done
  BY <1>2, <1>3, <1>i
<1>7. Walking'
  <2>1. Frames' = Frames
    BY DEF Frames
  <2>2. ASSUME NEW i \in 1 .. n - 1
        PROVE  /\ stack'[i].deps \subseteq Dependencies(stack'[i].name)
               /\ \A d \in Dependencies(stack'[i].name) \ stack'[i].deps :
                    d \in Done' \/ (i < n - 1 /\ d = stack'[i + 1].name)
               /\ i < n - 1 => stack'[i + 1].name \in Dependencies(stack'[i].name)
    <3>1. stack'[i] = stack[i] /\ i \in 1 .. n /\ i < n
      BY <1>1, <1>i
    <3>2. CASE i + 1 = n
      <4>1. ~(i < n - 1)
        <5>1. n \in Nat
          BY <1>1
        <5> QED  BY <3>2, <5>1
      <4> QED  BY <1>2, <1>3, <1>5, <3>1, <3>2, <4>1
    <3>3. CASE i < n - 1 /\ i + 1 \in 1 .. n - 1
      <4>1. stack'[i + 1] = stack[i + 1]
        BY <1>1, <3>3
      <4> QED  BY <1>2, <1>5, <3>1, <3>3, <4>1
    <3> QED  BY <1>i, <3>2, <3>3
  <2>3. \A i, j \in 1 .. n - 1 : stack'[i].name = stack'[j].name => i = j
    BY <1>1, <1>2, <1>i
  <2>4. \A c \in Done' : Dependencies(c) \subseteq Done'
    BY <1>2, <1>5, <1>6
  <2>5. OnStack' \subseteq visited' /\ visited' \subseteq DOMAIN computes'
        /\ DOMAIN computes' \ toVisit' \subseteq visited'
    BY <1>2, <1>4
  <2>6. DOMAIN stack' = 1 .. n - 1 /\ Len(stack') = n - 1
        /\ stack' \in Seq([name : DOMAIN computes', deps : SUBSET DOMAIN computes'])
    BY <1>1, <2>1 DEF Frames
  <2> QED  BY <1>d, <2>2, <2>3, <2>4, <2>5, <2>6 DEF Walking
<1> QED  BY <1>3, <1>4, <1>5, <1>6, <1>7 DEF name

(* A walk that begins, and one that is over.                               *)
LEMMA WalkStarts ==
  ASSUME WalkBegins
  PROVE  /\ Walking' /\ OnStack' = {} /\ Done' = {} /\ recStack' = {}
         /\ computes' = computes /\ computeOrder' = computeOrder
<1>1. stack' = <<>> /\ visited' = {} /\ toVisit' = DOMAIN computes' /\ recStack' = {}
      /\ computes' = computes /\ computeOrder' = computeOrder
  BY DEF WalkBegins
<1>2. stack' \in Seq(Frames)' /\ DOMAIN stack' = {}
  BY <1>1
<1>3. OnStack' = {} /\ Done' = {}
  BY <1>1, <1>2 DEF OnStack, Done
<1>4. Walking'
  BY <1>1, <1>2, <1>3 DEF Walking, Frames
<1> QED  BY <1>1, <1>3, <1>4

LEMMA WalkEnds ==
  ASSUME Walking, WalkOver
  PROVE  Done = DOMAIN computes
<1>1. stack = <<>> /\ DOMAIN computes \subseteq visited /\ visited \subseteq DOMAIN computes
  BY DEF Walking, WalkOver
<1>2. DOMAIN stack = {}
  BY <1>1
<1> QED  BY <1>1, <1>2 DEF Done, OnStack

LEMMA TopReads ==
  ASSUME Walking, stack # <<>>
  PROVE  Top.deps \subseteq Dependencies(Top.name)
<1>1. stack \in Seq(Frames)
  BY DEF Walking, Frames
<1>2. Top = stack[Len(stack)] /\ Len(stack) \in DOMAIN stack
  <2>1. Top = stack[Len(stack)] /\ DOMAIN stack = 1 .. Len(stack) /\ Len(stack) \in Nat \ {0}
    BY <1>1, TopOfStack DEF Top
  <2> QED  BY <2>1
<1> QED  BY <1>2 DEF Walking

-----------------------------------------------------------------------------
(* The order that the second walk makes.                                   *)

InOrder(s) == /\ s \in Seq(DOMAIN computes) /\ IsInjective(s)
              /\ \A i, j \in DOMAIN s : s[j] \in Dependencies(s[i]) => j < i

(* What is appended has all it reads before it, and is read by none of     *)
(* those: they were done before.                                           *)
LEMMA NextInOrder ==
  ASSUME NEW s, InOrder(s), NEW c \in DOMAIN computes, c \notin ToSet(s),
         \A d \in ToSet(s) : Dependencies(d) \subseteq ToSet(s), c \notin Dependencies(c)
  PROVE  InOrder(Append(s, c)) /\ ToSet(Append(s, c)) = ToSet(s) \cup {c}
<1> DEFINE t == Append(s, c)
           n == Len(s)
<1>1. /\ t \in Seq(DOMAIN computes) /\ DOMAIN t = 1 .. n + 1 /\ DOMAIN s = 1 .. n
      /\ n \in Nat /\ t[n + 1] = c /\ \A i \in 1 .. n : t[i] = s[i]
  BY PushedOn DEF InOrder
<1>2. ToSet(s) = {s[i] : i \in 1 .. n} /\ ToSet(t) = {t[i] : i \in 1 .. n + 1}
  BY <1>1 DEF ToSet
<1> HIDE DEF t, n
<1>i. /\ n + 1 \in 1 .. n + 1 /\ \A i \in 1 .. n : i \in 1 .. n + 1 /\ i < n + 1
      /\ \A i \in 1 .. n + 1 : i = n + 1 \/ i \in 1 .. n
  <2>1. n \in Nat
    BY <1>1
  <2> QED  BY <2>1
<1>3. ToSet(t) = ToSet(s) \cup {c}
  BY <1>1, <1>2, <1>i
<1>4. \A i \in 1 .. n : s[i] # c /\ c \notin Dependencies(s[i])
  BY <1>2
<1>5. \A i, j \in 1 .. n : s[i] = s[j] => i = j
  BY <1>1 DEF InOrder, IsInjective
<1>6. \A i, j \in 1 .. n + 1 : t[i] = t[j] => i = j
  BY <1>1, <1>4, <1>5, <1>i
<1>7. \A i, j \in 1 .. n + 1 : t[j] \in Dependencies(t[i]) => j < i
  BY <1>1, <1>4, <1>i DEF InOrder
<1> QED  BY <1>1, <1>3, <1>6, <1>7 DEF InOrder, IsInjective, t

LEMMA NoneLoopsToItself ==
  ASSUME ~Cyclic, NEW c \in DOMAIN computes
  PROVE  c \notin Dependencies(c)
<1>1. c \in Dependencies(c) => Looped({c})
  BY DEF Looped
<1> QED  BY <1>1 DEF Cyclic

LEMMA SameLoops ==
  ASSUME computes' = computes
  PROVE  /\ \A c : Dependencies(c)' = Dependencies(c) 
         /\ \A S : Looped(S)' = Looped(S)
         /\ Cyclic' = Cyclic
<1>1. \A c : Dependencies(c)' = Dependencies(c)
  BY DEF Dependencies, extractChannelDeps
<1>2. ASSUME NEW S PROVE Looped(S)' = Looped(S)
  BY <1>1, Zenon DEF Looped
<1> QED  BY <1>1, <1>2 DEF Cyclic

-----------------------------------------------------------------------------
(* Each step of LoadFromDir.                                               *)

Sorting == /\ Walking /\ InOrder(computeOrder) /\ ToSet(computeOrder) = Done

LEMMA LoadInvSorts ==
  ASSUME loading = "sort"
  PROVE  LoadInv <=> ~Cyclic /\ Sorting
BY Zenon DEF LoadInv, Sorting, InOrder

LEMMA LoadBegins ==
  ASSUME NEW decls, LoadInit(decls)
  PROVE  LoadInv
BY DEF LoadInit, LoadInv

LEMMA DeclaresOn ==
  ASSUME LoadInv, Declares \/ RefusesDuplicate
  PROVE  LoadInv'
BY DEF LoadInv, Declares, RefusesDuplicate, walkVars

LEMMA CyclesBegin ==
  ASSUME LoadInv, AllDeclared
  PROVE  LoadInv'
<1>1. loading' = "cycles" /\ computeOrder = <<>> /\ WalkBegins
  BY DEF LoadInv, AllDeclared
<1>2. Walking' /\ recStack' = OnStack' /\ computeOrder' = <<>> /\ Done' = {}
  BY <1>1, WalkStarts
<1>3. NoneLooped'
  BY <1>2 DEF NoneLooped
<1> QED  BY <1>1, <1>2, <1>3 DEF LoadInv

LEMMA CyclesVisit ==
  ASSUME LoadInv, NEW name \in DOMAIN computes, CycleVisits(name)
  PROVE  LoadInv'
<1>1. /\ loading = "cycles" /\ loading' = "cycles" /\ name \notin recStack /\ Calls(name)
      /\ visited' = visited \cup {name} /\ computes' = computes
      /\ computeOrder' = computeOrder
      /\ recStack' = IF name \in visited THEN recStack ELSE recStack \cup {name}
  BY DEF CycleVisits
<1>2. Walking /\ recStack = OnStack /\ NoneLooped /\ computeOrder = <<>>
  BY <1>1 DEF LoadInv
<1>3. /\ Walking' /\ Done' = Done
      /\ OnStack' = IF name \in visited THEN OnStack ELSE OnStack \cup {name}
  BY <1>1, <1>2, VisitWalks
<1>4. NoneLooped'
  BY <1>1, <1>2, <1>3, SameLoops DEF NoneLooped
<1> QED  BY <1>1, <1>2, <1>3, <1>4 DEF LoadInv

(* A cycle through the name that is done now would go through a name that  *)
(* was done already.                                                       *)
LEMMA CyclesReturn ==
  ASSUME LoadInv, CycleReturns
  PROVE  LoadInv'
<1>1. /\ loading = "cycles" /\ loading' = "cycles" /\ stack # <<>> /\ Top.deps = {}
      /\ stack' = Front(stack) /\ recStack' = recStack \ {Top.name}
      /\ visited' = visited /\ computes' = computes /\ toVisit' = toVisit
      /\ computeOrder' = computeOrder
  BY DEF CycleReturns
<1>2. Walking /\ recStack = OnStack /\ NoneLooped /\ computeOrder = <<>>
  BY <1>1 DEF LoadInv
<1>3. /\ Walking' /\ OnStack' = OnStack \ {Top.name} /\ Done' = Done \cup {Top.name}
      /\ Dependencies(Top.name) \subseteq Done
  BY <1>1, <1>2, ReturnWalks
<1>4. NoneLooped'
  <2>1. ASSUME NEW S \in SUBSET DOMAIN computes, Looped(S)
        PROVE  S \cap (Done \cup {Top.name}) = {}
    <3>1. S \cap Done = {}
      BY <1>2, <2>1 DEF NoneLooped
    <3>2. Top.name \notin S
      BY <1>3, <2>1, <3>1 DEF Looped
    <3> QED  BY <3>1, <3>2
  <2> QED  BY <1>1, <1>3, <2>1, SameLoops DEF NoneLooped
<1> QED  BY <1>1, <1>2, <1>3, <1>4 DEF LoadInv

LEMMA CycleFound ==
  ASSUME LoadInv, FindsCycle
  PROVE  LoadInv'
<1>1. /\ loading = "cycles" /\ loading' = "cycle" /\ stack # <<>>
      /\ Top.deps \cap recStack # {} /\ computes' = computes
  BY DEF FindsCycle
<1>2. Walking /\ recStack = OnStack
  BY <1>1 DEF LoadInv
<1>3. PICK d \in Top.deps : d \in OnStack
  BY <1>1, <1>2
<1>4. Cyclic
  BY <1>1, <1>2, <1>3, TopReads, StackLoops
<1> QED  BY <1>1, <1>4, SameLoops DEF LoadInv

LEMMA SortBegins ==
  ASSUME LoadInv, NoCycle
  PROVE  LoadInv'
<1>1. /\ loading = "cycles" /\ loading' = "sort" /\ WalkOver /\ WalkBegins
  BY DEF NoCycle
<1>2. Walking /\ NoneLooped /\ computeOrder = <<>>
  BY <1>1 DEF LoadInv
<1>3. ~Cyclic
  <2>1. Done = DOMAIN computes
    BY <1>1, <1>2, WalkEnds
  <2> QED  BY <1>2, <2>1 DEF Cyclic, NoneLooped, Looped
<1>4. Walking' /\ computeOrder' = <<>> /\ Done' = {} /\ computes' = computes
  BY <1>1, <1>2, WalkStarts
<1>5. InOrder(computeOrder)' /\ ToSet(computeOrder') = {}
  BY <1>4 DEF InOrder, IsInjective, ToSet
<1>6. ~Cyclic' /\ Sorting'
  BY <1>3, <1>4, <1>5, SameLoops DEF Sorting
<1> QED  BY <1>1, <1>6, Zenon DEF LoadInv, Sorting, InOrder

LEMMA SortVisitsOn ==
  ASSUME LoadInv, NEW name \in DOMAIN computes, SortVisits(name)
  PROVE  LoadInv'
<1>1. /\ loading = "sort" /\ loading' = "sort" /\ Calls(name)
      /\ visited' = visited \cup {name} /\ computes' = computes
      /\ computeOrder' = computeOrder
  BY DEF SortVisits
<1>2. ~Cyclic /\ Walking /\ InOrder(computeOrder) /\ ToSet(computeOrder) = Done
  BY <1>1, LoadInvSorts DEF Sorting
<1>3. name \notin OnStack
  <2>1. CASE stack = <<>>
    BY <2>1 DEF OnStack
  <2>2. CASE stack # <<>>
    <3>1. name \in Dependencies(Top.name)
      BY <1>1, <1>2, <2>2, TopReads DEF Calls
    <3> QED  BY <1>2, <2>2, <3>1, StackLoops
  <2> QED  BY <2>1, <2>2
<1>4. Walking' /\ Done' = Done
  BY <1>1, <1>2, <1>3, VisitWalks
<1>5. InOrder(computeOrder)' /\ ToSet(computeOrder') = Done'
  BY <1>1, <1>2, <1>4, SameLoops DEF InOrder
<1>6. ~Cyclic' /\ Sorting'
  BY <1>1, <1>2, <1>4, <1>5, SameLoops DEF Sorting
<1> QED  BY <1>1, <1>6, Zenon DEF LoadInv, Sorting, InOrder

LEMMA SortReturnsOn ==
  ASSUME LoadInv, SortReturns
  PROVE  LoadInv'
<1>1. /\ loading = "sort" /\ loading' = "sort" /\ stack # <<>> /\ Top.deps = {}
      /\ stack' = Front(stack) /\ computeOrder' = Append(computeOrder, Top.name)
      /\ visited' = visited /\ computes' = computes /\ toVisit' = toVisit
  BY DEF SortReturns
<1>2. ~Cyclic /\ Walking /\ InOrder(computeOrder) /\ ToSet(computeOrder) = Done
  BY <1>1, LoadInvSorts DEF Sorting
<1>3. /\ Walking' /\ Done' = Done \cup {Top.name}
      /\ Top.name \in OnStack /\ Top.name \in DOMAIN computes
  BY <1>1, <1>2, ReturnWalks
<1>4. Top.name \notin Dependencies(Top.name)
  BY <1>2, <1>3, NoneLoopsToItself
<1>5. /\ Top.name \notin ToSet(computeOrder)
      /\ \A d \in ToSet(computeOrder) : Dependencies(d) \subseteq ToSet(computeOrder)
  BY <1>2, <1>3 DEF Walking, Done
<1>6. /\ InOrder(Append(computeOrder, Top.name))
      /\ ToSet(Append(computeOrder, Top.name)) = Done'
  BY <1>2, <1>3, <1>4, <1>5, NextInOrder
<1>7. InOrder(computeOrder)' /\ ToSet(computeOrder') = Done'
  BY <1>1, <1>6, SameLoops DEF InOrder
<1>8. ~Cyclic' /\ Sorting'
  BY <1>1, <1>2, <1>3, <1>7, SameLoops DEF Sorting
<1> QED  BY <1>1, <1>8, Zenon DEF LoadInv, Sorting, InOrder

LEMMA SortEnds ==
  ASSUME LoadInv, Ready
  PROVE  LoadInv'
<1>1. /\ loading = "sort" /\ loading' = "loaded" /\ WalkOver
      /\ computes' = computes /\ computeOrder' = computeOrder
  BY DEF Ready, walkVars
<1>2. ~Cyclic /\ Walking /\ InOrder(computeOrder) /\ ToSet(computeOrder) = Done
  BY <1>1, LoadInvSorts DEF Sorting
<1>3. ToSet(computeOrder) = DOMAIN computes
  BY <1>1, <1>2, WalkEnds
<1>4. Ordered(computeOrder)' /\ ~Cyclic'
  BY <1>1, <1>2, <1>3, SameLoops DEF Ordered, InOrder
<1> QED  BY <1>1, <1>4 DEF LoadInv

LEMMA LoadStays ==
  ASSUME LoadInv, UNCHANGED loadVars
  PROVE  LoadInv'
<1>1. /\ loading' = loading /\ computes' = computes /\ visited' = visited
      /\ recStack' = recStack /\ stack' = stack /\ toVisit' = toVisit
      /\ computeOrder' = computeOrder
  BY DEF loadVars
<1>2. OnStack' = OnStack /\ Done' = Done
  BY <1>1 DEF OnStack, Done
<1>3. /\ Walking => Walking'
      /\ NoneLooped => NoneLooped'
      /\ Ordered(computeOrder) => Ordered(computeOrder)'
      /\ InOrder(computeOrder) => InOrder(computeOrder)'
  <2>1. Walking => Walking'
    BY <1>1, <1>2, SameLoops DEF Walking
  <2>2. NoneLooped => NoneLooped'
    BY <1>1, <1>2, SameLoops DEF NoneLooped
  <2>3. Ordered(computeOrder) => Ordered(computeOrder)'
    BY <1>1, SameLoops DEF Ordered
  <2>4. InOrder(computeOrder) => InOrder(computeOrder)'
    BY <1>1, SameLoops DEF InOrder
  <2> QED  BY <2>1, <2>2, <2>3, <2>4
<1>4. Cyclic' = Cyclic
  BY <1>1, SameLoops
<1>5. CASE loading = "sort"
  <2>1. ~Cyclic' /\ Sorting'
    BY <1>1, <1>2, <1>3, <1>4, <1>5, LoadInvSorts DEF Sorting
  <2> QED  BY <1>1, <1>5, <2>1, Zenon DEF LoadInv, Sorting, InOrder
<1>6. CASE loading # "sort"
  BY <1>1, <1>2, <1>3, <1>4, <1>6 DEF LoadInv
<1> QED  BY <1>5, <1>6

LEMMA LoadInvStep == LoadInv /\ [LoadNext]_loadVars => LoadInv'
<1> SUFFICES ASSUME LoadInv, [LoadNext]_loadVars  PROVE LoadInv'
  OBVIOUS
<1>1. CASE Declares \/ RefusesDuplicate
  BY <1>1, DeclaresOn
<1>2. CASE AllDeclared
  BY <1>2, CyclesBegin
<1>3. ASSUME NEW name \in DOMAIN computes, CycleVisits(name)  PROVE LoadInv'
  BY <1>3, CyclesVisit
<1>4. CASE CycleReturns
  BY <1>4, CyclesReturn
<1>5. CASE FindsCycle
  BY <1>5, CycleFound
<1>6. CASE NoCycle
  BY <1>6, SortBegins
<1>7. ASSUME NEW name \in DOMAIN computes, SortVisits(name)  PROVE LoadInv'
  BY <1>7, SortVisitsOn
<1>8. CASE SortReturns
  BY <1>8, SortReturnsOn
<1>9. CASE Ready
  BY <1>9, SortEnds
<1>10. CASE UNCHANGED loadVars
  BY <1>10, LoadStays
<1> QED  BY <1>1, <1>2, <1>3, <1>4, <1>5, <1>6, <1>7, <1>8, <1>9, <1>10 DEF LoadNext

(* LoadFromDir refuses a configuration for a cycle only if its computed    *)
(* channels have one, and no other gets past detectCycles; the order that  *)
(* topologicalSort then returns lists each computed channel once and after *)
(* all those it reads: for any declarations, any names in their            *)
(* expressions, and any order in which Go ranges over its maps.            *)
THEOREM OrderFound ==
  ASSUME NEW decls
  PROVE  LoadSpec(decls) => []LoadsInOrder
<1>1. LoadInit(decls) => LoadInv
  BY LoadBegins
<1>2. LoadInv => LoadsInOrder
  BY DEF LoadInv, LoadsInOrder
<1> QED  BY <1>1, <1>2, LoadInvStep, PTL DEF LoadSpec
=============================================================================
