---------------------------- MODULE DaqLinkProofs ----------------------------
(***************************************************************************)
(* The link to a DAQ node, for every program, every number of connections  *)
(* and every queue capacity: the engine in it is the engine of module      *)
(* Engine, so what is proved of that engine holds here; no state_update    *)
(* reaches the node on a later connection than the one that accepted it; a *)
(* machine whose node is in an unknown state is owed an abort; no machine  *)
(* waits for nothing; and a completion is of an entry the node has ended.  *)
(***************************************************************************)
EXTENDS DaqLink, EngineRequestProofs

-----------------------------------------------------------------------------
(* The machines the client has still to tell are machines.                 *)
HandlingOK(h) ==
  h # NoMessage => \E x : \E l \in Seq(Machines) : h = [msg |-> x, left |-> l]
TodoInv == todo \in Seq(Machines) /\ HandlingOK(handling)

LEMMA OrderType == Order \in Seq(Machines)
BY EngineAssumption

LEMMA Unhandled ==
  ASSUME HandlingOK(handling), handling # NoMessage, handling.left # <<>>
  PROVE  /\ Head(handling.left) \in Machines
         /\ HandlingOK([handling EXCEPT !.left = Tail(@)])
<1>1. PICK x : \E l \in Seq(Machines) : handling = [msg |-> x, left |-> l]
  BY DEF HandlingOK
<1>2. PICK l \in Seq(Machines) : handling = [msg |-> x, left |-> l]
  BY <1>1
<1>3. handling.left = l
  BY <1>2
<1>4. Head(l) \in Machines /\ Tail(l) \in Seq(Machines)
  BY <1>3
<1>5. [handling EXCEPT !.left = Tail(@)] = [msg |-> x, left |-> Tail(l)]
  BY <1>2
<1> QED  BY <1>3, <1>4, <1>5 DEF HandlingOK

LEMMA TodoInit == LinkInit => TodoInv
BY DEF LinkInit, ClientInit, TodoInv, HandlingOK

LEMMA TodoNext == TodoInv /\ [LinkNext]_linkVars => TodoInv'
<1> SUFFICES ASSUME TodoInv, [LinkNext]_linkVars PROVE TodoInv'
  OBVIOUS
<1>1. ASSUME UNCHANGED <<todo, handling>> PROVE TodoInv'
  BY <1>1 DEF TodoInv, HandlingOK
<1>2. CASE HandshakeDone
  BY <1>2, OrderType DEF HandshakeDone, TodoInv, HandlingOK
<1>3. CASE NotifyMachines
  BY <1>3 DEF NotifyMachines, postConnectStable, TodoInv, HandlingOK
<1>4. CASE Read
  <2>1. handling' = [msg |-> Head(toControl), left |-> Order] /\ UNCHANGED todo
    BY <1>4 DEF Read
  <2> QED  BY <2>1, OrderType DEF TodoInv, HandlingOK
<1>5. CASE Handle
  <2>1. UNCHANGED todo /\ handling # NoMessage
    BY <1>5 DEF Handle
  <2>2. CASE handling.left = <<>>
    BY <1>5, <2>1, <2>2 DEF Handle, TodoInv, HandlingOK
  <2>3. CASE handling.left # <<>>
    <3>1. handling' = [handling EXCEPT !.left = Tail(@)]
      BY <1>5, <2>3 DEF Handle
    <3> QED  BY <2>1, <2>3, <3>1, Unhandled DEF TodoInv
  <2> QED  BY <2>2, <2>3
<1>6. CASE EngineStep \/ Connect \/ (NodeNext /\ UNCHANGED <<vars, clientVars>>)
           \/ (LinkBreaks /\ UNCHANGED <<vars, clientVars, nodeVars>>)
           \/ UNCHANGED linkVars
  BY <1>1, <1>6 DEF EngineStep, Connect, Dial, linkVars, clientVars
<1>7. CASE \E s \in Senders : SendCheck(s) \/ SendRefused(s) \/ SendQueued(s)
  BY <1>1, <1>7 DEF SendCheck, SendRefused, SendQueued
<1>8. CASE HandshakeFails \/ DrainOne \/ Serve \/ Disconnect \/ ReadError
  BY <1>1, <1>8 DEF HandshakeFails, DrainOne, Serve, Disconnect, ReadError
<1>9. CASE \E w \in writers : Write(w)
  BY <1>1, <1>9 DEF Write
<1> QED
  BY <1>2, <1>3, <1>4, <1>5, <1>6, <1>7, <1>8, <1>9 DEF LinkNext, ClientNext

-----------------------------------------------------------------------------
(* A step of the link is a step of the engine, or leaves it alone.         *)
LEMMA RecordedId ==
  ASSUME TypeOK, IdsInv, NEW m \in Machines
  PROVE  rec[m].runId \in 0..runId
<1> DEFINE h == [machine |-> m, id |-> rec[m].runId]
<1>1. h \in Holders
  BY DEF Holders
<1>2. h.id <= runId
  BY <1>1 DEF IdsInv
<1>3. rec[m].runId \in Nat /\ runId \in Nat
  BY DEF TypeOK, MachineTypeOK, RecordSet
<1> QED  BY <1>2, <1>3

LEMMA ClientSteps ==
  ASSUME TypeOK, IdsInv, TodoInv, ClientNext
  PROVE  [Next]_vars
<1>1. CASE \E s \in Senders : SendCheck(s) \/ SendRefused(s) \/ SendQueued(s)
  <2>1. ASSUME NEW s \in Senders, Handed(s) PROVE Next
    BY <2>1, ClientAssumption DEF Handed, Next, Loop, Reporter
  <2> QED  BY <1>1, <2>1 DEF SendCheck, SendRefused, SendQueued
<1>2. CASE NotifyMachines
  <2>1. CASE UNCHANGED vars
    BY <2>1
  <2>2. CASE todo # <<>> /\ NotifyUncertain(Linker, Head(todo), Node)
    <3>1. Head(todo) \in Machines
      BY <2>2 DEF TodoInv
    <3>2. Reporter(Linker)
      BY <2>2, <3>1, ClientAssumption DEF Reporter
    <3> QED  BY <3>2, ClientAssumption DEF Next
  <2> QED  BY <1>2, <2>1, <2>2 DEF NotifyMachines
<1>3. CASE Handle
  <2>1. CASE UNCHANGED vars
    BY <2>1
  <2>2. ASSUME NEW m \in Machines, Tell(m, handling.msg) PROVE Next
    <3>1. ASSUME NEW id, NotifySequenceComplete(Reader, m, id)
          PROVE  Reporter(Reader)
      <4>1. id \in 0..runId
        <5>1. id = 0 \/ id = rec[m].runId
          BY <3>1 DEF NotifySequenceComplete, Correlates
        <5> QED  BY <5>1, RecordedId DEF TypeOK, MachineTypeOK
      <4> QED  BY <3>1, <4>1 DEF Reporter
    <3>2. Reporter(Reader)
      BY <2>2, <3>1, ClientAssumption DEF Tell, Reporter
    <3> QED  BY <3>2, ClientAssumption DEF Next
  <2>3. CASE handling.left # <<>> /\ Tell(Head(handling.left), handling.msg)
    <3>1. Head(handling.left) \in Machines
      BY <1>3, <2>3, Unhandled DEF Handle, TodoInv
    <3> QED  BY <2>2, <2>3, <3>1
  <2> QED  BY <1>3, <2>1, <2>3 DEF Handle
<1>4. CASE HandshakeDone \/ HandshakeFails \/ DrainOne \/ Serve \/ Disconnect
           \/ Read \/ ReadError \/ \E w \in writers : Write(w)
  BY <1>4 DEF HandshakeDone, HandshakeFails, DrainOne, Serve, Disconnect, Read,
     ReadError, Write
<1> QED  BY <1>1, <1>2, <1>3, <1>4 DEF ClientNext

LEMMA EngineSteps ==
  ASSUME TypeOK, IdsInv, TodoInv, [LinkNext]_linkVars
  PROVE  [Next]_vars
<1>1. CASE EngineStep
  <2>1. {Linker, Reader} \subseteq Reporters
    BY ClientAssumption
  <2> QED  BY <1>1, <2>1 DEF EngineStep, Next, Reporter
<1>2. CASE Connect
  BY <1>2 DEF Connect, Dial
<1>3. CASE ClientNext
  BY <1>3, ClientSteps
<1>4. CASE UNCHANGED vars
  BY <1>4
<1> QED  BY <1>1, <1>2, <1>3, <1>4 DEF LinkNext, linkVars

(* The engine inside the link behaves as the engine of module Engine: the  *)
(* client's goroutines are among the reporters that module allows, so each *)
(* of its properties holds of the composed system (daqnode.Client calls    *)
(* the EngineController methods and nothing else).                         *)
THEOREM LinkImplementsEngine == LinkSpec => Spec
<1> DEFINE Inv == TypeOK /\ IdsInv /\ TodoInv
<1>1. LinkInit => Inv /\ Init
  BY InitType, IdsInit, TodoInit DEF LinkInit
<1>2. Inv /\ [LinkNext]_linkVars => Inv' /\ [Next]_vars
  BY EngineSteps, NextType, IdsNext, TodoNext
<1> QED  BY <1>1, <1>2, PTL DEF LinkSpec, Spec

(* So no machine ever has two live sequences, no late request moves a      *)
(* machine, no wake-up is lost and no completion is credited to another    *)
(* machine's run, whatever the link does.                                  *)
THEOREM EngineSafeOnLink ==
  LinkSpec => [](OneLiveRun /\ FreshRequestsBelong /\ RecordCorrelates
                 /\ NoLostWakeup /\ RunIdsUnique)
BY LinkImplementsEngine, OneLiveRunHolds, FreshRequests, RecordHolds, Wakeups, RunIds, PTL

(* And no state is entered but along an edge of the program, or by an      *)
(* operator, a command or an abort, through drops, late reports and the    *)
(* notifications of a new connection.                                      *)
THEOREM LinkFollowsGraph == StartsHere /\ LinkSpec => FollowsGraph
BY LinkImplementsEngine, Implements, PTL

-----------------------------------------------------------------------------
(* Leftovers.  The write loop of the current connection exists only while  *)
(* the connection is being served or is broken, and all it can then find   *)
(* in outCh was accepted since the drain.                                  *)
Tagged(s) == \A i \in DOMAIN s : s[i].kind = "state_update" => s[i].conn = conn
WritersInv ==
  /\ conn \in Nat /\ writers \subseteq 0..conn
  /\ phase \in {"down", "hello", "notify", "drain", "serve"}
  /\ phase = "down" => broken
  /\ phase \in {"hello", "notify", "drain"} => conn \notin writers
TaggedInv ==
  /\ \E S : out \in Seq(S)
  /\ \E S : toNode \in Seq(S)
  /\ Tagged(toNode)
  /\ phase = "serve" => Tagged(out)

LEMMA TaggedAppend ==
  ASSUME NEW S, NEW s \in Seq(S), NEW x, Tagged(s),
         x.kind = "state_update" => x.conn = conn
  PROVE  Tagged(Append(s, x)) /\ \E T : Append(s, x) \in Seq(T)
<1>1. s \in Seq(S \cup {x}) /\ x \in S \cup {x}
  OBVIOUS
<1>2. Append(s, x) \in Seq(S \cup {x})
  BY <1>1
<1>3. \A i \in DOMAIN Append(s, x) : Append(s, x)[i] = x \/ (i \in DOMAIN s /\ Append(s, x)[i] = s[i])
  OBVIOUS
<1> QED  BY <1>2, <1>3 DEF Tagged

LEMMA TaggedTail ==
  ASSUME NEW S, NEW s \in Seq(S), s # <<>>, Tagged(s)
  PROVE  Tagged(Tail(s)) /\ Tail(s) \in Seq(S)
<1>1. \A i \in DOMAIN Tail(s) : i + 1 \in DOMAIN s /\ Tail(s)[i] = s[i + 1]
  OBVIOUS
<1> QED  BY <1>1 DEF Tagged

LEMMA LeftoverInit == LinkInit => WritersInv /\ TaggedInv
<1> SUFFICES ASSUME LinkInit PROVE WritersInv /\ TaggedInv
  OBVIOUS
<1>1. WritersInv
  BY DEF LinkInit, WireInit, ClientInit, WritersInv
<1>2. out = <<>> /\ toNode = <<>> /\ phase = "down"
  BY DEF LinkInit, WireInit, ClientInit
<1>3. <<>> \in Seq({})
  OBVIOUS
<1> QED  BY <1>1, <1>2, <1>3 DEF TaggedInv, Tagged

LEMMA WritersNext == WritersInv /\ [LinkNext]_linkVars => WritersInv'
<1> SUFFICES ASSUME WritersInv, [LinkNext]_linkVars PROVE WritersInv'
  OBVIOUS
<1>s. ASSUME UNCHANGED <<conn, broken, phase, writers>> PROVE WritersInv'
  BY <1>s DEF WritersInv
<1>1. CASE EngineStep \/ UNCHANGED linkVars
  BY <1>s, <1>1 DEF EngineStep, linkVars, wireVars, clientVars
<1>2. CASE Connect
  BY <1>2 DEF Connect, Dial, WritersInv
<1>3. CASE NodeNext /\ UNCHANGED <<vars, clientVars>>
  BY <1>s, <1>3 DEF NodeNext, clientVars, Greet, Configure, NodeDisconnected, RequestState,
     handleStateUpdate, EntryHead, EntryScan, EntryFinish, completeRun, ExitStep,
     ExitFinish, reportAbort, nodeStable
<1>4. CASE LinkBreaks /\ UNCHANGED <<vars, clientVars, nodeVars>>
  BY <1>4 DEF LinkBreaks, clientVars, WritersInv
<1>5. CASE \E t \in Senders : SendCheck(t) \/ SendRefused(t) \/ SendQueued(t)
  BY <1>s, <1>5 DEF SendCheck, SendRefused, SendQueued, wireVars
<1>6. CASE HandshakeDone \/ HandshakeFails \/ NotifyMachines
  BY <1>6 DEF HandshakeDone, HandshakeFails, NotifyMachines, postConnectStable, wireVars,
     WritersInv
<1>7. CASE DrainOne \/ Serve \/ Disconnect \/ Read \/ ReadError \/ Handle
  BY <1>7 DEF DrainOne, Serve, Disconnect, Read, ReadError, Handle, wireVars,
     WritersInv
<1>8. CASE \E w \in writers : Write(w)
  <2>1. UNCHANGED <<conn, broken, phase>> /\ writers' \subseteq writers
    BY <1>8 DEF Write
  <2> QED  BY <2>1 DEF WritersInv
<1> QED
  BY <1>1, <1>2, <1>3, <1>4, <1>5, <1>6, <1>7, <1>8 DEF LinkNext, ClientNext

LEMMA TaggedNext == WritersInv /\ TaggedInv /\ [LinkNext]_linkVars => TaggedInv'
<1> SUFFICES ASSUME WritersInv, TaggedInv, [LinkNext]_linkVars PROVE TaggedInv'
  OBVIOUS
<1>a. PICK S : out \in Seq(S)
  BY DEF TaggedInv
<1>b. PICK R : toNode \in Seq(R)
  BY DEF TaggedInv
<1>1. ASSUME UNCHANGED <<conn, phase, out, toNode>> PROVE TaggedInv'
  BY <1>1 DEF TaggedInv, Tagged
<1>2. ASSUME UNCHANGED <<conn, phase, out>>, toNode' = Tail(toNode), toNode # <<>>
      PROVE  TaggedInv'
  <2>1. Tagged(Tail(toNode)) /\ Tail(toNode) \in Seq(R)
    BY <1>2, <1>b, TaggedTail DEF TaggedInv
  <2> QED  BY <1>2, <2>1 DEF TaggedInv, Tagged
<1>3. CASE Connect
  <2>1. toNode' = <<>> /\ phase' = "hello" /\ out' = out
    BY <1>3 DEF Connect, Dial
  <2>2. <<>> \in Seq({})
    OBVIOUS
  <2> QED  BY <1>a, <2>1, <2>2 DEF TaggedInv, Tagged
<1>4. CASE NodeNext /\ UNCHANGED <<vars, clientVars>>
  <2>1. CASE Configure \/ handleStateUpdate
    BY <1>2, <1>4, <2>1 DEF Configure, handleStateUpdate, clientVars
  <2>2. CASE NodeDisconnected
    <3>1. toNode' = <<>> /\ UNCHANGED <<conn, phase, out>>
      BY <1>4, <2>2 DEF NodeDisconnected, clientVars
    <3>2. <<>> \in Seq({})
      OBVIOUS
    <3> QED  BY <1>a, <3>1, <3>2 DEF TaggedInv, Tagged
  <2>3. CASE UNCHANGED <<conn, toNode>>
    BY <1>1, <1>4, <2>3 DEF clientVars
  <2> QED
    BY <1>4, <2>1, <2>2, <2>3 DEF NodeNext, Greet, RequestState, EntryHead, EntryScan,
       EntryFinish, completeRun, ExitStep, ExitFinish, reportAbort, nodeStable
<1>5. CASE HandshakeDone
  <2>1. /\ UNCHANGED <<conn, out>> /\ phase' = "notify"
        /\ toNode' = toNode \/ toNode' = Append(toNode, Config)
    BY <1>5 DEF HandshakeDone, Carried
  <2>2. Config.kind # "state_update"
    BY DEF Config
  <2>3. Tagged(toNode)
    BY DEF TaggedInv
  <2>4. Tagged(Append(toNode, Config)) /\ \E T : Append(toNode, Config) \in Seq(T)
    BY <1>b, <2>2, <2>3, TaggedAppend
  <2> QED  BY <1>a, <1>b, <2>1, <2>3, <2>4 DEF TaggedInv, Tagged
<1>6. ASSUME NEW t \in Senders, SendQueued(t) PROVE TaggedInv'
  <2>1. /\ UNCHANGED <<conn, phase, toNode>>
        /\ out' = out \/ out' = Append(out, Payload(t))
    BY <1>6 DEF SendQueued, wireVars
  <2>2. Payload(t).conn = conn
    BY DEF Payload, StateUpdate
  <2>3. \E T : Append(out, Payload(t)) \in Seq(T)
    <3>1. out \in Seq(S \cup {Payload(t)})
      BY <1>a
    <3> QED  BY <3>1
  <2>4. phase = "serve" => Tagged(Append(out, Payload(t)))
    BY <1>a, <2>2, TaggedAppend DEF TaggedInv
  <2> QED  BY <2>1, <2>3, <2>4 DEF TaggedInv, Tagged
<1>7. CASE Serve
  BY <1>7 DEF Serve, TaggedInv, Tagged, wireVars
<1>8. CASE DrainOne
  <2>1. /\ UNCHANGED <<conn, toNode>> /\ phase' = "drain" /\ out' = Tail(out)
        /\ Tail(out) \in Seq(S)
    BY <1>a, <1>8 DEF DrainOne, wireVars
  <2> QED  BY <2>1 DEF TaggedInv, Tagged
<1>9. ASSUME NEW w \in writers, Write(w) PROVE TaggedInv'
  <2>1. UNCHANGED <<conn, phase>> /\ out' = Tail(out) /\ out # <<>>
    BY <1>9 DEF Write
  <2>2. Tail(out) \in Seq(S) /\ (Tagged(out) => Tagged(Tail(out)))
    BY <1>a, <2>1, TaggedTail
  <2>3. CASE UNCHANGED toNode
    BY <2>1, <2>2, <2>3 DEF TaggedInv, Tagged
  <2>4. CASE w = conn /\ ~broken /\ toNode' = Append(toNode, Head(out))
    <3>1. phase \notin {"down", "hello", "notify", "drain"}
      BY <2>4 DEF WritersInv
    <3>2. CASE phase = "serve"
      <4>1. Tagged(out) /\ Head(out) = out[1] /\ 1 \in DOMAIN out
        BY <1>a, <2>1, <3>2 DEF TaggedInv
      <4>2. /\ Tagged(Append(toNode, Head(out)))
            /\ \E T : Append(toNode, Head(out)) \in Seq(T)
        BY <1>b, <4>1, TaggedAppend DEF TaggedInv, Tagged
      <4> QED  BY <2>1, <2>2, <2>4, <4>1, <4>2 DEF TaggedInv, Tagged
    <3> QED  BY <3>1, <3>2 DEF WritersInv
  <2> QED  BY <1>9, <2>3, <2>4 DEF Write
<1> QED
  <2>1. CASE EngineStep \/ UNCHANGED linkVars
    BY <1>1, <2>1 DEF EngineStep, linkVars, wireVars, clientVars
  <2>2. CASE LinkBreaks /\ UNCHANGED <<vars, clientVars, nodeVars>>
    BY <1>1, <2>2 DEF LinkBreaks, clientVars
  <2>3. CASE \E t \in Senders : SendCheck(t) \/ SendRefused(t)
    BY <1>1, <2>3 DEF SendCheck, SendRefused, wireVars
  <2>4. CASE HandshakeFails \/ NotifyMachines \/ Disconnect
    <3>1. UNCHANGED <<conn, out, toNode>> /\ phase' # "serve"
      BY <2>4 DEF HandshakeFails, NotifyMachines, Disconnect, postConnectStable, wireVars
    <3> QED  BY <1>a, <1>b, <3>1 DEF TaggedInv, Tagged
  <2>5. CASE Read \/ ReadError \/ Handle
    BY <1>1, <2>5 DEF Read, ReadError, Handle, wireVars
  <2> QED
    BY <1>3, <1>4, <1>5, <1>6, <1>7, <1>8, <1>9, <2>1, <2>2, <2>3, <2>4, <2>5
       DEF LinkNext, ClientNext

(* No state_update left over from a dropped connection ever starts a       *)
(* sequence: what reaches the node was accepted on the connection that     *)
(* carries it, for any capacity, any number of reconnects and any program  *)
(* (connect's drain of outCh).                                             *)
THEOREM NoLeftover == LinkSpec => []NeverForwardsLeftover
<1>1. WritersInv /\ TaggedInv /\ [LinkNext]_linkVars => (WritersInv /\ TaggedInv)'
  BY WritersNext, TaggedNext
<1>2. TaggedInv => NeverForwardsLeftover
  BY DEF TaggedInv, Tagged, NeverForwardsLeftover, Updates, Range
<1> QED  BY LeftoverInit, <1>1, <1>2, PTL DEF LinkSpec

-----------------------------------------------------------------------------
(* What each kind of step does to the link.                                *)

LEMMA AppendSeq ==
  ASSUME NEW S, NEW s \in Seq(S), NEW x \in S
  PROVE  /\ Append(s, x) \in Seq(S) /\ Append(s, x) # <<>> /\ Len(Append(s, x)) = Len(s) + 1
         /\ \A i \in DOMAIN Append(s, x) :
              \/ i = Len(s) + 1 /\ Append(s, x)[i] = x
              \/ i \in DOMAIN s /\ Append(s, x)[i] = s[i]
         /\ s # <<>> => Head(Append(s, x)) = Head(s) /\ Tail(Append(s, x)) = Append(Tail(s), x)
         /\ s = <<>> => Head(Append(s, x)) = x /\ Tail(Append(s, x)) = <<>>
<1> DEFINE a == Append(s, x)
<1>1. /\ a \in Seq(S) /\ Len(a) = Len(s) + 1 /\ Len(s) \in Nat
      /\ \A i \in 1..Len(s) : a[i] = s[i]
      /\ a[Len(s) + 1] = x
  OBVIOUS
<1>2. DOMAIN a = 1..(Len(s) + 1) /\ DOMAIN s = 1..Len(s) /\ a # <<>> /\ Head(a) = a[1]
  BY <1>1
<1>3. ASSUME NEW i \in DOMAIN a
      PROVE  \/ i = Len(s) + 1 /\ a[i] = x
             \/ i \in DOMAIN s /\ a[i] = s[i]
  <2>1. i = Len(s) + 1 \/ i \in 1..Len(s)
    BY <1>1, <1>2
  <2> QED  BY <1>1, <1>2, <2>1
<1>4. ASSUME s # <<>> PROVE Head(a) = Head(s) /\ Tail(a) = Append(Tail(s), x)
  <2>1. 1 \in 1..Len(s) /\ Head(s) = s[1]
    BY <1>4
  <2>2. Tail(a) = Append(Tail(s), x)
    BY <1>4
  <2> QED  BY <1>1, <1>2, <2>1, <2>2
<1>5. s = <<>> => Head(a) = x /\ Tail(a) = <<>>
  OBVIOUS
<1> QED  BY <1>1, <1>2, <1>3, <1>4, <1>5

LEMMA TailSeq ==
  ASSUME NEW S, NEW s \in Seq(S), s # <<>>
  PROVE  /\ Tail(s) \in Seq(S) /\ Head(s) \in S /\ Len(Tail(s)) = Len(s) - 1
         /\ Head(s) = s[1] /\ 1 \in DOMAIN s
         /\ \A i \in DOMAIN Tail(s) : i \in Nat /\ i + 1 \in DOMAIN s /\ Tail(s)[i] = s[i + 1]
OBVIOUS

LEMMA EmptySeq == ASSUME NEW S PROVE <<>> \in Seq(S)
OBVIOUS

(* The members of a queue, by either name.                                 *)
LEMMA Ranges == ASSUME NEW s PROVE Range(s) = ToRange(s)
BY DEF Range, ToRange

LEMMA RangeNone == Range(<<>>) = {}
BY Ranges, RangeEmpty

LEMMA PayloadType ==
  ASSUME TypeOK, LinkTypeOK, NEW s \in Senders, Handed(s)
  PROVE  Payload(s) \in StateUpdates /\ Payload(s).conn = conn
<1>t. /\ conn \in Nat /\ epoch \in [Machines -> Nat] /\ pend \in PayloadSet
      /\ caller[Reader] \in CallSet
  BY ClientAssumption, WireAssumption
     DEF LinkTypeOK, WireTypeOK, TypeOK, MachineTypeOK, EnvTypeOK, Callers
<1>1. CASE s = EngineLoop
  <2>1. pend # NoPayload
    BY <1>1 DEF Handed, HandOver
  <2>2. pend.machine \in Machines /\ pend.runId \in Nat /\ epoch[pend.machine] \in Nat
    BY <1>t, <2>1 DEF PayloadSet
  <2> QED  BY <1>1, <1>t, <2>2 DEF Payload, StateUpdate, StateUpdates
<1>2. CASE s = Reader
  <2>1. caller[Reader].at = "hand"
    BY <1>2, ClientAssumption DEF Handed, HandPayload
  <2>2. /\ caller[Reader].req \in RequestSet /\ caller[Reader].runId \in Nat
    BY <1>t, <2>1, CallType
  <2> QED  BY <1>2, <1>t, <2>2, ClientAssumption DEF Payload, StateUpdate, StateUpdates, RequestSet
<1> QED  BY <1>1, <1>2 DEF Senders

LEMMA LinkTypeInit == LinkInit => LinkTypeOK
<1> SUFFICES ASSUME LinkInit PROVE LinkTypeOK
  OBVIOUS
<1>1. WireTypeOK
  BY WireAssumption DEF LinkInit, WireInit, WireTypeOK
<1>2. ClientTypeOK
  <2>1. phase = "down" /\ connected = FALSE /\ todo = <<>> /\ out = <<>> /\ Len(out) = 0
    BY DEF LinkInit, ClientInit
  <2>2. writers = {} /\ failed = FALSE /\ reading = FALSE /\ handling = NoMessage /\ checked = {}
    BY DEF LinkInit, ClientInit
  <2>3. atConnect = [m \in Machines |-> 0]
    BY DEF LinkInit, ClientInit, Init
  <2>4. atConnect \in [Machines -> Nat]
    BY <2>3
  <2>5. out \in Seq(StateUpdates) /\ Len(out) <= OutCap
    BY <2>1, ClientAssumption
  <2>6. todo \in Seq(Machines)
    BY <2>1
  <2>7. phase \in {"down", "hello"} \cup Up /\ (connected <=> phase \in Up) /\ connected \in BOOLEAN
    BY <2>1 DEF Up
  <2>8. writers \subseteq 1..conn /\ failed \in BOOLEAN /\ reading \in BOOLEAN /\ checked \subseteq Senders
    BY <2>2
  <2> QED  BY <2>2, <2>4, <2>5, <2>6, <2>7, <2>8 DEF ClientTypeOK
<1>3. NodeTypeOK
  BY NodeAssumption DEF LinkInit, NodeInit, NodeTypeOK
<1> QED  BY <1>1, <1>2, <1>3 DEF LinkTypeOK

(* A step that ends or changes one of the node's runs.                     *)
LEMMA NodeRunsType ==
  ASSUME NodeTypeOK, UNCHANGED <<nodeAt, gen, requests>>, setBy' \in 0..gen,
         NEW r \in nodeRuns,
         \/ NodeRunEnds(r)
         \/ \E q \in NodeRunSet : nodeRuns' = (nodeRuns \ {r}) \cup {q}
  PROVE  NodeTypeOK'
BY DEF NodeTypeOK, NodeRunEnds, NodeRunSet

LEMMA NodeRunMoved ==
  ASSUME NEW r \in NodeRunSet, NEW a, NEW k \in Nat,
         a \in {"head", "scan", "finish", "complete"} \cup Exiting,
         k <= IF a \in Exiting THEN ExitLength ELSE EntryLength
  PROVE  /\ [r EXCEPT !.at = a, !.step = k] \in NodeRunSet
         /\ r.step = k => [r EXCEPT !.at = a] \in NodeRunSet
         /\ r.at = a => [r EXCEPT !.step = k] \in NodeRunSet
<1>1. ASSUME NEW q, q = [r EXCEPT !.at = a, !.step = k] PROVE q \in NodeRunSet
  BY <1>1 DEF NodeRunSet
<1>2. ASSUME NEW q, q = [r EXCEPT !.at = a], r.step = k PROVE q \in NodeRunSet
  BY <1>2 DEF NodeRunSet
<1>3. ASSUME NEW q, q = [r EXCEPT !.step = k], r.at = a PROVE q \in NodeRunSet
  BY <1>3 DEF NodeRunSet
<1> QED  BY <1>1, <1>2, <1>3

LEMMA WireKept == ASSUME WireTypeOK, UNCHANGED wireVars PROVE WireTypeOK'
BY DEF WireTypeOK, wireVars

LEMMA ClientKept == ASSUME ClientTypeOK, UNCHANGED <<conn, clientVars>> PROVE ClientTypeOK'
BY DEF ClientTypeOK, clientVars

LEMMA NodeKept == ASSUME NodeTypeOK, UNCHANGED nodeVars PROVE NodeTypeOK'
BY DEF NodeTypeOK, NodeRunSet, nodeVars

LEMMA ReplyType ==
  ASSUME WireTypeOK, NEW x \in {ConfigReq} \cup Reports, Reply(x), UNCHANGED <<conn, broken>>,
         toNode' \in Seq({Config} \cup StateUpdates)
  PROVE  WireTypeOK'
<1>1. toControl' = toControl \/ toControl' = Append(toControl, x)
  BY DEF Reply, Carried
<1>2. Append(toControl, x) \in Seq({ConfigReq} \cup Reports)
  BY AppendSeq DEF WireTypeOK
<1> QED  BY <1>1, <1>2 DEF WireTypeOK

(* The node's own steps.                                                   *)
LEMMA NodeTypeNext ==
  ASSUME LinkTypeOK, ConfigInv, NodeNext
  PROVE  WireTypeOK' /\ NodeTypeOK' /\ conn' = conn
<1>t. WireTypeOK /\ NodeTypeOK
  BY DEF LinkTypeOK
<1>m. StateReq \in Reports /\ AbortTriggered \in Reports
  BY DEF Reports
<1>s. /\ toNode \in Seq({Config} \cup StateUpdates)
      /\ toNode # <<>> => Tail(toNode) \in Seq({Config} \cup StateUpdates)
  BY <1>t, TailSeq DEF WireTypeOK
<1>1. CASE Greet
  BY <1>1, <1>t, <1>s, ReplyType DEF Greet, NodeTypeOK, NodeRunSet
<1>2. CASE Configure \/ NodeDisconnected
  <2>1. toNode' \in Seq({Config} \cup StateUpdates)
    <3>1. toNode' = <<>> \/ (toNode # <<>> /\ toNode' = Tail(toNode))
      BY <1>2 DEF Configure, NodeDisconnected
    <3> QED  BY <1>s, <3>1, EmptySeq
  <2>2. UNCHANGED <<conn, broken, toControl>>
    BY <1>2 DEF Configure, NodeDisconnected
  <2>3. NodeTypeOK'
    BY <1>2, <1>t DEF Configure, NodeDisconnected, NodeTypeOK, NodeRunSet
  <2> QED  BY <1>t, <2>1, <2>2, <2>3 DEF WireTypeOK
<1>3. CASE RequestState
  <2>1. requests' \in 0..MaxRequests
    BY <1>3, <1>t, NodeAssumption DEF RequestState, NodeTypeOK
  <2> QED  BY <1>3, <1>t, <1>m, <1>s, <2>1, ReplyType DEF RequestState, NodeTypeOK, NodeRunSet
<1>4. CASE handleStateUpdate
  <2>1. toNode \in Seq(StateUpdates) /\ toNode # <<>>
    BY <1>4 DEF handleStateUpdate, ConfigInv
  <2>2. Head(toNode) \in StateUpdates
    BY <2>1, TailSeq
  <2>3. gen \in Nat /\ gen' = gen + 1 /\ setBy' = setBy
    BY <1>4, <1>t DEF handleStateUpdate, NodeTypeOK
  <2>4. NodeRun(Head(toNode)) \in NodeRunSet'
    <3>1. "head" \notin Exiting /\ gen + 1 \in 1..gen' /\ 0 <= EntryLength
      BY <2>3, NodeAssumption DEF Exiting
    <3> QED  BY <2>2, <3>1 DEF NodeRun, NodeRunSet
  <2>5. NodeRunSet \subseteq NodeRunSet'
    BY <2>3 DEF NodeRunSet
  <2>6. NodeTypeOK'
    BY <1>4, <1>t, <2>3, <2>4, <2>5 DEF handleStateUpdate, NodeTypeOK
  <2>7. WireTypeOK'
    BY <1>4, <1>t, <1>s DEF handleStateUpdate, WireTypeOK
  <2> QED  BY <1>4, <2>6, <2>7 DEF handleStateUpdate
<1>5. ASSUME NEW r \in nodeRuns,
             EntryHead(r) \/ EntryScan(r) \/ EntryFinish(r) \/ ExitStep(r) \/ ExitFinish(r)
      PROVE  WireTypeOK' /\ NodeTypeOK' /\ conn' = conn
  <2>1. UNCHANGED <<conn, broken, toNode, toControl, nodeAt, gen, started, requests>>
    BY <1>5 DEF EntryHead, EntryScan, EntryFinish, ExitStep, ExitFinish, nodeStable
  <2>2. WireTypeOK'
    BY <1>t, <2>1 DEF WireTypeOK
  <2>3. /\ r \in NodeRunSet /\ r.step \in Nat /\ r.gen \in 1..gen /\ gen \in Nat /\ setBy \in 0..gen
        /\ r.step <= IF r.at \in Exiting THEN ExitLength ELSE EntryLength
    BY <1>t DEF NodeTypeOK, NodeRunSet
  <2>4. ASSUME EntryHead(r) PROVE NodeTypeOK'
    <3>1. [r EXCEPT !.at = "scan"] \in NodeRunSet
      BY <2>3, <2>4, NodeRunMoved DEF EntryHead, Exiting
    <3> QED  BY <1>t, <2>1, <2>3, <2>4, <3>1, NodeRunsType DEF EntryHead, NodeRunAt
  <2>5. ASSUME EntryScan(r) PROVE NodeTypeOK'
    <3>1. PICK k \in r.step..EntryLength :
            /\ setBy' = IF k > r.step THEN r.gen ELSE setBy
            /\ \E s \in {"exit", IF k = EntryLength THEN "finish" ELSE "head"} :
                 nodeRuns' = (nodeRuns \ {r}) \cup
                             {[r EXCEPT !.at = s, !.step = IF s = "exit" THEN 0 ELSE k]}
      BY <2>5 DEF EntryScan
    <3>2. PICK s \in {"exit", IF k = EntryLength THEN "finish" ELSE "head"} :
            nodeRuns' = (nodeRuns \ {r}) \cup
                        {[r EXCEPT !.at = s, !.step = IF s = "exit" THEN 0 ELSE k]}
      BY <3>1
    <3> DEFINE n == IF s = "exit" THEN 0 ELSE k
    <3>3. n \in Nat /\ n <= IF s \in Exiting THEN ExitLength ELSE EntryLength
      BY <2>3, <3>2, NodeAssumption DEF Exiting
    <3>4. [r EXCEPT !.at = s, !.step = n] \in NodeRunSet
      <4>1. s \in {"head", "scan", "finish", "complete"} \cup Exiting
        BY <3>2 DEF Exiting
      <4> HIDE DEF n
      <4> QED  BY <2>3, <3>3, <4>1, NodeRunMoved
    <3>5. setBy' \in 0..gen
      BY <2>3, <3>1
    <3> QED  BY <1>t, <2>1, <3>2, <3>4, <3>5, NodeRunsType
  <2>6. ASSUME EntryFinish(r) PROVE NodeTypeOK'
    <3>1. [r EXCEPT !.at = "complete"] \in NodeRunSet
      BY <2>3, <2>6, NodeRunMoved DEF EntryFinish, Exiting
    <3> QED  BY <1>t, <2>1, <2>3, <2>6, <3>1, NodeRunsType DEF EntryFinish, NodeRunAt
  <2>7. ASSUME ExitStep(r) PROVE NodeTypeOK'
    <3>1. [r EXCEPT !.step = r.step + 1] \in NodeRunSet
      <4>1. r.at = "exit" /\ r.step + 1 \in Nat /\ r.step + 1 <= ExitLength
        BY <2>3, <2>7, NodeAssumption DEF ExitStep
      <4> QED  BY <2>3, <4>1, NodeRunMoved DEF Exiting
    <3>2. setBy' \in 0..gen
      BY <2>3, <2>7 DEF ExitStep
    <3> QED  BY <1>t, <2>1, <2>7, <3>1, <3>2, NodeRunsType DEF ExitStep
  <2>8. ASSUME ExitFinish(r) PROVE NodeTypeOK'
    <3>1. [r EXCEPT !.at = "abort"] \in NodeRunSet
      BY <2>3, <2>8, NodeRunMoved DEF ExitFinish, Exiting
    <3> QED  BY <1>t, <2>1, <2>3, <2>8, <3>1, NodeRunsType DEF ExitFinish, NodeRunAt
  <2> QED  BY <1>5, <2>1, <2>2, <2>4, <2>5, <2>6, <2>7, <2>8
<1>6. ASSUME NEW r \in nodeRuns, completeRun(r) \/ reportAbort(r)
      PROVE  WireTypeOK' /\ NodeTypeOK' /\ conn' = conn
  <2>1. UNCHANGED <<conn, broken, toNode, nodeAt, gen, requests, setBy>> /\ NodeRunEnds(r)
    BY <1>6 DEF completeRun, reportAbort, nodeStable
  <2>2. SequenceComplete(r.update.runId) \in Reports
    <3>1. r.update.runId \in Nat
      BY <1>t DEF NodeTypeOK, NodeRunSet, StateUpdates
    <3> QED  BY <3>1 DEF SequenceComplete, Reports
  <2>3. WireTypeOK'
    BY <1>6, <1>t, <1>m, <1>s, <2>1, <2>2, ReplyType DEF completeRun, reportAbort
  <2>4. setBy' \in 0..gen
    BY <1>t, <2>1 DEF NodeTypeOK
  <2> QED  BY <1>t, <2>1, <2>3, <2>4, NodeRunsType
<1> QED  BY <1>1, <1>2, <1>3, <1>4, <1>5, <1>6 DEF NodeNext

(* The client's steps, and those of the connection.                        *)
LEMMA SenderType ==
  ASSUME TypeOK, LinkTypeOK, NEW s \in Senders, SendCheck(s) \/ SendRefused(s) \/ SendQueued(s)
  PROVE  WireTypeOK' /\ ClientTypeOK'
<1>t. WireTypeOK /\ ClientTypeOK
  BY DEF LinkTypeOK
<1>1. WireTypeOK' /\ UNCHANGED wireVars
  BY <1>t, WireKept DEF SendCheck, SendRefused, SendQueued
<1>k. ASSUME UNCHANGED <<phase, connected, todo, writers, failed, reading, handling, atConnect>>,
             checked' \subseteq Senders, out' \in Seq(StateUpdates), Len(out') <= OutCap
      PROVE  ClientTypeOK'
  <2>1. conn' = conn /\ Up' = Up
    BY <1>1 DEF wireVars, Up
  <2>2. (connected <=> phase \in Up)'
    BY <1>t, <1>k, <2>1 DEF ClientTypeOK
  <2> QED  BY <1>t, <1>k, <2>1, <2>2 DEF ClientTypeOK
<1>o. /\ out \in Seq(StateUpdates) /\ Len(out) <= OutCap
      /\ checked \cup {s} \subseteq Senders /\ checked \ {s} \subseteq Senders
  BY <1>t DEF ClientTypeOK
<1>2. CASE SendCheck(s) \/ SendRefused(s)
  <2>1. UNCHANGED out /\ (checked' = checked \/ checked' = checked \cup {s})
    BY <1>2 DEF SendCheck, SendRefused
  <2>2. UNCHANGED <<phase, connected, todo, writers, failed, reading, handling, atConnect>>
    BY <1>2 DEF SendCheck, SendRefused
  <2> QED  BY <1>1, <1>k, <1>o, <2>1, <2>2
<1>3. CASE SendQueued(s)
  <2>1. Payload(s) \in StateUpdates
    BY <1>3, PayloadType DEF SendQueued
  <2>2. out' \in Seq(StateUpdates) /\ Len(out') <= OutCap
    <3>1. Append(out, Payload(s)) \in Seq(StateUpdates) /\ Len(Append(out, Payload(s))) = Len(out) + 1
      BY <1>t, <2>1, AppendSeq DEF ClientTypeOK
    <3>2. Len(out) \in Nat /\ Len(out) <= OutCap /\ OutCap \in Nat
      BY <1>t, ClientAssumption DEF ClientTypeOK
    <3>3. out' = out \/ (Len(out) < OutCap /\ out' = Append(out, Payload(s)))
      BY <1>3 DEF SendQueued
    <3> QED  BY <1>o, <3>1, <3>2, <3>3
  <2>3. /\ checked' = checked \ {s}
        /\ UNCHANGED <<phase, connected, todo, writers, failed, reading, handling, atConnect>>
    BY <1>3 DEF SendQueued
  <2> QED  BY <1>1, <1>k, <1>o, <2>2, <2>3
<1> QED  BY <1>1, <1>2, <1>3

LEMMA WriteType ==
  ASSUME LinkTypeOK, NEW w \in writers, Write(w)
  PROVE  WireTypeOK' /\ ClientTypeOK'
<1>t. WireTypeOK /\ ClientTypeOK
  BY DEF LinkTypeOK
<1>1. /\ out # <<>> /\ out' = Tail(out) /\ writers' \subseteq writers
      /\ toNode' = toNode \/ toNode' = Append(toNode, Head(out))
      /\ UNCHANGED <<conn, broken, toControl, phase, connected, todo, reading, handling,
                     checked, atConnect>>
      /\ failed' = failed \/ failed' = TRUE
  BY DEF Write
<1>2. Head(out) \in StateUpdates /\ Tail(out) \in Seq(StateUpdates) /\ Len(Tail(out)) <= Len(out)
  <2>1. out \in Seq(StateUpdates) /\ Len(out) \in Nat
    BY <1>t DEF ClientTypeOK
  <2>2. Len(Tail(out)) = Len(out) - 1
    BY <1>1, <2>1, TailSeq
  <2> QED  BY <1>1, <2>1, <2>2, TailSeq
<1>3. Append(toNode, Head(out)) \in Seq({Config} \cup StateUpdates)
  BY <1>t, <1>2, AppendSeq DEF WireTypeOK
<1>4. WireTypeOK'
  BY <1>t, <1>1, <1>3 DEF WireTypeOK
<1>5. Len(out') <= OutCap
  BY <1>t, <1>1, <1>2, ClientAssumption DEF ClientTypeOK
<1>6. ClientTypeOK'
  BY <1>t, <1>1, <1>2, <1>5 DEF ClientTypeOK
<1> QED  BY <1>4, <1>6

LEMMA HandlingType ==
  ASSUME ClientTypeOK, handling # NoMessage
  PROVE  /\ handling \in [msg : Reports, left : Seq(Machines)]
         /\ handling.left # <<>> =>
              /\ Head(handling.left) \in Machines
              /\ [handling EXCEPT !.left = Tail(@)] \in [msg : Reports, left : Seq(Machines)]
<1>1. handling \in [msg : Reports, left : Seq(Machines)]
  BY DEF ClientTypeOK
<1>2. handling.left # <<>> => Head(handling.left) \in Machines /\ Tail(handling.left) \in Seq(Machines)
  BY <1>1, TailSeq
<1> QED  BY <1>1, <1>2

LEMMA ClientTypeNext ==
  ASSUME TypeOK, LinkTypeOK, HandshakeInv, ClientNext
  PROVE  WireTypeOK' /\ ClientTypeOK'
<1>t. WireTypeOK /\ ClientTypeOK
  BY DEF LinkTypeOK
<1>1. CASE \E s \in Senders : SendCheck(s) \/ SendRefused(s) \/ SendQueued(s)
  BY <1>1, SenderType
<1>2. CASE \E w \in writers : Write(w)
  BY <1>2, WriteType
<1>3. CASE HandshakeDone
  <2>1. /\ toControl # <<>> /\ toControl' = Tail(toControl) /\ UNCHANGED <<conn, broken>>
        /\ toNode' = toNode \/ toNode' = Append(toNode, Config)
    BY <1>3 DEF HandshakeDone, Carried
  <2>2. Tail(toControl) \in Seq({ConfigReq} \cup Reports)
    BY <1>t, <2>1, TailSeq DEF WireTypeOK
  <2>3. Append(toNode, Config) \in Seq({Config} \cup StateUpdates)
    BY <1>t, AppendSeq DEF WireTypeOK
  <2>4. WireTypeOK'
    BY <1>t, <2>1, <2>2, <2>3 DEF WireTypeOK
  <2>5. epoch \in [Machines -> Nat]
    BY DEF TypeOK, MachineTypeOK
  <2>6. phase' \in Up /\ connected' = TRUE
    BY <1>3 DEF HandshakeDone, Up
  <2>7. ClientTypeOK'
    BY <1>3, <1>t, <2>5, <2>6, OrderType DEF HandshakeDone, ClientTypeOK
  <2> QED  BY <2>4, <2>7
<1>4. CASE HandshakeFails
  <2>1. UNCHANGED <<conn, toNode, toControl>> /\ broken' = TRUE
    BY <1>4 DEF HandshakeFails
  <2>2. phase' = "down" /\ ~connected
    BY <1>4, <1>t DEF HandshakeFails, ClientTypeOK, Up
  <2>3. ClientTypeOK'
    BY <1>4, <1>t, <2>2 DEF HandshakeFails, ClientTypeOK, Up
  <2> QED  BY <1>t, <2>1, <2>3 DEF WireTypeOK
<1>5. CASE NotifyMachines
  <2>1. UNCHANGED wireVars /\ phase' \in Up /\ connected
    BY <1>5, <1>t DEF NotifyMachines, postConnectStable, ClientTypeOK, Up
  <2>2. todo' \in Seq(Machines)
    <3>1. todo' = todo \/ (todo # <<>> /\ todo' = Tail(todo))
      BY <1>5 DEF NotifyMachines
    <3>2. todo \in Seq(Machines)
      BY <1>t DEF ClientTypeOK
    <3> QED  BY <3>1, <3>2, TailSeq
  <2>3. ClientTypeOK'
    BY <1>5, <1>t, <2>1, <2>2 DEF NotifyMachines, postConnectStable, wireVars, ClientTypeOK
  <2> QED  BY <1>t, <2>1, <2>3, WireKept
<1>6. CASE DrainOne
  <2>1. /\ Tail(out) \in Seq(StateUpdates) /\ out' = Tail(out)
        /\ Len(Tail(out)) = Len(out) - 1 /\ Len(out) \in Nat
    BY <1>6, <1>t, TailSeq DEF DrainOne, ClientTypeOK
  <2>2. Len(out') <= OutCap
    BY <1>t, <2>1, ClientAssumption DEF ClientTypeOK
  <2>3. ClientTypeOK'
    BY <1>6, <1>t, <2>1, <2>2 DEF DrainOne, ClientTypeOK, wireVars
  <2> QED  BY <1>6, <1>t, <2>3, WireKept DEF DrainOne
<1>7. CASE Serve
  <2>1. phase' \in Up /\ phase \in Up /\ conn # 0 /\ conn \in Nat /\ UNCHANGED wireVars
    BY <1>7, <1>t, WireAssumption DEF Serve, Up, HandshakeInv, WireTypeOK
  <2>2. writers' \subseteq 1..conn' /\ conn' = conn
    BY <1>7, <1>t, <2>1 DEF Serve, ClientTypeOK, wireVars
  <2>3. ClientTypeOK'
    BY <1>7, <1>t, <2>1, <2>2 DEF Serve, ClientTypeOK
  <2> QED  BY <1>t, <2>1, <2>3, WireKept
<1>8. CASE Disconnect
  <2>1. UNCHANGED <<conn, toNode, toControl>> /\ broken' = TRUE
    BY <1>8 DEF Disconnect
  <2>2. phase' = "down" /\ connected' = FALSE
    BY <1>8 DEF Disconnect
  <2>3. ClientTypeOK'
    BY <1>8, <1>t, <2>2 DEF Disconnect, ClientTypeOK, Up
  <2> QED  BY <1>t, <2>1, <2>3 DEF WireTypeOK
<1>9. CASE Read
  <2>1. /\ toControl # <<>> /\ toControl' = Tail(toControl) /\ UNCHANGED <<conn, broken, toNode>>
        /\ handling' = [msg |-> Head(toControl), left |-> Order]
    BY <1>9 DEF Read
  <2>2. /\ toControl \in Seq({ConfigReq} \cup Reports) /\ Head(toControl) = toControl[1]
        /\ 1 \in DOMAIN toControl /\ Head(toControl) \in {ConfigReq} \cup Reports
        /\ Tail(toControl) \in Seq({ConfigReq} \cup Reports)
    BY <1>t, <2>1, TailSeq DEF WireTypeOK
  <2>3. Head(toControl) \in Reports
    BY <1>9, <2>2 DEF Read, HandshakeInv
  <2>4. handling' \in [msg : Reports, left : Seq(Machines)]
    BY <2>1, <2>3, OrderType
  <2>5. ClientTypeOK'
    BY <1>9, <1>t, <2>4 DEF Read, ClientTypeOK
  <2> QED  BY <1>t, <2>1, <2>2, <2>5 DEF WireTypeOK
<1>10. CASE ReadError
  BY <1>10, <1>t, WireKept DEF ReadError, ClientTypeOK, wireVars
<1>11. CASE Handle
  <2>1. UNCHANGED wireVars /\ handling # NoMessage
    BY <1>11 DEF Handle
  <2>2. handling' = NoMessage \/ handling' \in [msg : Reports, left : Seq(Machines)]
    BY <1>11, <1>t, <2>1, HandlingType DEF Handle
  <2>3. ClientTypeOK'
    BY <1>11, <1>t, <2>1, <2>2 DEF Handle, ClientTypeOK, wireVars
  <2> QED  BY <1>t, <2>1, <2>3, WireKept
<1> QED  BY <1>1, <1>2, <1>3, <1>4, <1>5, <1>6, <1>7, <1>8, <1>9, <1>10, <1>11 DEF ClientNext

LEMMA LinkTypeNext ==
  ASSUME TypeOK, LinkTypeOK, HandshakeInv, ConfigInv, [LinkNext]_linkVars
  PROVE  LinkTypeOK'
<1>t. WireTypeOK /\ ClientTypeOK /\ NodeTypeOK
  BY DEF LinkTypeOK
<1>1. CASE EngineStep \/ UNCHANGED linkVars
  <2>1. UNCHANGED <<wireVars, clientVars, nodeVars>>
    BY <1>1 DEF EngineStep, linkVars
  <2>2. UNCHANGED <<conn, clientVars>>
    BY <2>1 DEF wireVars
  <2> QED  BY <1>t, <2>1, <2>2, WireKept, ClientKept, NodeKept DEF LinkTypeOK
<1>2. CASE Connect
  <2>1. /\ conn < MaxConns /\ conn' = conn + 1 /\ broken' = FALSE /\ toNode' = <<>>
        /\ toControl' = <<>> /\ phase' = "hello" /\ failed' = FALSE /\ phase = "down"
        /\ UNCHANGED <<connected, todo, out, writers, reading, handling, checked, atConnect>>
        /\ nodeAt' = "hello" /\ UNCHANGED <<gen, nodeRuns, setBy, requests>>
    BY <1>2 DEF Connect, Dial
  <2>2. conn \in Nat /\ conn' \in 0..MaxConns /\ 1..conn \subseteq 1..conn'
    BY <1>t, <2>1, WireAssumption DEF WireTypeOK
  <2>3. WireTypeOK'
    BY <2>1, <2>2, EmptySeq DEF WireTypeOK
  <2>4. ClientTypeOK'
    BY <1>t, <2>1, <2>2 DEF ClientTypeOK, Up
  <2>5. NodeTypeOK'
    BY <1>t, <2>1 DEF NodeTypeOK, NodeRunSet
  <2> QED  BY <2>3, <2>4, <2>5 DEF LinkTypeOK
<1>3. CASE ClientNext /\ UNCHANGED nodeVars
  BY <1>3, <1>t, ClientTypeNext, NodeKept DEF LinkTypeOK
<1>4. CASE NodeNext /\ UNCHANGED <<vars, clientVars>>
  BY <1>4, <1>t, NodeTypeNext, ClientKept DEF LinkTypeOK
<1>5. CASE LinkBreaks /\ UNCHANGED <<vars, clientVars, nodeVars>>
  <2>1. WireTypeOK' /\ conn' = conn
    BY <1>5, <1>t DEF LinkBreaks, WireTypeOK
  <2> QED  BY <1>5, <1>t, <2>1, ClientKept, NodeKept DEF LinkTypeOK
<1> QED  BY <1>1, <1>2, <1>3, <1>4, <1>5 DEF LinkNext

-----------------------------------------------------------------------------
(* The handshake: config_req is the first thing a connection carries to    *)
(* the control node, and the configuration the first to the node.          *)
Asks(s) ==
  \A i \in DOMAIN s : s[i] = ConfigReq =>
    /\ nodeAt # "hello" /\ phase \in {"down", "hello"} /\ ~reading
    /\ \A j \in DOMAIN s : s[j] = ConfigReq => i = j
Silent(s) == \A i \in DOMAIN s : s[i] # ConfigReq

LEMMA HandshakeInit == LinkInit => HandshakeInv /\ ConfigInv
<1> SUFFICES ASSUME LinkInit PROVE HandshakeInv /\ ConfigInv
  OBVIOUS
<1>1. /\ phase = "down" /\ broken /\ toControl = <<>> /\ toNode = <<>> /\ nodeAt = "none"
      /\ DOMAIN toControl = {}
  BY DEF LinkInit, WireInit, ClientInit, NodeInit
<1> QED  BY <1>1 DEF HandshakeInv, ConfigInv, Up

LEMMA SilentAppend ==
  ASSUME NEW S, NEW s \in Seq(S), NEW x \in S
  PROVE  /\ Silent(s) /\ x # ConfigReq => Silent(Append(s, x))
         /\ Silent(s) /\ nodeAt # "hello" /\ phase \in {"down", "hello"} /\ ~reading =>
              Asks(Append(s, x))
         /\ Asks(s) /\ x # ConfigReq => Asks(Append(s, x))
<1>1. \A i \in DOMAIN Append(s, x) :
        \/ i = Len(s) + 1 /\ Append(s, x)[i] = x
        \/ i \in DOMAIN s /\ Append(s, x)[i] = s[i]
  BY AppendSeq
<1> QED  BY <1>1 DEF Silent, Asks

LEMMA SilentTail ==
  ASSUME NEW S, NEW s \in Seq(S), s # <<>>
  PROVE  /\ Asks(s) /\ Head(s) = ConfigReq => Silent(Tail(s))
         /\ Asks(s) => Asks(Tail(s))
         /\ Silent(s) => Asks(s)
<1>1. /\ Head(s) = s[1] /\ 1 \in DOMAIN s
      /\ \A i \in DOMAIN Tail(s) : i \in Nat /\ i + 1 \in DOMAIN s /\ Tail(s)[i] = s[i + 1]
  BY TailSeq
<1>2. \A i \in DOMAIN Tail(s) : i \in 1..Len(Tail(s))
  BY TailSeq
<1>3. ASSUME Asks(s), Head(s) = ConfigReq, NEW i \in DOMAIN Tail(s), Tail(s)[i] = ConfigReq
      PROVE  FALSE
  <2>1. i + 1 = 1
    BY <1>1, <1>3 DEF Asks
  <2> QED  BY <1>2, <2>1
<1>4. ASSUME Asks(s), NEW i \in DOMAIN Tail(s), NEW j \in DOMAIN Tail(s),
             Tail(s)[i] = ConfigReq, Tail(s)[j] = ConfigReq
      PROVE  i = j
  <2>1. i + 1 = j + 1
    BY <1>1, <1>4 DEF Asks
  <2> QED  BY <1>1, <2>1
<1>5. ASSUME Asks(s), NEW i \in DOMAIN Tail(s), Tail(s)[i] = ConfigReq
      PROVE  nodeAt # "hello" /\ phase \in {"down", "hello"} /\ ~reading
  BY <1>1, <1>5 DEF Asks
<1> QED  BY <1>3, <1>4, <1>5 DEF Asks, Silent

LEMMA HandshakeKept ==
  ASSUME HandshakeInv, UNCHANGED <<conn, broken, phase, reading, nodeAt, toControl>>
  PROVE  HandshakeInv'
BY DEF HandshakeInv

(* The node answers on the connection it has.                              *)
LEMMA HandshakeNode ==
  ASSUME LinkTypeOK, HandshakeInv, ConfigInv, NodeNext, UNCHANGED clientVars
  PROVE  HandshakeInv'
<1>t. /\ toControl \in Seq({ConfigReq} \cup Reports) /\ phase \in {"down", "hello"} \cup Up
      /\ nodeAt \in {"none", "hello", "config", "serving"}
  BY DEF LinkTypeOK, WireTypeOK, ClientTypeOK, NodeTypeOK
<1>u. UNCHANGED <<phase, reading, conn, broken>>
  BY DEF clientVars, NodeNext, Greet, Configure, NodeDisconnected, RequestState,
     handleStateUpdate, EntryHead, EntryScan, EntryFinish, completeRun, ExitStep,
     ExitFinish, reportAbort, nodeStable
<1>a. Asks(toControl)
  BY DEF HandshakeInv, Asks
<1>0. /\ ConfigReq \in {ConfigReq} \cup Reports /\ StateReq # ConfigReq
      /\ AbortTriggered # ConfigReq /\ StateReq \in Reports /\ AbortTriggered \in Reports
      /\ \A id : SequenceComplete(id).kind = "sequence_complete" /\ ConfigReq.kind = "config_req"
  BY DEF ConfigReq, StateReq, AbortTriggered, SequenceComplete, Reports
<1>1. CASE Greet
  <2>1. nodeAt = "hello" /\ nodeAt' = "config" /\ phase \notin Up
    BY <1>1 DEF Greet, HandshakeInv
  <2>2. toControl' = toControl \/ (~broken /\ toControl' = Append(toControl, ConfigReq))
    BY <1>1 DEF Greet, Reply, Carried
  <2>3. Silent(toControl)
    BY <1>a, <2>1 DEF Asks, Silent
  <2>4. CASE toControl' = toControl
    <3>1. Asks(toControl)'
      BY <2>3, <2>4 DEF Silent, Asks
    <3> QED  BY <1>u, <2>1, <3>1 DEF HandshakeInv, Asks
  <2>5. CASE ~broken /\ toControl' = Append(toControl, ConfigReq)
    <3>1. phase = "hello" /\ ~reading
      BY <1>t, <2>1, <2>5 DEF HandshakeInv
    <3>2. \A i, j \in DOMAIN Append(toControl, ConfigReq) :
            Append(toControl, ConfigReq)[i] = ConfigReq
            /\ Append(toControl, ConfigReq)[j] = ConfigReq => i = j
      BY <1>0, <1>t, <2>3, AppendSeq DEF Silent
    <3> QED  BY <1>u, <2>1, <2>5, <3>1, <3>2 DEF HandshakeInv, Up
  <2> QED  BY <2>2, <2>4, <2>5
<1>2. ASSUME NEW x \in Reports, x # ConfigReq, Reply(x), UNCHANGED nodeAt
      PROVE  HandshakeInv'
  <2>1. toControl' = toControl \/ toControl' = Append(toControl, x)
    BY <1>2 DEF Reply, Carried
  <2>2. Asks(Append(toControl, x))
    BY <1>a, <1>t, <1>2, SilentAppend
  <2>3. Asks(toControl')
    BY <1>a, <2>1, <2>2
  <2> QED  BY <1>u, <1>2, <2>3 DEF HandshakeInv, Asks
<1>3. CASE Configure \/ NodeDisconnected
  <2>1. /\ toControl' = toControl /\ nodeAt' \in {"none", "serving"}
        /\ nodeAt' = "none" => broken
        /\ nodeAt' = "serving" => nodeAt = "config" /\ toNode # <<>>
    BY <1>3 DEF Configure, NodeDisconnected
  <2>2. CASE nodeAt' = "none"
    BY <1>u, <1>3, <2>1, <2>2 DEF HandshakeInv, Up
  <2>3. CASE nodeAt' = "serving" /\ phase # "hello"
    BY <1>u, <1>3, <2>1, <2>3 DEF HandshakeInv, Up
  <2> QED  BY <2>1, <2>2, <2>3 DEF ConfigInv
<1>4. CASE RequestState
  BY <1>0, <1>2, <1>4 DEF RequestState
<1>5. ASSUME NEW r \in nodeRuns, completeRun(r) \/ reportAbort(r) PROVE HandshakeInv'
  <2>1. r.update.runId \in Nat
    BY DEF LinkTypeOK, NodeTypeOK, NodeRunSet, StateUpdates
  <2>2. SequenceComplete(r.update.runId) \in Reports /\ SequenceComplete(r.update.runId) # ConfigReq
    BY <1>0, <2>1 DEF SequenceComplete, Reports
  <2>3. UNCHANGED nodeAt
    BY <1>5 DEF completeRun, reportAbort, nodeStable
  <2> QED  BY <1>0, <1>2, <1>5, <2>2, <2>3 DEF completeRun, reportAbort
<1>6. CASE handleStateUpdate \/ \E r \in nodeRuns : EntryHead(r) \/ EntryScan(r)
             \/ EntryFinish(r) \/ ExitStep(r) \/ ExitFinish(r)
  <2>1. UNCHANGED <<nodeAt, toControl>>
    BY <1>6 DEF handleStateUpdate, EntryHead, EntryScan, EntryFinish, ExitStep, ExitFinish,
       nodeStable
  <2> QED  BY <1>u, <2>1, HandshakeKept
<1> QED  BY <1>1, <1>2, <1>3, <1>4, <1>5, <1>6 DEF NodeNext

LEMMA HandshakeNext ==
  ASSUME LinkTypeOK, HandshakeInv, ConfigInv, [LinkNext]_linkVars
  PROVE  HandshakeInv'
<1>t. /\ toControl \in Seq({ConfigReq} \cup Reports) /\ phase \in {"down", "hello"} \cup Up
      /\ conn \in Nat /\ conn + 1 # 0
  BY WireAssumption DEF LinkTypeOK, WireTypeOK, ClientTypeOK
<1>a. Asks(toControl)
  BY DEF HandshakeInv, Asks
<1>b. ASSUME phase \in {"notify", "drain", "serve"} PROVE Silent(toControl)
  BY <1>a, <1>b DEF Asks, Silent
<1>1. CASE EngineStep \/ UNCHANGED linkVars
  BY <1>1, HandshakeKept DEF EngineStep, linkVars, wireVars, clientVars, nodeVars
<1>2. CASE Connect
  <2>1. /\ conn' = conn + 1 /\ toControl' = <<>> /\ phase' = "hello" /\ nodeAt' = "hello"
        /\ UNCHANGED reading /\ ~reading
    BY <1>2 DEF Connect, Dial, Settled
  <2>2. DOMAIN toControl' = {}
    BY <2>1
  <2> QED  BY <1>t, <2>1, <2>2 DEF HandshakeInv, Up
<1>3. CASE NodeNext /\ UNCHANGED <<vars, clientVars>>
  BY <1>3, HandshakeNode
<1>4. CASE LinkBreaks /\ UNCHANGED <<vars, clientVars, nodeVars>>
  BY <1>4 DEF LinkBreaks, clientVars, nodeVars, HandshakeInv
<1>5. CASE ClientNext /\ UNCHANGED nodeVars
  <2>n. UNCHANGED nodeAt
    BY <1>5 DEF nodeVars
  <2>1. CASE (\E s \in Senders : SendCheck(s) \/ SendRefused(s) \/ SendQueued(s))
             \/ (\E w \in writers : Write(w)) \/ DrainOne \/ Handle
    BY <2>1, <2>n, HandshakeKept DEF SendCheck, SendRefused, SendQueued, Write, DrainOne, Handle,
       wireVars
  <2>2. CASE HandshakeDone
    <3>1. /\ toControl # <<>> /\ Head(toControl) = ConfigReq /\ toControl' = Tail(toControl)
          /\ phase = "hello" /\ phase' = "notify" /\ UNCHANGED <<conn, broken, reading>>
      BY <2>2 DEF HandshakeDone
    <3>2. Silent(Tail(toControl))
      BY <1>a, <1>t, <3>1, SilentTail
    <3>3. nodeAt # "hello"
      <4>1. Head(toControl) = toControl[1] /\ 1 \in DOMAIN toControl
        BY <1>t, <3>1, TailSeq
      <4> QED  BY <1>a, <3>1, <4>1 DEF Asks
    <3> QED  BY <2>n, <3>1, <3>2, <3>3 DEF HandshakeInv, Silent, Up
  <2>3. CASE HandshakeFails
    <3>1. phase = "hello" /\ phase' = "down" /\ broken' /\ UNCHANGED <<toControl, reading>>
      BY <2>3 DEF HandshakeFails
    <3> QED  BY <2>n, <3>1 DEF HandshakeInv, Up
  <2>4. CASE NotifyMachines \/ Serve \/ ReadError
    <3>1. /\ UNCHANGED wireVars
          /\ \/ phase = "notify" /\ phase' \in {"notify", "drain"} /\ UNCHANGED reading
             \/ phase = "drain" /\ phase' = "serve"
             \/ phase' = phase /\ ~reading'
      BY <2>4 DEF NotifyMachines, postConnectStable, Serve, ReadError
    <3>2. UNCHANGED <<conn, broken, toControl>>
      BY <3>1 DEF wireVars
    <3>3. CASE phase = "notify" \/ phase = "drain"
      <4>1. Silent(toControl)'
        BY <1>b, <3>2, <3>3 DEF Silent
      <4> QED  BY <2>n, <3>1, <3>2, <3>3, <4>1 DEF HandshakeInv, Silent, Up
    <3>4. CASE phase' = phase /\ ~reading'
      BY <2>n, <3>2, <3>4 DEF HandshakeInv
    <3> QED  BY <3>1, <3>3, <3>4
  <2>5. CASE Disconnect
    <3>1. phase = "serve" /\ phase' = "down" /\ broken' /\ UNCHANGED <<toControl, reading, conn>>
      BY <2>5 DEF Disconnect
    <3>2. Silent(toControl)'
      BY <1>b, <3>1 DEF Silent
    <3> QED  BY <2>n, <3>1, <3>2 DEF HandshakeInv, Silent, Up
  <2>6. CASE Read
    <3>1. /\ toControl # <<>> /\ toControl' = Tail(toControl)
          /\ UNCHANGED <<conn, broken, phase, reading>>
      BY <2>6 DEF Read
    <3>2. Asks(Tail(toControl))
      BY <1>a, <1>t, <3>1, SilentTail
    <3> QED  BY <2>n, <3>1, <3>2 DEF HandshakeInv, Asks
  <2> QED  BY <1>5, <2>1, <2>2, <2>3, <2>4, <2>5, <2>6 DEF ClientNext
<1> QED  BY <1>1, <1>2, <1>3, <1>4, <1>5 DEF LinkNext

LEMMA ConfigKept ==
  ASSUME ConfigInv, UNCHANGED <<broken, connected, phase, nodeAt, toNode>>
  PROVE  ConfigInv'
BY DEF ConfigInv

LEMMA ConfigNext ==
  ASSUME LinkTypeOK, HandshakeInv, ConfigInv, WritersInv, [LinkNext]_linkVars
  PROVE  ConfigInv'
<1>t. /\ phase \in {"down", "hello"} \cup Up /\ (connected <=> phase \in Up)
      /\ nodeAt \in {"none", "hello", "config", "serving"}
      /\ toNode \in Seq({Config} \cup StateUpdates)
  BY DEF LinkTypeOK, WireTypeOK, ClientTypeOK, NodeTypeOK
<1>1. CASE EngineStep \/ UNCHANGED linkVars
  BY <1>1, ConfigKept DEF EngineStep, linkVars, wireVars, clientVars, nodeVars
<1>2. CASE Connect
  BY <1>2 DEF Connect, Dial, ConfigInv
<1>3. CASE NodeNext /\ UNCHANGED <<vars, clientVars>>
  <2>u. UNCHANGED <<phase, connected>>
    BY <1>3 DEF clientVars
  <2>1. CASE Greet
    <3>1. nodeAt = "hello" /\ nodeAt' = "config" /\ UNCHANGED <<broken, toNode>>
      BY <2>1 DEF Greet
    <3>2. phase \notin Up /\ toNode = <<>>
      BY <3>1 DEF HandshakeInv, ConfigInv
    <3> QED  BY <1>t, <2>u, <3>1, <3>2 DEF ConfigInv
  <2>2. CASE Configure
    <3>1. /\ nodeAt = "config" /\ toNode # <<>> /\ nodeAt' = "serving" /\ toNode' = Tail(toNode)
          /\ UNCHANGED broken
      BY <2>2 DEF Configure
    <3>2. Tail(toNode) \in Seq(StateUpdates) /\ phase # "hello"
      BY <3>1 DEF ConfigInv
    <3> QED  BY <2>u, <3>1, <3>2 DEF ConfigInv
  <2>3. CASE NodeDisconnected
    <3>1. nodeAt' = "none" /\ toNode' = <<>>
      BY <2>3 DEF NodeDisconnected
    <3> QED  BY <3>1 DEF ConfigInv
  <2>4. CASE handleStateUpdate
    <3>1. nodeAt = "serving" /\ toNode # <<>> /\ nodeAt' = "serving" /\ toNode' = Tail(toNode)
      BY <2>4 DEF handleStateUpdate
    <3>2. toNode \in Seq(StateUpdates)
      BY <3>1 DEF ConfigInv
    <3>3. Tail(toNode) \in Seq(StateUpdates) /\ phase # "hello"
      BY <3>1, <3>2, TailSeq DEF ConfigInv
    <3> QED  BY <2>u, <3>1, <3>3 DEF ConfigInv
  <2>5. CASE UNCHANGED <<broken, nodeAt, toNode>>
    BY <2>u, <2>5, ConfigKept
  <2> QED  BY <1>3, <2>1, <2>2, <2>3, <2>4, <2>5 DEF NodeNext, RequestState, EntryHead, EntryScan,
           EntryFinish, completeRun, ExitStep, ExitFinish, reportAbort, nodeStable
<1>4. CASE LinkBreaks /\ UNCHANGED <<vars, clientVars, nodeVars>>
  BY <1>4 DEF LinkBreaks, clientVars, nodeVars, ConfigInv
<1>5. CASE ClientNext /\ UNCHANGED nodeVars
  <2>n. UNCHANGED nodeAt
    BY <1>5 DEF nodeVars
  <2>1. CASE (\E s \in Senders : SendCheck(s) \/ SendRefused(s) \/ SendQueued(s))
             \/ DrainOne \/ Handle \/ Read \/ ReadError
    BY <2>1, <2>n, ConfigKept DEF SendCheck, SendRefused, SendQueued, DrainOne, Handle, Read,
       ReadError, wireVars
  <2>2. CASE HandshakeDone
    <3>1. /\ phase = "hello" /\ phase' = "notify" /\ connected' = TRUE /\ UNCHANGED broken
          /\ toNode' = IF broken THEN toNode ELSE Append(toNode, Config)
      BY <2>2 DEF HandshakeDone, Carried
    <3>2. toNode = <<>> /\ nodeAt # "serving"
      BY <3>1 DEF ConfigInv, HandshakeInv
    <3>3. nodeAt # "hello"
      <4>1. toControl # <<>> /\ Head(toControl) = ConfigReq
        BY <2>2 DEF HandshakeDone
      <4>2. toControl \in Seq({ConfigReq} \cup Reports)
        BY DEF LinkTypeOK, WireTypeOK
      <4>3. Head(toControl) = toControl[1] /\ 1 \in DOMAIN toControl
        BY <4>1, <4>2, TailSeq
      <4> QED  BY <4>1, <4>3 DEF HandshakeInv
    <3>4. nodeAt = "none" => broken
      BY DEF HandshakeInv
    <3>5. /\ Append(toNode, Config) # <<>> /\ Head(Append(toNode, Config)) = Config
          /\ Tail(Append(toNode, Config)) \in Seq(StateUpdates)
      BY <1>t, <3>2, AppendSeq, EmptySeq
    <3>6. CASE broken
      BY <2>n, <3>1, <3>2, <3>6 DEF ConfigInv
    <3>7. CASE ~broken
      BY <1>t, <2>n, <3>1, <3>2, <3>3, <3>4, <3>5, <3>7 DEF ConfigInv
    <3> QED  BY <3>6, <3>7
  <2>3. CASE HandshakeFails \/ Disconnect
    <3>1. phase' = "down" /\ broken' /\ UNCHANGED toNode
      BY <2>3 DEF HandshakeFails, Disconnect
    <3> QED  BY <2>n, <3>1 DEF ConfigInv
  <2>4. CASE NotifyMachines \/ Serve
    <3>1. UNCHANGED <<broken, toNode, connected>> /\ phase' # "hello"
      BY <2>4 DEF NotifyMachines, postConnectStable, Serve, wireVars
    <3> QED  BY <2>n, <3>1 DEF ConfigInv
  <2>5. ASSUME NEW w \in writers, Write(w) PROVE ConfigInv'
    <3>1. UNCHANGED <<phase, connected, broken>>
      BY <2>5 DEF Write
    <3>2. CASE UNCHANGED toNode
      BY <2>n, <3>1, <3>2, ConfigKept
    <3>3. CASE w = conn /\ ~broken /\ toNode' = Append(toNode, Head(out))
      <4>1. phase = "serve" /\ connected
        BY <1>t, <3>3 DEF WritersInv, Up
      <4>2. nodeAt \in {"config", "serving"}
        BY <1>t, <3>3, <4>1 DEF HandshakeInv, Up
      <4>3. Head(out) \in StateUpdates
        <5>1. out \in Seq(StateUpdates) /\ out # <<>>
          BY <2>5 DEF LinkTypeOK, ClientTypeOK, Write
        <5> QED  BY <5>1, TailSeq
      <4>4. CASE nodeAt = "config"
        <5>1. toNode # <<>> /\ Head(toNode) = Config /\ Tail(toNode) \in Seq(StateUpdates)
          BY <3>3, <4>1, <4>4 DEF ConfigInv
        <5>2. /\ Append(toNode, Head(out)) # <<>>
              /\ Head(Append(toNode, Head(out))) = Config
              /\ Tail(Append(toNode, Head(out))) = Append(Tail(toNode), Head(out))
          BY <1>t, <4>3, <5>1, AppendSeq
        <5>3. Append(Tail(toNode), Head(out)) \in Seq(StateUpdates)
          BY <4>3, <5>1, AppendSeq
        <5> QED  BY <2>n, <3>1, <3>3, <4>1, <4>4, <5>2, <5>3 DEF ConfigInv
      <4>5. CASE nodeAt = "serving"
        <5>1. toNode \in Seq(StateUpdates)
          BY <4>5 DEF ConfigInv
        <5>2. Append(toNode, Head(out)) \in Seq(StateUpdates)
          BY <4>3, <5>1, AppendSeq
        <5> QED  BY <2>n, <3>1, <3>3, <4>1, <4>5, <5>2 DEF ConfigInv
      <4> QED  BY <4>2, <4>4, <4>5
    <3> QED  BY <2>5, <3>2, <3>3 DEF Write
  <2> QED  BY <1>5, <2>1, <2>2, <2>3, <2>4, <2>5 DEF ClientNext
<1> QED  BY <1>1, <1>2, <1>3, <1>4, <1>5 DEF LinkNext

-----------------------------------------------------------------------------
(* What holds of the link and of the engine in it, in every state.         *)
LinkShape == LinkTypeOK /\ HandshakeInv /\ ConfigInv /\ WritersInv
LinkCore == Core /\ IdsInv /\ TodoInv /\ LinkShape

LEMMA LinkCoreNext ==
  ASSUME LinkCore, [LinkNext]_linkVars
  PROVE  LinkCore' /\ [Next]_vars
<1>1. [Next]_vars
  BY EngineSteps DEF LinkCore, Core
<1>2. Core' /\ IdsInv'
  BY <1>1, NextType, RunsNext, RecordNext, RequestsNext, IdsNext DEF LinkCore, Core
<1>3. TodoInv'
  BY TodoNext DEF LinkCore
<1>4. LinkShape'
  BY LinkTypeNext, HandshakeNext, ConfigNext, WritersNext DEF LinkCore, LinkShape, Core
<1> QED  BY <1>1, <1>2, <1>3, <1>4 DEF LinkCore

LEMMA LinkCoreHolds == LinkSpec => []LinkCore
<1>1. LinkInit => LinkCore
  BY RequestsInit, IdsInit, TodoInit, LinkTypeInit, HandshakeInit, LeftoverInit
     DEF LinkInit, LinkCore, Core, LinkShape
<1>2. LinkCore /\ [LinkNext]_linkVars => LinkCore'
  BY LinkCoreNext
<1> QED  BY <1>1, <1>2, PTL DEF LinkSpec

(* What the client, the connection and the node hold is what their Go      *)
(* types and their channels' capacities allow; the read loop is given no   *)
(* config_req and the node's serving loop no second configuration.         *)
THEOREM LinkTypeCorrect == LinkSpec => []LinkTypeOK
<1>1. LinkCore => LinkTypeOK
  BY DEF LinkCore, LinkShape
<1> QED  BY <1>1, LinkCoreHolds, PTL

-----------------------------------------------------------------------------
(* A request that interrupts whatever the machine does is kept until it    *)
(* has moved the machine.                                                  *)

LEMMA EpochGrows ==
  ASSUME TypeOK, [Next]_vars, NEW m \in Machines
  PROVE  /\ epoch[m] \in Nat
         /\ \/ epoch'[m] = epoch[m] /\ cur'[m] = cur[m]
            \/ epoch'[m] = epoch[m] + 1
<1>t. epoch[m] \in Nat
  BY DEF TypeOK, MachineTypeOK
<1>1. CASE Entry
  <2>0. PICK n \in Machines : \E s \in StatesOf(n) : enterState(n, s)
    BY <1>1 DEF Entry
  <2>1. PICK s \in StatesOf(n) : enterState(n, s)
    BY <2>0
  <2> QED  BY <1>t, <2>1, EnterFields
<1>2. CASE UNCHANGED <<cur, epoch>>
  BY <1>t, <1>2
<1> QED  BY <1>1, <1>2, EntrySteps

LEMMA RangeHead ==
  ASSUME NEW S, NEW s \in Seq(S), s # <<>>
  PROVE  Range(s) \subseteq {Head(s)} \cup Range(Tail(s))
<1>1. ASSUME NEW i \in DOMAIN s, i # 1
      PROVE  s[i] \in Range(Tail(s))
  <2>1. i - 1 \in 1..(Len(s) - 1) /\ Tail(s)[i - 1] = s[i]
    BY <1>1
  <2>2. i - 1 \in DOMAIN Tail(s)
    BY <2>1
  <2> QED  BY <2>1, <2>2 DEF Range
<1>2. Head(s) = s[1]
  BY TailSeq
<1> QED  BY <1>1, <1>2 DEF Range

LEMMA PendingKept ==
  ASSUME NEW m, AbortPending(m), UNCHANGED caller,
         Range(prio) \cup Range(batch) \subseteq Range(prio') \cup Range(batch')
  PROVE  AbortPending(m)'
BY DEF AbortPending

LEMMA PendingLoop ==
  ASSUME TypeOK, Loop, NEW m \in Machines, AbortPending(m)
  PROVE  AbortPending(m)' \/ epoch'[m] # epoch[m]
<1>t. prio \in Seq(RequestSet) /\ batch \in Seq(RequestSet)
  BY DEF TypeOK, QueueTypeOK, LoopTypeOK
<1>1. CASE UNCHANGED <<prio, batch, caller>>
  BY <1>1, PendingKept
<1>2. CASE TakeBatch
  <2>1. batch = <<>> /\ batch' = prio /\ prio' = <<>> /\ UNCHANGED caller
    BY <1>2 DEF TakeBatch, envVars
  <2> QED  BY <2>1, RangeNone, PendingKept
<1>3. CASE ApplyBatch
  <2> DEFINE q == Head(batch)
  <2>1. batch # <<>> /\ batch' = Tail(batch) /\ applyTransition(q) /\ UNCHANGED <<prio, caller>>
    BY <1>3 DEF ApplyBatch, queueVars, envVars
  <2>2. q \in RequestSet /\ Range(batch) \subseteq {q} \cup Range(batch')
    BY <1>t, <2>1, TailSeq, RangeHead
  <2>3. CASE q.machine = m /\ q.epoch = 0
    <3>1. enterState(m, q.target) /\ q.target \in StatesOf(m)
      BY <2>1, <2>2, <2>3 DEF applyTransition, Stale, RequestSet
    <3>2. epoch'[m] = epoch[m] + 1 /\ epoch[m] \in Nat
      BY <3>1, EnterFields
    <3> QED  BY <3>2
  <2>4. CASE ~(q.machine = m /\ q.epoch = 0)
    BY <2>1, <2>2, <2>4 DEF AbortPending
  <2> QED  BY <2>3, <2>4
<1>4. CASE ControllerCommand
  <2> DEFINE x == Command(ControllerStmts[pc])
  <2>1. prio' = Append(prio, x) /\ UNCHANGED <<batch, caller>>
    BY <1>4 DEF ControllerCommand, enqueuePriority, envVars
  <2>2. Range(prio) \subseteq Range(prio')
    <3>1. \A i \in DOMAIN prio : i \in DOMAIN prio' /\ prio'[i] = prio[i]
      BY <1>t, <2>1
    <3> QED  BY <3>1 DEF Range
  <2> QED  BY <2>1, <2>2, PendingKept
<1> QED  BY <1>1, <1>2, <1>3, <1>4 DEF Loop, HandOver, Start, SelectPriority, SelectTransition,
         SelectTick, SelectDone, DrainDone, DrainTransition, DrainTransitionsDone,
         ControllerAssign, ControllerIf, ControllerTransition, ControllerDone, PokeRuns,
         queueVars, loopVars, envVars

LEMMA PendingRun ==
  ASSUME TypeOK, NEW r \in runs, Run(r), NEW m, AbortPending(m)
  PROVE  AbortPending(m)'
<1>1. UNCHANGED <<batch, caller>>
  BY DEF Run, RunEnd, RunFetch, RunError, RunAssign, RunIf, RunCommand, RunSignal, RunPoll,
     RunAwait, RunSend, runStable, loopVars
<1>2. prio' = prio \/ prio' = Append(prio, Command(Stmt(r)))
  BY DEF Run, RunEnd, RunFetch, RunError, RunAssign, RunIf, RunCommand, RunSignal, RunPoll,
     RunAwait, RunSend, queueVars
<1>3. Range(prio) \subseteq Range(prio')
  <2>1. \A i \in DOMAIN prio : i \in DOMAIN prio' /\ prio'[i] = prio[i]
    BY <1>2 DEF TypeOK, QueueTypeOK
  <2> QED  BY <2>1 DEF Range
<1> QED  BY <1>1, <1>3, PendingKept

LEMMA PendingCall ==
  ASSUME TypeOK, NEW c \in Callers, Console(c) \/ Reporter(c), NEW m, AbortPending(m)
  PROVE  AbortPending(m)'
<1>t. caller \in [Callers -> CallSet] /\ prio \in Seq(RequestSet) /\ Reporters \subseteq Callers
  BY DEF TypeOK, EnvTypeOK, QueueTypeOK, Callers
<1>u. UNCHANGED batch
  BY DEF Console, Reporter, RequestTarget, Begins, OfferTransition,
     NotifyAbortTriggered, NotifySequenceComplete, NotifyUncertain, CurrentDaqPayload,
     AppendPriority, SignalPriority, ResolvePayload, StampPayload, HandPayload,
     callerStable, loopVars
<1>1. CASE AppendPriority(c)
  <2> DEFINE x == caller[c].req
  <2>1. /\ prio' = Append(prio, x) /\ caller[c].at = "append"
        /\ caller' = [caller EXCEPT ![c] = [at |-> "signal"]]
    BY <1>1 DEF AppendPriority
  <2>2. x \in RequestSet
    BY <1>t, <2>1, CallType
  <2>3. Range(prio') = Range(prio) \cup {x}
    BY <1>t, <2>1, <2>2, RangeAppend, Ranges
  <2>4. \A d \in Callers \ {c} : caller'[d] = caller[d]
    BY <1>t, <2>1
  <2> QED  BY <1>t, <1>u, <2>3, <2>4 DEF AbortPending
<1>2. CASE UNCHANGED prio /\ caller[c].at # "append"
           /\ \A d \in Callers \ {c} : caller'[d] = caller[d]
  BY <1>t, <1>u, <1>2 DEF AbortPending
<1>3. ASSUME NEW k, caller' = [caller EXCEPT ![c] = k]
      PROVE  \A d \in Callers \ {c} : caller'[d] = caller[d]
  BY <1>t, <1>3
<1>4. CASE \/ OfferTransition(c) \/ SignalPriority(c) \/ ResolvePayload(c) \/ StampPayload(c)
           \/ HandPayload(c)
  BY <1>2, <1>3, <1>4 DEF OfferTransition, SignalPriority, ResolvePayload, StampPayload,
     HandPayload, queueVars
<1>5. ASSUME NEW k, Begins(c, k) PROVE AbortPending(m)'
  <2>1. caller[c].at # "append"
    BY <1>5 DEF Begins, Idle
  <2> QED  BY <1>2, <1>3, <1>5, <2>1 DEF Begins, queueVars
<1>6. CASE Console(c)
  BY <1>4, <1>5, <1>6 DEF Console, RequestTarget
<1>7. CASE Reporter(c)
  BY <1>1, <1>4, <1>5, <1>7 DEF Reporter, NotifyAbortTriggered, NotifySequenceComplete,
     NotifyUncertain, CurrentDaqPayload
<1> QED  BY <1>6, <1>7

LEMMA PendingNext ==
  ASSUME TypeOK, [Next]_vars, NEW m \in Machines, AbortPending(m)
  PROVE  AbortPending(m)' \/ epoch'[m] # epoch[m]
<1>1. CASE Shutdown \/ UNCHANGED vars
  BY <1>1, PendingKept DEF Shutdown, vars, queueVars, loopVars, envVars
<1> QED  BY <1>1, PendingLoop, PendingRun, PendingCall DEF Next, Callers

(* Both connect handlers leave no running machine behind.                  *)
LEMMA UncertainInit == LinkInit => UncertainInv
<1> SUFFICES ASSUME LinkInit PROVE UncertainInv
  OBVIOUS
<1>1. atConnect = epoch /\ \A m \in Machines : epoch[m] = 0
  BY DEF LinkInit, ClientInit, Init
<1>2. phase = "down"
  BY DEF LinkInit, ClientInit
<1> QED  BY <1>1, <1>2 DEF UncertainInv, Up

(* A step in which the post-connect loop does nothing.                     *)
LEMMA UncertainKept ==
  ASSUME LinkCore, UncertainInv, [Next]_vars, UNCHANGED <<todo, atConnect>>,
         phase' = phase \/ phase' \notin Up \/ (phase \in Up /\ todo = <<>>)
  PROVE  UncertainInv'
<1>t. TypeOK /\ \A m \in Machines : atConnect[m] \in Nat
  BY DEF LinkCore, Core, LinkShape, LinkTypeOK, ClientTypeOK
<1>1. ASSUME NEW m \in Machines
      PROVE  atConnect'[m] <= epoch'[m]
  <2>1. /\ epoch[m] \in Nat /\ epoch'[m] \in {epoch[m], epoch[m] + 1}
        /\ atConnect[m] <= epoch[m] /\ atConnect'[m] = atConnect[m]
    BY <1>t, EpochGrows DEF UncertainInv
  <2> QED  BY <1>t, <2>1
<1>2. ASSUME NEW m \in Machines \ Range(todo), phase \in Up, Uncertain(m)'
      PROVE  AbortPending(m)'
  <2>1. epoch'[m] = atConnect[m]
    BY <1>2 DEF Uncertain
  <2>2. epoch'[m] = epoch[m] /\ cur'[m] = cur[m]
    <3>1. epoch[m] \in Nat /\ atConnect[m] <= epoch[m]
      BY <1>t, EpochGrows DEF UncertainInv
    <3> QED  BY <1>t, <2>1, <3>1, EpochGrows
  <2>3. Uncertain(m)
    BY <1>2, <2>2 DEF Uncertain, Def
  <2>4. AbortPending(m)
    BY <1>2, <2>3 DEF UncertainInv
  <2> QED  BY <1>t, <2>2, <2>4, PendingNext
<1>3. phase' \in {"drain", "serve"} => todo' = <<>>
  BY DEF UncertainInv, Up
<1>4. phase' \in Up => phase \in Up
  OBVIOUS
<1> QED  BY <1>1, <1>2, <1>3, <1>4 DEF UncertainInv

LEMMA UncertainNotify ==
  ASSUME LinkCore, UncertainInv, NotifyMachines, [Next]_vars
  PROVE  UncertainInv'
<1>t. /\ TypeOK /\ todo \in Seq(Machines) /\ phase = "notify" /\ "notify" \in Up
      /\ UNCHANGED atConnect
  BY DEF LinkCore, Core, LinkShape, LinkTypeOK, ClientTypeOK, NotifyMachines, postConnectStable, Up
<1>1. CASE todo = <<>>
  BY <1>t, <1>1, UncertainKept DEF NotifyMachines
<1>2. CASE todo # <<>>
  <2>h. PICK h \in Machines : h = Head(todo)
    BY <1>t, <1>2, TailSeq
  <2>1. todo' = Tail(todo) /\ UNCHANGED phase
    BY <1>2 DEF NotifyMachines
  <2>2. UNCHANGED <<cur, epoch>>
    BY <1>2 DEF NotifyMachines, NotifyUncertain, Begins, callerStable, vars, machineVars
  <2>3. ASSUME Uncertain(h)
        PROVE  AbortPending(h)'
    <3>1. NotifyUncertain(Linker, h, Node)
      BY <1>2, <2>h, <2>3 DEF NotifyMachines, IsRunningOnNode, Uncertain
    <3>2. caller' = [caller EXCEPT ![Linker] =
                       [at |-> "append", req |-> Request(h, Def(h).abortTo, 0)]]
      BY <3>1 DEF NotifyUncertain, Begins
    <3>3. /\ caller'[Linker].at = "append" /\ caller'[Linker].req = Request(h, Def(h).abortTo, 0)
          /\ Linker \in Reporters
      BY <1>t, <3>2, ClientAssumption DEF TypeOK, EnvTypeOK, Callers
    <3> QED  BY <3>3 DEF AbortPending, Request
  <2>4. Range(todo) \subseteq {h} \cup Range(todo')
    BY <1>t, <1>2, <2>h, <2>1, RangeHead
  <2>5. ASSUME NEW m \in Machines \ Range(todo'), Uncertain(m)'
        PROVE  AbortPending(m)'
    <3>1. Uncertain(m)
      BY <1>t, <2>2, <2>5 DEF Uncertain, Def
    <3>2. CASE m = h
      BY <2>3, <3>1, <3>2
    <3>3. CASE m # h
      <4>1. AbortPending(m)
        BY <1>t, <2>4, <2>5, <3>1, <3>3 DEF UncertainInv
      <4> QED  BY <1>t, <2>2, <4>1, PendingNext
    <3> QED  BY <3>2, <3>3
  <2> QED  BY <1>t, <2>1, <2>2, <2>5 DEF UncertainInv
<1> QED  BY <1>1, <1>2

LEMMA UncertainNext ==
  ASSUME LinkCore, UncertainInv, [LinkNext]_linkVars
  PROVE  UncertainInv'
<1>t. TypeOK /\ [Next]_vars /\ ClientTypeOK
  BY LinkCoreNext DEF LinkCore, Core, LinkShape, LinkTypeOK
<1>1. CASE EngineStep \/ UNCHANGED linkVars \/ (NodeNext /\ UNCHANGED <<vars, clientVars>>)
           \/ (LinkBreaks /\ UNCHANGED <<vars, clientVars, nodeVars>>)
  BY <1>t, <1>1, UncertainKept DEF EngineStep, linkVars, clientVars
<1>2. CASE Connect \/ HandshakeFails \/ Disconnect
  <2>1. phase' \notin Up /\ UNCHANGED <<todo, atConnect>>
    BY <1>2 DEF Connect, Dial, HandshakeFails, Disconnect, Up
  <2> QED  BY <1>t, <2>1, UncertainKept
<1>3. CASE (\E s \in Senders : SendCheck(s) \/ SendRefused(s) \/ SendQueued(s))
           \/ (\E w \in writers : Write(w)) \/ DrainOne \/ Handle \/ Read \/ ReadError
  <2>1. UNCHANGED <<phase, todo, atConnect>>
    BY <1>3 DEF SendCheck, SendRefused, SendQueued, Write, DrainOne, Handle, Read, ReadError
  <2> QED  BY <1>t, <2>1, UncertainKept
<1>4. CASE Serve
  <2>1. phase = "drain" /\ UNCHANGED <<todo, atConnect>> /\ phase \in Up /\ todo = <<>>
    BY <1>4 DEF Serve, Up, UncertainInv
  <2> QED  BY <1>t, <2>1, UncertainKept
<1>5. CASE NotifyMachines
  BY <1>t, <1>5, UncertainNotify
<1>6. CASE HandshakeDone
  <2>1. phase' = "notify" /\ todo' = Order /\ atConnect' = epoch /\ epoch' = epoch
    BY <1>6 DEF HandshakeDone, vars, machineVars
  <2>2. \A m \in Machines : m \in Range(todo')
    BY <2>1, EngineAssumption DEF Range
  <2>3. \A m \in Machines : epoch[m] \in Nat
    BY <1>t DEF TypeOK, MachineTypeOK
  <2> QED  BY <2>1, <2>2, <2>3 DEF UncertainInv
<1> QED  BY <1>1, <1>2, <1>3, <1>4, <1>5, <1>6 DEF LinkNext, ClientNext

(* A node that comes back, or comes up late, never leaves a machine in a   *)
(* state whose progress nobody knows: before the connection carries its    *)
(* first message the machine is on its way to the state's abort            *)
(* destination, for any number of machines, drops and racing requests.     *)
THEOREM UncertainAborted == LinkSpec => []UncertainIsAborted
<1>1. LinkCore /\ UncertainInv => UncertainIsAborted
  BY RangeNone DEF UncertainInv, UncertainIsAborted, Uncertain, Running, IsRunningOnNode, Up
<1>2. LinkCore /\ UncertainInv /\ [LinkNext]_linkVars => UncertainInv'
  BY UncertainNext
<1> QED  BY <1>1, <1>2, UncertainInit, LinkCoreHolds, PTL DEF LinkSpec

-----------------------------------------------------------------------------
(* Tickets: a run id goes with one entry of one machine, from the moment   *)
(* the engine draws it to the node's run.                                  *)

(* A step of the engine draws at most one id, and passes the others on.    *)
Drawn == /\ runId' \in {runId, runId + 1}
         /\ \/ EngineTickets' \subseteq EngineTickets
            \/ \E x : /\ EngineTickets' \subseteq EngineTickets \cup {x}
                      /\ x.id = runId + 1 /\ runId' = runId + 1

LEMMA DrawnEntry == ASSUME Core, Entry PROVE Drawn
<1>t. /\ TypeOK /\ rec \in [Machines -> RecordSet] /\ runId \in Nat
  BY DEF Core, TypeOK, MachineTypeOK
<1>0. PICK m \in Machines : \E s \in StatesOf(m) :
        enterState(m, s) /\ pend = NoPayload /\ UNCHANGED envVars
  BY DEF Entry
<1>1. PICK s \in StatesOf(m) : enterState(m, s) /\ pend = NoPayload /\ UNCHANGED envVars
  BY <1>0
<1>2. /\ epoch'[m] = epoch[m] + 1
      /\ \A n \in Machines \ {m} : rec'[n] = rec[n]
      /\ \/ UNCHANGED <<rec, runId, pend>>
         \/ /\ runId' = runId + 1
            /\ rec'[m] = [state |-> s, epoch |-> epoch[m] + 1, runId |-> runId + 1]
            /\ pend' = [machine |-> m, runId |-> runId + 1]
  BY <1>t, <1>1, EnterFields
<1>3. UNCHANGED caller
  BY <1>1 DEF envVars
<1>4. CASE UNCHANGED <<rec, runId, pend>>
  BY <1>1, <1>3, <1>4 DEF Drawn, EngineTickets
<1>5. CASE /\ runId' = runId + 1
           /\ rec'[m] = [state |-> s, epoch |-> epoch[m] + 1, runId |-> runId + 1]
           /\ pend' = [machine |-> m, runId |-> runId + 1]
  <2> DEFINE x == Ticket(runId + 1, m, epoch[m] + 1)
  <2>1. x.id = runId + 1
    BY DEF Ticket
  <2>2. Ticket(rec'[m].runId, m, rec'[m].epoch) = x
    BY <1>5
  <2>3. Ticket(pend'.runId, pend'.machine, epoch'[pend'.machine]) = x
    BY <1>2, <1>5
  <2>4. EngineTickets' \subseteq EngineTickets \cup {x}
    <3> HIDE DEF x
    <3> QED  BY <1>2, <1>3, <2>2, <2>3 DEF EngineTickets
  <2> QED  BY <1>5, <2>1, <2>4 DEF Drawn
<1> QED  BY <1>2, <1>4, <1>5

LEMMA DrawnCall ==
  ASSUME Core, NEW c \in Callers, Console(c) \/ Reporter(c)
  PROVE  Drawn
<1>t. TypeOK /\ runId \in Nat /\ rec \in [Machines -> RecordSet]
  BY DEF Core, TypeOK, MachineTypeOK
<1>1. /\ UNCHANGED <<cur, epoch, pend>> /\ runId' \in {runId, runId + 1}
      /\ \A d \in Callers \ {c} : caller'[d] = caller[d]
  BY <1>t, CallFields
<1>2. ASSUME UNCHANGED rec, caller'[c].at \notin {"stamp", "hand"}
      PROVE  Drawn
  BY <1>1, <1>2 DEF Drawn, EngineTickets
<1>3. ASSUME UNCHANGED rec, runId' = runId + 1,
             caller'[c] = [at |-> "stamp", req |-> caller[c].req, runId |-> runId + 1]
      PROVE  Drawn
  <2> DEFINE x == Ticket(runId + 1, caller[c].req.machine, caller[c].req.epoch)
  <2>1. x.id = runId + 1
    BY DEF Ticket
  <2>2. Ticket(caller'[c].runId, caller'[c].req.machine, caller'[c].req.epoch) = x
    BY <1>3
  <2>3. EngineTickets' \subseteq EngineTickets \cup {x}
    <3> HIDE DEF x
    <3> QED  BY <1>1, <1>3, <2>2 DEF EngineTickets
  <2> QED  BY <1>1, <1>3, <2>1, <2>3 DEF Drawn
<1>4. CASE StampPayload(c)
  <2> DEFINE m == caller[c].req.machine
  <2>1. /\ caller[c].at = "stamp" /\ caller'[c].at = "hand"
        /\ caller'[c].req = caller[c].req /\ caller'[c].runId = caller[c].runId
        /\ m \in Machines
        /\ \A n \in Machines \ {m} : rec'[n] = rec[n]
        /\ \/ UNCHANGED rec
           \/ rec'[m] = [state |-> caller[c].req.target, epoch |-> caller[c].req.epoch,
                         runId |-> caller[c].runId]
    BY <1>t, <1>4, StampFields
  <2>2. Ticket(caller[c].runId, m, caller[c].req.epoch) \in EngineTickets
    BY <2>1 DEF EngineTickets
  <2>3. CASE UNCHANGED rec
    <3>1. EngineTickets' \subseteq EngineTickets
      BY <1>1, <2>1, <2>3 DEF EngineTickets
    <3> QED  BY <1>1, <3>1 DEF Drawn
  <2>4. CASE rec'[m] = [state |-> caller[c].req.target, epoch |-> caller[c].req.epoch,
                        runId |-> caller[c].runId]
    <3>1. Ticket(rec'[m].runId, m, rec'[m].epoch) \in EngineTickets
      BY <2>2, <2>4
    <3>2. Ticket(caller'[c].runId, caller'[c].req.machine, caller'[c].req.epoch) \in EngineTickets
      BY <2>1, <2>2
    <3>3. \A n \in Machines \ {m} : rec'[n] = rec[n]
      BY <2>1
    <3>4. EngineTickets' \subseteq EngineTickets
      <4> HIDE DEF m
      <4> QED  BY <1>1, <3>1, <3>2, <3>3, <2>1 DEF EngineTickets
    <3> QED  BY <1>1, <3>4 DEF Drawn
  <2> QED  BY <2>1, <2>3, <2>4
<1>5. CASE HandPayload(c)
  <2>1. UNCHANGED rec /\ caller' = [caller EXCEPT ![c] = Idle] /\ Idle.at = "idle"
    BY <1>5 DEF HandPayload, Idle
  <2>2. caller'[c].at = "idle"
    BY <1>t, <2>1 DEF TypeOK, EnvTypeOK
  <2> QED  BY <1>2, <2>1, <2>2
<1> QED  BY <1>t, <1>2, <1>3, <1>4, <1>5, CallFields

LEMMA DrawnNext == ASSUME Core, [Next]_vars PROVE Drawn
<1>1. CASE HandOver \/ Quiet
  <2>1. UNCHANGED <<rec, epoch, runId, caller>> /\ (UNCHANGED pend \/ pend' = NoPayload)
    BY <1>1 DEF HandOver, Quiet
  <2> QED  BY <2>1 DEF Drawn, EngineTickets
<1> QED  BY <1>1, DrawnEntry, DrawnCall, Steps DEF Core

(* The client and the node pass tickets on.                                *)
TicketOf(p) == Ticket(p.runId, p.machine, p.epoch)
Carries == \A p \in Payloads' : p \in Payloads \/ TicketOf(p) \in EngineTickets

LEMMA UpdatesOf ==
  ASSUME NEW s \in Seq(StateUpdates)
  PROVE  Updates(s) = Range(s)
<1>1. \A i \in DOMAIN s : s[i] \in StateUpdates
  OBVIOUS
<1>2. \A x \in StateUpdates : x.kind = "state_update"
  BY DEF StateUpdates
<1> QED  BY <1>1, <1>2 DEF Updates, Range

LEMMA UpdatesMoved ==
  ASSUME NEW S, NEW s \in Seq(S)
  PROVE  /\ s # <<>> => Updates(Tail(s)) \subseteq Updates(s)
         /\ \A x \in S : Updates(Append(s, x)) \subseteq Updates(s) \cup Updates(<<x>>)
         /\ Updates(<<>>) = {}
<1>1. s # <<>> => Updates(Tail(s)) \subseteq Updates(s)
  BY TailSeq DEF Updates, Range
<1>2. ASSUME NEW x \in S
      PROVE  Updates(Append(s, x)) \subseteq Updates(s) \cup Updates(<<x>>)
  <2>1. Range(<<x>>) = {x}
    BY DEF Range
  <2>2. Range(Append(s, x)) = Range(s) \cup {x}
    BY RangeAppend, Ranges
  <2> QED  BY <2>1, <2>2 DEF Updates
<1> QED  BY <1>1, <1>2, RangeNone DEF Updates

LEMMA CarriesKept ==
  ASSUME Updates(out') \subseteq Updates(out), Updates(toNode') \subseteq Updates(toNode),
         \A q \in nodeRuns' : \E r \in nodeRuns : q.update = r.update
  PROVE  Carries
BY DEF Carries, Payloads

(* What a step of the node makes of its runs.                              *)
LEMMA NodeRunSteps ==
  ASSUME LinkTypeOK, NodeNext
  PROVE  /\ completed \subseteq completed' /\ started \subseteq started'
         /\ \A q \in nodeRuns' :
              \/ q \in nodeRuns
              \/ \E r \in nodeRuns : /\ q.update = r.update
                                     /\ q.at = "complete" => EntryOf(r.update) \in completed'
              \/ handleStateUpdate /\ q.update = Head(toNode) /\ q.at = "head"
<1>t. nodeRuns \subseteq NodeRunSet
  BY DEF LinkTypeOK, NodeTypeOK
<1>1. CASE Greet \/ Configure \/ NodeDisconnected \/ RequestState
  BY <1>1 DEF Greet, Configure, NodeDisconnected, RequestState
<1>2. CASE handleStateUpdate
  <2>1. nodeRuns' = nodeRuns \cup {NodeRun(Head(toNode))}
    BY <1>2 DEF handleStateUpdate
  <2>2. NodeRun(Head(toNode)).update = Head(toNode) /\ NodeRun(Head(toNode)).at = "head"
    BY DEF NodeRun
  <2> QED  BY <1>2, <2>1, <2>2 DEF handleStateUpdate
<1>3. ASSUME NEW r \in nodeRuns, EntryHead(r) \/ ExitFinish(r) \/ completeRun(r) \/ reportAbort(r)
      PROVE  /\ UNCHANGED <<completed, started>>
             /\ \A q \in nodeRuns' : q \in nodeRuns \/ (q.update = r.update /\ q.at # "complete")
  <2>1. UNCHANGED <<completed, started>>
    BY <1>3 DEF EntryHead, ExitFinish, completeRun, reportAbort, nodeStable
  <2>2. \/ NodeRunEnds(r)
        \/ \E a \in {"scan", "abort"} : nodeRuns' = (nodeRuns \ {r}) \cup {[r EXCEPT !.at = a]}
    BY <1>3 DEF EntryHead, ExitFinish, completeRun, reportAbort, NodeRunAt
  <2>3. r \in NodeRunSet
    BY <1>t
  <2>4. ASSUME NEW a \in {"scan", "abort"}, NEW q, q = [r EXCEPT !.at = a]
        PROVE  q.update = r.update /\ q.at # "complete"
    BY <2>3, <2>4 DEF NodeRunSet
  <2> QED  BY <2>1, <2>2, <2>4 DEF NodeRunEnds
<1>4. ASSUME NEW r \in nodeRuns, ExitStep(r) \/ EntryScan(r)
      PROVE  /\ UNCHANGED <<completed, started>>
             /\ \A q \in nodeRuns' : q \in nodeRuns \/ (q.update = r.update /\ q.at # "complete")
  <2>1. UNCHANGED <<completed, started>>
    BY <1>4 DEF ExitStep, EntryScan, nodeStable
  <2>2. \E a \in {"exit", "finish", "head"}, k \in Int :
           nodeRuns' = (nodeRuns \ {r}) \cup {[r EXCEPT !.at = a, !.step = k]}
    <3>1. r \in NodeRunSet /\ r.step \in Nat
      BY <1>t DEF NodeRunSet
    <3>2. CASE ExitStep(r)
      <4>1. [r EXCEPT !.step = @ + 1] = [r EXCEPT !.at = "exit", !.step = r.step + 1]
        BY <3>1, <3>2 DEF ExitStep, NodeRunSet
      <4>2. r.step + 1 \in Int
        BY <3>1
      <4> QED  BY <3>2, <4>1, <4>2 DEF ExitStep
    <3>3. CASE EntryScan(r)
      <4>1. PICK k \in r.step..EntryLength :
              \E s \in {"exit", IF k = EntryLength THEN "finish" ELSE "head"} :
                nodeRuns' = (nodeRuns \ {r}) \cup
                            {[r EXCEPT !.at = s, !.step = IF s = "exit" THEN 0 ELSE k]}
        BY <3>3 DEF EntryScan
      <4>2. PICK s \in {"exit", IF k = EntryLength THEN "finish" ELSE "head"} :
              nodeRuns' = (nodeRuns \ {r}) \cup
                          {[r EXCEPT !.at = s, !.step = IF s = "exit" THEN 0 ELSE k]}
        BY <4>1
      <4>3. (IF s = "exit" THEN 0 ELSE k) \in Int /\ s \in {"exit", "finish", "head"}
        OBVIOUS
      <4> QED  BY <4>2, <4>3
    <3> QED  BY <1>4, <3>2, <3>3
  <2>3. r \in NodeRunSet
    BY <1>t
  <2>4. ASSUME NEW a \in {"exit", "finish", "head"}, NEW k \in Int,
               NEW q, q = [r EXCEPT !.at = a, !.step = k]
        PROVE  q.update = r.update /\ q.at # "complete"
    BY <2>3, <2>4 DEF NodeRunSet
  <2>5. PICK a \in {"exit", "finish", "head"}, k \in Int :
          nodeRuns' = (nodeRuns \ {r}) \cup {[r EXCEPT !.at = a, !.step = k]}
    BY <2>2
  <2>6. \A q \in nodeRuns' : q \in nodeRuns \/ q = [r EXCEPT !.at = a, !.step = k]
    BY ONLY <2>5
  <2>7. ASSUME NEW q \in nodeRuns', q \notin nodeRuns
        PROVE  q.update = r.update /\ q.at # "complete"
    <3>1. q = [r EXCEPT !.at = a, !.step = k]
      BY <2>6, <2>7
    <3> QED  BY ONLY <3>1, <2>4, <2>5
  <2> QED  BY <2>1, <2>7
<1>5. ASSUME NEW r \in nodeRuns, EntryFinish(r)
      PROVE  /\ completed \subseteq completed' /\ started' = started
             /\ \A q \in nodeRuns' :
                  \/ q \in nodeRuns
                  \/ q.update = r.update /\ EntryOf(r.update) \in completed'
  <2>1. started' = started
    BY <1>5 DEF EntryFinish, nodeStable
  <2>2. \/ NodeRunEnds(r) /\ UNCHANGED completed
        \/ /\ nodeRuns' = (nodeRuns \ {r}) \cup {[r EXCEPT !.at = "complete"]}
           /\ completed' = completed \cup {EntryOf(r.update)}
    BY <1>5 DEF EntryFinish, NodeRunAt
  <2>3. r \in NodeRunSet
    BY <1>t
  <2>4. ASSUME NEW q, q = [r EXCEPT !.at = "complete"] PROVE q.update = r.update
    BY <2>3, <2>4 DEF NodeRunSet
  <2> QED  BY <2>1, <2>2, <2>4 DEF NodeRunEnds
<1> QED  BY <1>1, <1>2, <1>3, <1>4, <1>5 DEF NodeNext

(* A payload comes from the engine, and then passes from queue to run.     *)
LEMMA SentTicket ==
  ASSUME TypeOK, NEW s \in Senders, Handed(s)
  PROVE  TicketOf(Payload(s)) \in EngineTickets
<1>1. CASE s = EngineLoop
  <2>1. pend # NoPayload
    BY <1>1 DEF Handed, HandOver
  <2>2. TicketOf(Payload(s)) = Ticket(pend.runId, pend.machine, epoch[pend.machine])
    BY <1>1 DEF Payload, StateUpdate, TicketOf, Ticket
  <2> QED  BY <2>1, <2>2 DEF EngineTickets
<1>2. CASE s = Reader
  <2>1. caller[Reader].at = "hand" /\ s # EngineLoop /\ Reader \in Callers
    BY <1>2, ClientAssumption DEF Handed, HandPayload, Callers
  <2>2. TicketOf(Payload(s)) =
          Ticket(caller[Reader].runId, caller[Reader].req.machine, caller[Reader].req.epoch)
    BY <1>2, <2>1 DEF Payload, StateUpdate, TicketOf, Ticket
  <2> QED  BY <2>1, <2>2 DEF EngineTickets
<1> QED  BY <1>1, <1>2 DEF Senders

LEMMA CarriesNext == ASSUME LinkCore, [LinkNext]_linkVars PROVE Carries
<1>t. /\ TypeOK /\ LinkTypeOK /\ ConfigInv /\ HandshakeInv
      /\ toNode \in Seq({Config} \cup StateUpdates)
      /\ out \in Seq(StateUpdates)
  BY DEF LinkCore, Core, LinkShape, LinkTypeOK, WireTypeOK, ClientTypeOK
<1>o. Updates(out) = Range(out)
  BY <1>t, UpdatesOf
<1>1. ASSUME UNCHANGED <<nodeRuns, out>>, UNCHANGED toNode \/ toNode' = <<>>
      PROVE  Carries
  <2>1. Updates(toNode') \subseteq Updates(toNode)
    BY <1>1, <1>t, UpdatesMoved
  <2> QED  BY <1>1, <2>1, CarriesKept
<1>2. CASE EngineStep \/ UNCHANGED linkVars \/ Connect
           \/ (LinkBreaks /\ UNCHANGED <<vars, clientVars, nodeVars>>)
  BY <1>1, <1>2 DEF EngineStep, linkVars, wireVars, clientVars, nodeVars, Connect, Dial, LinkBreaks
<1>3. ASSUME ClientNext, UNCHANGED nodeVars
      PROVE  Carries
  <2>1. CASE \E s \in Senders : SendCheck(s) \/ SendRefused(s)
    BY <1>1, <1>3, <2>1 DEF SendCheck, SendRefused, wireVars, nodeVars
  <2>2. ASSUME NEW s \in Senders, SendQueued(s) PROVE Carries
    <3>1. Payload(s) \in StateUpdates /\ TicketOf(Payload(s)) \in EngineTickets
      BY <1>t, <2>2, PayloadType, SentTicket DEF SendQueued
    <3>2. UNCHANGED <<toNode, nodeRuns>> /\ (out' = out \/ out' = Append(out, Payload(s)))
      BY <1>3, <2>2 DEF SendQueued, wireVars, nodeVars
    <3>3. Updates(out') \subseteq Updates(out) \cup Updates(<<Payload(s)>>)
      <4>1. Updates(Append(out, Payload(s))) \subseteq Updates(out) \cup Updates(<<Payload(s)>>)
        BY <1>t, <3>1, UpdatesMoved
      <4> QED  BY <3>2, <4>1
    <3>4. Updates(<<Payload(s)>>) \subseteq {Payload(s)}
      BY DEF Updates, Range
    <3>5. Updates(toNode') = Updates(toNode)
      BY <3>2
    <3> QED  BY <3>1, <3>2, <3>3, <3>4, <3>5 DEF Carries, Payloads
  <2>3. CASE HandshakeDone
    <3>1. UNCHANGED <<nodeRuns, out>> /\ (toNode' = toNode \/ toNode' = Append(toNode, Config))
      BY <1>3, <2>3 DEF HandshakeDone, Carried, nodeVars
    <3>2. Updates(<<Config>>) = {}
      BY DEF Updates, Range, Config
    <3>3. Updates(toNode') \subseteq Updates(toNode)
      <4>1. Updates(Append(toNode, Config)) \subseteq Updates(toNode) \cup Updates(<<Config>>)
        BY <1>t, UpdatesMoved
      <4> QED  BY <3>1, <3>2, <4>1
    <3> QED  BY <3>1, <3>3, CarriesKept
  <2>4. CASE HandshakeFails \/ NotifyMachines \/ Serve \/ Disconnect \/ Read \/ ReadError \/ Handle
    BY <1>1, <1>3, <2>4 DEF HandshakeFails, NotifyMachines, postConnectStable, Serve, Disconnect,
       Read, ReadError, Handle, wireVars, nodeVars
  <2>5. CASE DrainOne \/ \E w \in writers : Write(w)
    <3>1. /\ out # <<>> /\ out' = Tail(out) /\ UNCHANGED nodeRuns
          /\ toNode' = toNode \/ toNode' = Append(toNode, Head(out))
      BY <1>3, <2>5 DEF DrainOne, Write, wireVars, nodeVars
    <3>2. Head(out) \in StateUpdates /\ Head(out) \in Range(out)
      BY <1>t, <3>1, TailSeq DEF Range
    <3>3. Updates(out') \subseteq Updates(out)
      BY <1>t, <3>1, UpdatesMoved
    <3>4. Updates(toNode') \subseteq Updates(toNode) \cup Updates(out)
      <4>1. Updates(Append(toNode, Head(out))) \subseteq Updates(toNode) \cup Updates(<<Head(out)>>)
        BY <1>t, <3>2, UpdatesMoved
      <4>2. Updates(<<Head(out)>>) \subseteq {Head(out)}
        BY DEF Updates, Range
      <4> QED  BY <1>o, <3>1, <3>2, <4>1, <4>2
    <3> QED  BY <3>1, <3>3, <3>4 DEF Carries, Payloads
  <2> QED  BY <1>3, <2>1, <2>2, <2>3, <2>4, <2>5 DEF ClientNext
<1>4. ASSUME NodeNext, UNCHANGED <<vars, clientVars>>
      PROVE  Carries
  <2>1. UNCHANGED out
    BY <1>4 DEF clientVars
  <2>2. \/ toNode' = toNode \/ toNode' = <<>>
        \/ toNode # <<>> /\ toNode' = Tail(toNode)
    BY <1>4 DEF NodeNext, Greet, Configure, NodeDisconnected, RequestState, handleStateUpdate,
       EntryHead, EntryScan, EntryFinish, completeRun, ExitStep, ExitFinish, reportAbort, nodeStable
  <2>3. Updates(toNode') \subseteq Updates(toNode)
    BY <1>t, <2>2, UpdatesMoved
  <2>4. \A q \in nodeRuns' : q.update \in Payloads
    <3>1. ASSUME handleStateUpdate PROVE Head(toNode) \in Updates(toNode)
      <4>1. toNode \in Seq(StateUpdates) /\ toNode # <<>>
        BY <1>t, <3>1 DEF handleStateUpdate, ConfigInv
      <4> QED  BY <4>1, TailSeq, UpdatesOf DEF Range
    <3> QED  BY <1>t, <1>4, <3>1, NodeRunSteps DEF Payloads
  <2>5. Updates(out') = Updates(out)
    BY <2>1
  <2> QED  BY <2>3, <2>4, <2>5 DEF Carries, Payloads
<1> QED  BY <1>2, <1>3, <1>4 DEF LinkNext

LEMMA TicketsInit == LinkInit => TicketsInv /\ ReportsInv
<1> SUFFICES ASSUME LinkInit PROVE TicketsInv /\ ReportsInv
  OBVIOUS
<1>1. /\ rec = [m \in Machines |-> NoRecord] /\ pend = NoPayload
      /\ caller = [c \in Callers |-> Idle] /\ prio = <<>> /\ batch = <<>>
      /\ out = <<>> /\ toNode = <<>> /\ toControl = <<>> /\ nodeRuns = {}
      /\ handling = NoMessage
  BY DEF LinkInit, Init, WireInit, ClientInit, NodeInit
<1>2. EngineTickets = {}
  BY <1>1 DEF EngineTickets, NoRecord, Idle
<1>3. Payloads = {}
  BY <1>1, RangeNone DEF Payloads, Updates
<1>4. Reported = {} /\ Reporting = {}
  BY <1>1, RangeNone DEF Reported, Reporting, Idle
<1> QED  BY <1>1, <1>2, <1>3, <1>4 DEF TicketsInv, Tickets, ReportsInv

(* A new id is greater than any before it, and is given to one entry.      *)
LEMMA TicketsMoved ==
  ASSUME Drawn, Carries
  PROVE  \/ Tickets' \subseteq Tickets
         \/ \E x : /\ Tickets' \subseteq Tickets \cup {x}
                   /\ x.id = runId + 1 /\ runId' = runId + 1
<1>1. \A p \in Payloads' : TicketOf(p) \in Tickets
  BY DEF Carries, Tickets, TicketOf
<1>2. Tickets' = EngineTickets' \cup {TicketOf(p) : p \in Payloads'}
  BY DEF Tickets, TicketOf
<1>3. EngineTickets \subseteq Tickets
  BY DEF Tickets
<1> QED  BY <1>1, <1>2, <1>3 DEF Drawn

LEMMA TicketsNext ==
  ASSUME runId \in Nat, TicketsInv, Drawn, Carries
  PROVE  /\ TicketsInv'
         /\ 1..runId \subseteq 1..runId'
         /\ \A t \in Tickets' : t.id \in 1..runId => t \in Tickets
<1>1. /\ \A t \in Tickets : t.id \in 1..runId
      /\ \A s, t \in Tickets : s.id = t.id => s = t
  BY DEF TicketsInv
<1>2. runId' \in {runId, runId + 1}
  BY DEF Drawn
<1>3. CASE Tickets' \subseteq Tickets
  <2>1. \A t \in Tickets' : t.id \in 1..runId'
    BY <1>1, <1>2, <1>3
  <2> QED  BY <1>1, <1>2, <1>3, <2>1 DEF TicketsInv
<1>4. CASE \E x : /\ Tickets' \subseteq Tickets \cup {x}
                  /\ x.id = runId + 1 /\ runId' = runId + 1
  <2>1. PICK x : /\ Tickets' \subseteq Tickets \cup {x}
                 /\ x.id = runId + 1 /\ runId' = runId + 1
    BY <1>4
  <2>2. \A t \in Tickets : t.id \in 1..runId' /\ t.id # x.id
    BY <1>1, <2>1
  <2>3. x.id \in 1..runId' /\ x.id \notin 1..runId
    BY <2>1
  <2>4. \A t \in Tickets' : t.id \in 1..runId'
    BY <2>1, <2>2, <2>3
  <2>5. \A s, t \in Tickets' : s.id = t.id => s = t
    BY <1>1, <2>1, <2>2
  <2>6. 1..runId \subseteq 1..runId'
    BY <2>1
  <2>7. \A t \in Tickets' : t.id \in 1..runId => t \in Tickets
    BY <2>1, <2>3
  <2> QED  BY <2>4, <2>5, <2>6, <2>7 DEF TicketsInv
<1> QED  BY <1>3, <1>4, TicketsMoved

-----------------------------------------------------------------------------
(* Completions, from the node's run to the engine's queue.                 *)

LEMMA ReplyRange ==
  ASSUME WireTypeOK, NEW x \in {ConfigReq} \cup Reports, Reply(x)
  PROVE  Range(toControl') \subseteq Range(toControl) \cup {x}
<1>1. toControl' = toControl \/ toControl' = Append(toControl, x)
  BY DEF Reply, Carried
<1>2. Range(Append(toControl, x)) = Range(toControl) \cup {x}
  BY RangeAppend, Ranges DEF WireTypeOK
<1> QED  BY <1>1, <1>2

ReportedStep ==
  \A x \in Reported' : x.kind = "sequence_complete" =>
    \/ x \in Reported
    \/ \E r \in nodeRuns : r.at = "complete" /\ x.runId = r.update.runId

LEMMA ReportedNext ==
  ASSUME LinkTypeOK, [LinkNext]_linkVars
  PROVE  ReportedStep
<1>t. WireTypeOK /\ ClientTypeOK /\ NodeTypeOK /\ toControl \in Seq({ConfigReq} \cup Reports)
  BY DEF LinkTypeOK, WireTypeOK
<1>1. ASSUME UNCHANGED <<toControl, handling>> PROVE ReportedStep
  BY <1>1 DEF ReportedStep, Reported
<1>2. CASE EngineStep \/ UNCHANGED linkVars
           \/ (LinkBreaks /\ UNCHANGED <<vars, clientVars, nodeVars>>)
  BY <1>1, <1>2 DEF EngineStep, linkVars, wireVars, clientVars, LinkBreaks
<1>3. CASE Connect
  BY <1>3, RangeNone DEF Connect, Dial, ReportedStep, Reported
<1>4. CASE \E s \in Senders : SendCheck(s) \/ SendRefused(s) \/ SendQueued(s)
  BY <1>1, <1>4 DEF SendCheck, SendRefused, SendQueued, wireVars
<1>5. CASE HandshakeFails \/ NotifyMachines \/ DrainOne \/ Serve \/ Disconnect \/ ReadError
           \/ \E w \in writers : Write(w)
  BY <1>1, <1>5 DEF HandshakeFails, NotifyMachines, postConnectStable, DrainOne, Serve,
     Disconnect, ReadError, Write, wireVars
<1>6. CASE HandshakeDone \/ Read
  <2>1. /\ toControl # <<>> /\ toControl' = Tail(toControl)
        /\ handling' = handling \/ handling' = [msg |-> Head(toControl), left |-> Order]
    BY <1>6 DEF HandshakeDone, Read
  <2>2. Range(toControl') \subseteq Range(toControl) /\ Head(toControl) \in Range(toControl)
    BY <1>t, <2>1, RangeTail, Ranges
  <2>3. handling' = handling \/ handling'.msg = Head(toControl)
    BY <2>1
  <2> QED  BY <2>2, <2>3 DEF ReportedStep, Reported
<1>7. CASE Handle
  <2>1. toControl' = toControl /\ handling # NoMessage
    BY <1>7 DEF Handle, wireVars
  <2>2. handling' = NoMessage \/ handling' = [handling EXCEPT !.left = Tail(@)]
    BY <1>7 DEF Handle
  <2>3. handling' = NoMessage \/ handling'.msg = handling.msg
    BY <1>t, <2>1, <2>2, HandlingType
  <2> QED  BY <2>1, <2>3 DEF ReportedStep, Reported
<1>8. CASE NodeNext /\ UNCHANGED <<vars, clientVars>>
  <2>1. handling' = handling
    BY <1>8 DEF clientVars
  <2>2. ASSUME NEW x \in {ConfigReq} \cup Reports, Reply(x),
               x.kind = "sequence_complete" =>
                 \E r \in nodeRuns : r.at = "complete" /\ x.runId = r.update.runId
        PROVE  ReportedStep
    BY <1>t, <2>1, <2>2, ReplyRange DEF ReportedStep, Reported
  <2>3. CASE Greet \/ RequestState \/ \E r \in nodeRuns : reportAbort(r)
    <3>1. \E x \in {ConfigReq, StateReq, AbortTriggered} : Reply(x)
      BY <2>3 DEF Greet, RequestState, reportAbort
    <3>2. \A x \in {ConfigReq, StateReq, AbortTriggered} :
             x \in {ConfigReq} \cup Reports /\ x.kind # "sequence_complete"
      BY DEF Reports, ConfigReq, StateReq, AbortTriggered
    <3> QED  BY <2>2, <3>1, <3>2
  <2>4. ASSUME NEW r \in nodeRuns, completeRun(r) PROVE ReportedStep
    <3> DEFINE x == SequenceComplete(r.update.runId)
    <3>1. Reply(x) /\ r.at = "complete" /\ x.runId = r.update.runId
      BY <2>4 DEF completeRun, SequenceComplete
    <3>2. x \in {ConfigReq} \cup Reports
      <4>1. r.update.runId \in Nat
        BY <1>t DEF NodeTypeOK, NodeRunSet, StateUpdates
      <4> QED  BY <4>1 DEF SequenceComplete, Reports
    <3> HIDE DEF x
    <3> QED  BY <2>2, <3>1, <3>2
  <2>5. CASE UNCHANGED toControl
    BY <1>1, <2>1, <2>5
  <2>6. Greet \/ RequestState \/ (\E r \in nodeRuns : reportAbort(r) \/ completeRun(r))
        \/ UNCHANGED toControl
    BY <1>8 DEF NodeNext, Configure, NodeDisconnected, handleStateUpdate, EntryHead, EntryScan,
       EntryFinish, ExitStep, ExitFinish
  <2> QED  BY <2>3, <2>4, <2>5, <2>6
<1> QED  BY <1>2, <1>3, <1>4, <1>5, <1>6, <1>7, <1>8 DEF LinkNext, ClientNext

(* A step's new priority requests: interrupts, or the request that the     *)
(* completion being handled makes.                                         *)
Honoured(q) ==
  \E m \in Machines :
    /\ handling # NoMessage /\ handling.msg.kind = "sequence_complete"
    /\ Correlates(m, handling.msg.runId)
    /\ q = Request(m, Def(m).doneTo, epoch[m])
ReportingStep ==
  \A q \in Reporting' : q \in Reporting \/ q.epoch = 0 \/ Honoured(q)

LEMMA ReportingKept ==
  ASSUME Range(prio') \subseteq Range(prio) \cup Range(batch),
         Range(batch') \subseteq Range(prio) \cup Range(batch), UNCHANGED caller
  PROVE  ReportingStep
BY DEF ReportingStep, Reporting

LEMMA ReportingQueued ==
  ASSUME prio \in Seq(RequestSet), NEW x, prio' = Append(prio, x),
         x.epoch = 0, UNCHANGED <<batch, caller>>
  PROVE  ReportingStep
<1>0. prio \in Seq(RequestSet \cup {x})
  OBVIOUS
<1>1. Range(prio') = Range(prio) \cup {x}
  BY <1>0, RangeAppend, Ranges
<1> QED  BY <1>1 DEF ReportingStep, Reporting

LEMMA ReportingLoop == ASSUME TypeOK, Loop PROVE ReportingStep
<1>t. prio \in Seq(RequestSet) /\ batch \in Seq(RequestSet)
  BY DEF TypeOK, QueueTypeOK, LoopTypeOK
<1>1. CASE UNCHANGED <<prio, batch, caller>>
  BY <1>1, ReportingKept
<1>2. CASE TakeBatch
  BY <1>2, RangeNone, ReportingKept DEF TakeBatch, envVars
<1>3. CASE ApplyBatch
  <2>1. batch # <<>> /\ batch' = Tail(batch) /\ UNCHANGED <<prio, caller>>
    BY <1>3 DEF ApplyBatch, queueVars, envVars
  <2>2. Range(batch') \subseteq Range(batch)
    BY <1>t, <2>1, RangeTail, Ranges
  <2> QED  BY <2>1, <2>2, ReportingKept
<1>4. CASE ControllerCommand
  <2> DEFINE x == Command(ControllerStmts[pc])
  <2>1. prio' = Append(prio, x) /\ UNCHANGED <<batch, caller>>
    BY <1>4 DEF ControllerCommand, enqueuePriority, envVars
  <2>2. x.epoch = 0
    BY DEF Command, Request
  <2> HIDE DEF x
  <2> QED  BY <1>t, <2>1, <2>2, ReportingQueued
<1> QED  BY <1>1, <1>2, <1>3, <1>4 DEF Loop, HandOver, Start, SelectPriority, SelectTransition,
         SelectTick, SelectDone, DrainDone, DrainTransition, DrainTransitionsDone,
         ControllerAssign, ControllerIf, ControllerTransition, ControllerDone, PokeRuns,
         queueVars, loopVars, envVars

LEMMA ReportingRun == ASSUME TypeOK, NEW r \in runs, Run(r) PROVE ReportingStep
<1>1. UNCHANGED <<batch, caller>>
  BY DEF Run, RunEnd, RunFetch, RunError, RunAssign, RunIf, RunCommand, RunSignal, RunPoll,
     RunAwait, RunSend, runStable, loopVars
<1>2. prio' = prio \/ prio' = Append(prio, Command(Stmt(r)))
  BY DEF Run, RunEnd, RunFetch, RunError, RunAssign, RunIf, RunCommand, RunSignal, RunPoll,
     RunAwait, RunSend, queueVars
<1>3. Command(Stmt(r)).epoch = 0
  BY DEF Command, Request
<1> QED  BY <1>1, <1>2, <1>3, ReportingKept, ReportingQueued DEF TypeOK, QueueTypeOK

(* A step of a caller that asks for nothing.                               *)
LEMMA ReportingQuiet ==
  ASSUME TypeOK, NEW c \in Callers, NEW k, caller' = [caller EXCEPT ![c] = k],
         UNCHANGED <<prio, batch>>, k.at = "append" => k.req.epoch = 0 \/ Honoured(k.req)
  PROVE  ReportingStep
<1>1. caller'[c] = k /\ \A d \in Callers \ {c} : caller'[d] = caller[d]
  BY DEF TypeOK, EnvTypeOK
<1> QED  BY <1>1 DEF ReportingStep, Reporting

LEMMA ReportingCall ==
  ASSUME TypeOK, NEW c \in Callers,
         \/ Console(c) \/ AppendPriority(c) \/ SignalPriority(c)
         \/ ResolvePayload(c) \/ StampPayload(c) \/ HandPayload(c)
         \/ \E m \in Machines : \/ NotifyAbortTriggered(c, m)
                                \/ \E n : NotifyUncertain(c, m, n) \/ CurrentDaqPayload(c, m, n)
                                \/ \E id : NotifySequenceComplete(c, m, id) /\ Honoured(Request(m, Def(m).doneTo, epoch[m]))
  PROVE  ReportingStep
<1>t. caller \in [Callers -> CallSet] /\ prio \in Seq(RequestSet)
  BY DEF TypeOK, EnvTypeOK, QueueTypeOK
<1>u. UNCHANGED batch
  BY DEF Console, RequestTarget, Begins, OfferTransition,
     NotifyAbortTriggered, NotifySequenceComplete, NotifyUncertain, CurrentDaqPayload,
     AppendPriority, SignalPriority, ResolvePayload, StampPayload, HandPayload,
     callerStable, loopVars
<1>1. CASE AppendPriority(c)
  <2>1. /\ prio' = Append(prio, caller[c].req) /\ caller[c].at = "append"
        /\ caller' = [caller EXCEPT ![c] = [at |-> "signal"]]
    BY <1>1 DEF AppendPriority
  <2>2. caller[c].req \in RequestSet /\ caller[c].req \in Reporting
    BY <1>t, <2>1, CallType DEF Reporting
  <2>3. Range(prio') = Range(prio) \cup {caller[c].req}
    BY <1>t, <2>1, <2>2, RangeAppend, Ranges
  <2>4. caller'[c].at = "signal" /\ \A d \in Callers \ {c} : caller'[d] = caller[d]
    BY <1>t, <2>1
  <2> QED  BY <1>u, <2>2, <2>3, <2>4 DEF ReportingStep, Reporting
<1>2. CASE OfferTransition(c) \/ SignalPriority(c) \/ HandPayload(c)
  <2>1. caller' = [caller EXCEPT ![c] = Idle] /\ UNCHANGED prio /\ Idle.at # "append"
    BY <1>2 DEF OfferTransition, SignalPriority, HandPayload, queueVars, Idle
  <2> QED  BY <1>u, <2>1, ReportingQuiet
<1>3. CASE ResolvePayload(c)
  <2>1. UNCHANGED prio /\ \E k : k.at # "append" /\ caller' = [caller EXCEPT ![c] = k]
    BY <1>3 DEF ResolvePayload, queueVars, Idle
  <2> QED  BY <1>u, <2>1, ReportingQuiet
<1>4. CASE StampPayload(c)
  <2>1. UNCHANGED prio /\ caller'[c].at = "hand" /\ \A d \in Callers \ {c} : caller'[d] = caller[d]
    BY <1>t, <1>4, StampFields DEF StampPayload, queueVars
  <2> QED  BY <1>u, <2>1 DEF ReportingStep, Reporting
<1>5. ASSUME NEW k, Begins(c, k), k.at = "append" => k.req.epoch = 0 \/ Honoured(k.req)
      PROVE  ReportingStep
  BY <1>5, <1>u, ReportingQuiet DEF Begins, queueVars
<1>6. ASSUME NEW m, NEW t, RequestTarget(c, m, t) PROVE ReportingStep
  BY <1>5, <1>6 DEF RequestTarget
<1>7. ASSUME NEW m, NEW t, Begins(c, [at |-> "append", req |-> Request(m, t, 0)])
      PROVE  ReportingStep
  BY <1>5, <1>7 DEF Request
<1>8. ASSUME NEW m, NEW n, CurrentDaqPayload(c, m, n) PROVE ReportingStep
  BY <1>5, <1>8 DEF CurrentDaqPayload
<1>9. ASSUME NEW m, NEW id, NotifySequenceComplete(c, m, id),
             Honoured(Request(m, Def(m).doneTo, epoch[m]))
      PROVE  ReportingStep
  BY <1>5, <1>9 DEF NotifySequenceComplete
<1> QED  BY <1>1, <1>2, <1>3, <1>4, <1>6, <1>7, <1>8, <1>9
         DEF Console, NotifyAbortTriggered, NotifyUncertain

LEMMA ReportingNext ==
  ASSUME TypeOK, TodoInv, LinkTypeOK, [LinkNext]_linkVars
  PROVE  ReportingStep
<1>c. Linker \in Callers /\ Reader \in Callers /\ Consoles \subseteq Callers
  BY ClientAssumption DEF Callers
<1>1. CASE UNCHANGED vars
  BY <1>1, ReportingKept DEF vars, queueVars, loopVars, envVars
<1>2. CASE EngineStep
  <2>1. CASE Shutdown
    BY <2>1, ReportingKept DEF Shutdown, queueVars, loopVars
  <2> QED  BY <1>2, <1>c, <2>1, ReportingLoop, ReportingRun, ReportingCall DEF EngineStep
<1>3. CASE \E s \in Senders : SendCheck(s) \/ SendRefused(s) \/ SendQueued(s)
  <2>1. ASSUME NEW s \in Senders, Handed(s) PROVE ReportingStep
    BY <2>1, <1>c, ReportingLoop, ReportingCall DEF Handed, Loop
  <2> QED  BY <1>1, <1>3, <2>1 DEF SendCheck, SendRefused, SendQueued
<1>4. CASE NotifyMachines
  <2>1. ASSUME todo # <<>>, NotifyUncertain(Linker, Head(todo), Node) PROVE ReportingStep
    BY <2>1, <1>c, ReportingCall DEF TodoInv
  <2> QED  BY <1>1, <1>4, <2>1 DEF NotifyMachines
<1>5. CASE Handle
  <2>1. ASSUME handling # NoMessage, handling.left # <<>>,
               Taken(Head(handling.left), handling.msg),
               Tell(Head(handling.left), handling.msg)
        PROVE  ReportingStep
    <3>1. PICK m \in Machines : m = Head(handling.left)
      BY <2>1, HandlingType DEF LinkTypeOK
    <3>2. Tell(m, handling.msg)
      BY <2>1, <3>1
    <3>3. ASSUME handling.msg.kind = "sequence_complete",
                 NotifySequenceComplete(Reader, m, handling.msg.runId)
          PROVE  ReportingStep
      <4>1. Correlates(m, handling.msg.runId)
        BY <3>3 DEF NotifySequenceComplete
      <4>2. Honoured(Request(m, Def(m).doneTo, epoch[m]))
        BY <2>1, <3>3, <4>1 DEF Honoured
      <4> QED  BY <1>c, <3>3, <4>2, ReportingCall
    <3> QED  BY <1>c, <3>2, <3>3, ReportingCall DEF Tell
  <2> QED  BY <1>1, <1>5, <2>1 DEF Handle
<1> QED  BY <1>1, <1>2, <1>3, <1>4, <1>5 DEF LinkNext, ClientNext, Connect, Dial, HandshakeDone,
         HandshakeFails, DrainOne, Serve, Disconnect, Write, Read, ReadError, linkVars

(* What is said of a run that ended stays true.                            *)
LEMMA TruthfulKept ==
  ASSUME runId \in Nat, TicketsInv, Drawn, Carries, completed \subseteq completed',
         NEW id, Truthful(id)
  PROVE  Truthful(id)'
<1>1. id \in 1..runId /\ id \in 1..runId'
  BY TicketsNext DEF Truthful
<1>2. PICK e \in completed : \A t \in Tickets :
        t.id = id => e = [machine |-> t.machine, epoch |-> t.epoch]
  BY DEF Truthful
<1>3. \A t \in Tickets' : t.id = id => e = [machine |-> t.machine, epoch |-> t.epoch]
  BY <1>1, <1>2, TicketsNext
<1> QED  BY <1>1, <1>2, <1>3 DEF Truthful

LEMMA CompletedGrows ==
  ASSUME LinkTypeOK, [LinkNext]_linkVars
  PROVE  completed \subseteq completed' /\ started \subseteq started'
BY NodeRunSteps DEF LinkNext, EngineStep, Connect, linkVars, nodeVars

LEMMA ReportsNext ==
  ASSUME LinkCore, TicketsInv, ReportsInv, [LinkNext]_linkVars
  PROVE  TicketsInv' /\ ReportsInv'
<1>t. /\ TypeOK /\ Core /\ LinkTypeOK /\ TodoInv /\ runId \in Nat /\ nodeRuns \subseteq NodeRunSet
      /\ [Next]_vars
  BY LinkCoreNext DEF LinkCore, Core, LinkShape, LinkTypeOK, NodeTypeOK, TypeOK, MachineTypeOK
<1>1. Drawn /\ Carries
  BY <1>t, DrawnNext, CarriesNext
<1>2. TicketsInv'
  BY <1>t, <1>1, TicketsNext
<1>3. completed \subseteq completed'
  BY <1>t, CompletedGrows
<1>4. \A r \in nodeRuns' : r.at = "complete" => EntryOf(r.update) \in completed'
  <2>1. CASE UNCHANGED nodeRuns
    BY <1>3, <2>1 DEF ReportsInv
  <2>2. CASE NodeNext
    <3>1. ASSUME NEW q \in nodeRuns', q.at = "complete"
          PROVE  EntryOf(q.update) \in completed'
      <4>1. CASE q \in nodeRuns
        BY <1>3, <3>1, <4>1 DEF ReportsInv
      <4>2. CASE \E r \in nodeRuns : /\ q.update = r.update
                                     /\ q.at = "complete" => EntryOf(r.update) \in completed'
        BY <3>1, <4>2
      <4> QED  BY <1>t, <2>2, <3>1, <4>1, <4>2, NodeRunSteps
    <3> QED  BY <3>1
  <2> QED  BY <2>1, <2>2 DEF LinkNext, EngineStep, Connect, linkVars, nodeVars
<1>5. ASSUME NEW r \in nodeRuns, r.at = "complete"
      PROVE  Truthful(r.update.runId)
  <2> DEFINE t == TicketOf(r.update)
  <2>1. t \in Tickets
    BY DEF Tickets, Payloads, TicketOf
  <2>2. /\ t.id = r.update.runId
        /\ EntryOf(r.update) = [machine |-> t.machine, epoch |-> t.epoch]
    BY DEF TicketOf, Ticket, EntryOf
  <2>3. EntryOf(r.update) \in completed
    BY <1>5 DEF ReportsInv
  <2> HIDE DEF t
  <2>4. t.id \in 1..runId /\ \A s \in Tickets : s.id = t.id => s = t
    BY <2>1 DEF TicketsInv
  <2> QED  BY <2>2, <2>3, <2>4 DEF Truthful
<1>6. \A x \in Reported' : x.kind = "sequence_complete" => Truthful(x.runId)'
  <2>1. ASSUME NEW x \in Reported', x.kind = "sequence_complete"
        PROVE  Truthful(x.runId)
    BY <1>t, <1>5, <2>1, ReportedNext DEF ReportedStep, ReportsInv
  <2> QED  BY <1>t, <1>1, <1>3, <2>1, TruthfulKept
<1>7. ASSUME NEW q \in Reporting', q.epoch # 0
      PROVE  [machine |-> q.machine, epoch |-> q.epoch] \in completed'
  <2>1. CASE q \in Reporting
    BY <1>3, <1>7, <2>1 DEF ReportsInv
  <2>2. CASE Honoured(q)
    <3>1. PICK m \in Machines :
            /\ handling # NoMessage /\ handling.msg.kind = "sequence_complete"
            /\ Correlates(m, handling.msg.runId)
            /\ q = Request(m, Def(m).doneTo, epoch[m])
      BY <2>2 DEF Honoured
    <3>2. Truthful(handling.msg.runId)
      BY <3>1 DEF ReportsInv, Reported
    <3>3. handling.msg.runId \in 1..runId /\ handling.msg.runId # 0
      BY <3>2, <1>t DEF Truthful
    <3>4. rec[m].runId = handling.msg.runId /\ rec[m].epoch = epoch[m] /\ rec[m].runId # 0
      BY <3>1, <3>3 DEF Correlates
    <3>5. Ticket(rec[m].runId, m, rec[m].epoch) \in Tickets
      BY <3>4 DEF Tickets, EngineTickets
    <3>6. [machine |-> m, epoch |-> epoch[m]] \in completed
      <4> DEFINE t == Ticket(rec[m].runId, m, rec[m].epoch)
      <4>1. t.id = handling.msg.runId /\ t.machine = m /\ t.epoch = epoch[m]
        BY <3>4 DEF Ticket
      <4>2. t \in Tickets
        BY <3>5
      <4> HIDE DEF t
      <4>3. PICK e \in completed : \A u \in Tickets :
              u.id = handling.msg.runId => e = [machine |-> u.machine, epoch |-> u.epoch]
        BY <3>2 DEF Truthful
      <4> QED  BY <4>1, <4>2, <4>3
    <3>7. q.machine = m /\ q.epoch = epoch[m]
      BY <3>1 DEF Request
    <3> QED  BY <1>3, <3>6, <3>7
  <2> QED  BY <1>t, <1>7, <2>1, <2>2, ReportingNext DEF ReportingStep
<1> QED  BY <1>2, <1>4, <1>6, <1>7 DEF ReportsInv

(* A completion the engine would still honour is of an entry the node ran  *)
(* to the end: whatever reports of superseded, aborted or earlier runs are *)
(* on their way, and however many machines share the node.                 *)
THEOREM CompletionsTruthful == LinkSpec => []CompletionTruthful
<1>1. ReportsInv => CompletionTruthful
  <2>1. ASSUME ReportsInv, NEW q \in Range(prio) \cup Range(batch), q.epoch # 0
        PROVE  [machine |-> q.machine, epoch |-> q.epoch] \in completed
    BY <2>1 DEF ReportsInv, Reporting
  <2>2. ASSUME NEW q, q.epoch = epoch[q.machine]
        PROVE  [machine |-> q.machine, epoch |-> q.epoch] =
               [machine |-> q.machine, epoch |-> epoch[q.machine]]
    BY <2>2
  <2> QED  BY <2>1, <2>2 DEF CompletionTruthful
<1>2. LinkCore /\ TicketsInv /\ ReportsInv /\ [LinkNext]_linkVars => TicketsInv' /\ ReportsInv'
  BY ReportsNext
<1> QED  BY <1>1, <1>2, TicketsInit, LinkCoreHolds, PTL DEF LinkSpec

-----------------------------------------------------------------------------
(* The payload of a machine on a node that is up: from enterState's hand-  *)
(* over to the node's run, or to one of the ways it is dropped.            *)

Due(m) == /\ phase \in Up /\ ~broken /\ Def(m).node = Node
          /\ rec[m].epoch = epoch[m] /\ epoch[m] # atConnect[m]

LEMMA TrackedKept ==
  ASSUME NEW m \in Machines, Tracked(m), epoch'[m] = epoch[m], conn' = conn,
         started \subseteq started', lost \subseteq lost',
         pend # NoPayload /\ pend.machine = m => pend' = pend,
         (/\ caller[Reader].at = "hand" /\ caller[Reader].req.machine = m
          /\ caller[Reader].req.epoch = epoch[m]) => caller'[Reader] = caller[Reader],
         \A p \in Updates(out) \cup Updates(toNode) :
            \/ p \in Updates(out') \cup Updates(toNode')
            \/ EntryOf(p) \in started'
            \/ \E l \in lost' : /\ l.update = p
                                /\ (l.on = conn /\ l.how # "refused") \/ l.how = "stolen"
  PROVE  Tracked(m)'
<1>1. Current(m)' = Current(m)
  BY DEF Current
<1> QED  BY <1>1 DEF Tracked

(* The engine's own steps leave the link alone.                            *)
LEMMA AccountedEngine ==
  ASSUME LinkCore, AccountedInv, EngineStep, NEW m \in Machines, Due(m)'
  PROVE  Tracked(m)'
<1>t. /\ TypeOK /\ epoch[m] \in Nat /\ rec[m].epoch <= epoch[m]
      /\ caller \in [Callers -> CallSet] /\ Reader \in Callers /\ Linker \in Callers
  BY ClientAssumption DEF LinkCore, Core, RecordInv, RecordCorrelates, TypeOK, MachineTypeOK,
     EnvTypeOK, Callers
<1>u. UNCHANGED <<conn, broken, toNode, phase, out, atConnect, lost, started>>
  BY DEF EngineStep, wireVars, clientVars, nodeVars
<1>1. ASSUME UNCHANGED <<cur, epoch, rec>>,
             pend # NoPayload /\ pend.machine = m => pend' = pend \/ ~Due(m),
             caller[Reader].at = "hand" => caller'[Reader] = caller[Reader]
      PROVE  Tracked(m)'
  <2>1. Due(m)
    BY <1>u, <1>1 DEF Due, Def
  <2>2. Tracked(m)
    BY <2>1 DEF AccountedInv, Due
  <2> QED  BY <1>u, <1>1, <2>1, <2>2, TrackedKept
<1>2. CASE Entry
  <2>0. PICK n \in Machines : \E s \in StatesOf(n) :
          enterState(n, s) /\ pend = NoPayload /\ UNCHANGED envVars
    BY <1>2 DEF Entry
  <2>1. PICK s \in StatesOf(n) : enterState(n, s) /\ pend = NoPayload /\ UNCHANGED envVars
    BY <2>0
  <2>2. CASE n = m
    <3>0. /\ epoch'[m] = epoch[m] + 1
          /\ UNCHANGED rec \/ pend' = [machine |-> m, runId |-> runId + 1]
      BY <1>t, <2>1, <2>2, EnterFields
    <3>1. rec' # rec
      BY <1>t, <3>0 DEF Due
    <3>2. pend' = [machine |-> m, runId |-> runId + 1]
      BY <3>0, <3>1
    <3>3. pend'.machine = m /\ pend' # NoPayload
      BY <3>2 DEF NoPayload
    <3> QED  BY <3>3 DEF Tracked
  <2>3. CASE n # m
    <3>0. UNCHANGED caller
      BY <2>1 DEF envVars
    <3>n. TypeOK /\ n \in Machines /\ s \in StatesOf(n) /\ m \in Machines /\ m # n /\ enterState(n, s)
      BY <1>t, <2>1, <2>3
    <3>1. cur'[m] = cur[m] /\ epoch'[m] = epoch[m] /\ rec'[m] = rec[m]
      BY ONLY <3>n, EnterFields
    <3>2. Due(m)
      BY <1>u, <3>1 DEF Due, Def
    <3>3. Tracked(m)
      BY <3>2 DEF AccountedInv, Due
    <3> QED  BY <1>u, <2>1, <3>0, <3>1, <3>3, TrackedKept
  <2> QED  BY <2>2, <2>3
<1>3. CASE Quiet
  BY <1>1, <1>3 DEF Quiet
<1>4. CASE HandOver /\ ~Holds(EngineLoop)
  <2>1. UNCHANGED <<cur, epoch, rec, caller>> /\ pend # NoPayload
    BY <1>4 DEF HandOver
  <2>2. pend.machine = m => ~Due(m)
    BY <1>4, <2>1 DEF Due, Def, Holds
  <2> QED  BY <1>1, <2>1, <2>2
<1>5. CASE Loop /\ ~Holds(EngineLoop)
  BY <1>t, <1>2, <1>3, <1>4, <1>5, LoopSteps
<1>6. CASE (\E r \in runs : Run(r)) \/ Shutdown
  BY <1>t, <1>3, <1>6, RunSteps DEF Shutdown, Quiet, machineVars
<1>7. ASSUME NEW c \in Callers, NEW k, caller' = [caller EXCEPT ![c] = k], caller[c].at # "hand",
             UNCHANGED <<cur, epoch, rec, pend>>
      PROVE  Tracked(m)'
  <2>1. caller[Reader].at = "hand" => caller'[Reader] = caller[Reader]
    BY <1>t, <1>7
  <2> QED  BY <1>1, <1>7, <2>1
<1>8. CASE \E c \in Consoles : Console(c)
  <2>1. PICK c \in Callers : Console(c)
    BY <1>8 DEF Callers
  <2>2. UNCHANGED <<cur, epoch, rec, pend>> /\ caller[c].at # "hand"
    BY <2>1 DEF Console, RequestTarget, Begins, OfferTransition, callerStable, Idle
  <2>3. \E k : caller' = [caller EXCEPT ![c] = k]
    BY <2>1 DEF Console, RequestTarget, Begins, OfferTransition
  <2> QED  BY <1>7, <2>2, <2>3
<1>9. CASE \E c \in {Linker, Reader} : AppendPriority(c) \/ SignalPriority(c)
  <2>1. PICK c \in Callers : AppendPriority(c) \/ SignalPriority(c)
    BY <1>t, <1>9
  <2>2. /\ UNCHANGED <<cur, epoch, rec, pend>> /\ caller[c].at # "hand"
        /\ \E k : caller' = [caller EXCEPT ![c] = k]
    BY <2>1 DEF AppendPriority, SignalPriority, callerStable
  <2> QED  BY <1>7, <2>2
<1>10. CASE ResolvePayload(Reader)
  <2>1. /\ UNCHANGED <<cur, epoch, rec, pend>> /\ caller[Reader].at # "hand"
        /\ \E k : caller' = [caller EXCEPT ![Reader] = k]
    BY <1>10 DEF ResolvePayload, callerStable
  <2> QED  BY <1>t, <1>7, <2>1
<1>11. CASE StampPayload(Reader)
  <2>1. /\ caller[Reader].at = "stamp" /\ caller'[Reader].at = "hand"
        /\ caller'[Reader].req = caller[Reader].req
        /\ UNCHANGED <<cur, epoch, pend>>
        /\ caller[Reader].req.machine # m => rec'[m] = rec[m]
        /\ \/ UNCHANGED rec
           \/ epoch[caller[Reader].req.machine] = caller[Reader].req.epoch
    BY <1>t, <1>11, StampFields
  <2>2. CASE caller[Reader].req.machine = m /\ epoch[m] = caller[Reader].req.epoch
    BY <2>1, <2>2 DEF Tracked
  <2>3. CASE rec'[m] = rec[m]
    <3>1. Due(m)
      BY <1>u, <2>1, <2>3 DEF Due, Def
    <3>2. Tracked(m)
      BY <3>1 DEF AccountedInv, Due
    <3> QED  BY <1>u, <2>1, <3>2, TrackedKept
  <2> QED  BY <2>1, <2>2, <2>3
<1> QED  BY <1>5, <1>6, <1>8, <1>9, <1>10, <1>11 DEF EngineStep

(* What leaves a queue, and what does not.                                 *)
LEMMA UpdatesKept ==
  ASSUME NEW S, NEW s \in Seq(S)
  PROVE  /\ s # <<>> => Updates(s) \subseteq {Head(s)} \cup Updates(Tail(s))
         /\ \A x \in S : /\ Updates(s) \subseteq Updates(Append(s, x))
                         /\ x.kind = "state_update" => x \in Updates(Append(s, x))
<1>1. s # <<>> => Range(s) \subseteq {Head(s)} \cup Range(Tail(s))
  BY RangeHead
<1>2. \A x \in S : Range(Append(s, x)) = Range(s) \cup {x}
  BY RangeAppend, Ranges
<1> QED  BY <1>1, <1>2 DEF Updates

LEMMA AccountedSent ==
  ASSUME LinkCore, AccountedInv, NEW s \in Senders, SendQueued(s), UNCHANGED nodeVars,
         NEW m \in Machines, Due(m)'
  PROVE  Tracked(m)'
<1> DEFINE x == Payload(s)
<1>t. /\ TypeOK /\ LinkTypeOK /\ out \in Seq(StateUpdates) /\ Handed(s)
      /\ caller \in [Callers -> CallSet] /\ Reader \in Callers
  BY ClientAssumption DEF LinkCore, Core, LinkShape, LinkTypeOK, ClientTypeOK, TypeOK, EnvTypeOK,
     Callers, SendQueued
<1>x. x \in StateUpdates /\ x.kind = "state_update"
  BY <1>t, PayloadType DEF StateUpdates
<1>1. /\ UNCHANGED <<conn, broken, toNode, phase, atConnect, cur, epoch, rec, started>>
      /\ s = EngineLoop => UNCHANGED caller
      /\ s # EngineLoop => UNCHANGED pend
      /\ lost \subseteq lost'
  BY <1>t DEF SendQueued, wireVars, nodeVars, Handed, HandOver, HandPayload, callerStable
<1>2. Tracked(m)
  BY <1>1 DEF AccountedInv, Due, Def
<1>3. Updates(out) \subseteq Updates(out')
      /\ (x \in Updates(out') \/ Loss(x, "full", conn) \in lost')
  <2>1. \/ out' = Append(out, x)
        \/ out' = out /\ lost' = lost \cup {Loss(x, "full", conn)}
    BY DEF SendQueued
  <2>2. Updates(out) \subseteq Updates(Append(out, x)) /\ x \in Updates(Append(out, x))
    <3> HIDE DEF x
    <3> QED  BY <1>t, <1>x, UpdatesKept
  <2> QED  BY <2>1, <2>2
<1>4. CASE EntryOf(x) = Current(m)
  <2>1. EntryOf(x) = Current(m)'
    BY <1>1, <1>4 DEF Current
  <2> QED  BY <1>1, <1>3, <2>1 DEF Tracked, Loss
<1>5. CASE EntryOf(x) # Current(m)
  <2>1. pend # NoPayload /\ pend.machine = m => pend' = pend
    <3>1. s = EngineLoop => pend.machine # m
      BY <1>5 DEF Payload, StateUpdate, EntryOf, Current
    <3> QED  BY <1>1, <3>1
  <2>2. (/\ caller[Reader].at = "hand" /\ caller[Reader].req.machine = m
         /\ caller[Reader].req.epoch = epoch[m]) => caller'[Reader] = caller[Reader]
    <3>1. s # EngineLoop => ~(caller[Reader].req.machine = m /\ caller[Reader].req.epoch = epoch[m])
      BY <1>5 DEF Payload, StateUpdate, EntryOf, Current
    <3> QED  BY <1>1, <3>1
  <2> QED  BY <1>1, <1>2, <1>3, <2>1, <2>2, TrackedKept
<1> QED  BY <1>4, <1>5

LEMMA AccountedClient ==
  ASSUME LinkCore, AccountedInv, ClientNext, UNCHANGED nodeVars, NEW m \in Machines, Due(m)'
  PROVE  Tracked(m)'
<1>t. /\ TypeOK /\ LinkTypeOK /\ out \in Seq(StateUpdates)
      /\ toNode \in Seq({Config} \cup StateUpdates)
      /\ caller \in [Callers -> CallSet] /\ Reader \in Callers /\ Linker \in Callers
  BY ClientAssumption DEF LinkCore, Core, LinkShape, LinkTypeOK, ClientTypeOK, WireTypeOK, TypeOK,
     EnvTypeOK, Callers
<1>n. UNCHANGED started
  BY DEF nodeVars
<1>1. ASSUME UNCHANGED <<conn, broken, cur, epoch, rec, pend, atConnect>>,
             phase' = phase \/ phase \in Up, lost \subseteq lost',
             caller[Reader].at = "hand" => caller'[Reader] = caller[Reader],
             \A p \in Updates(out) \cup Updates(toNode) :
                \/ p \in Updates(out') \cup Updates(toNode')
                \/ \E l \in lost' : /\ l.update = p
                                    /\ (l.on = conn /\ l.how # "refused") \/ l.how = "stolen"
      PROVE  Tracked(m)'
  <2>1. Due(m)
    BY <1>1 DEF Due, Def
  <2>2. Tracked(m)
    BY <2>1 DEF AccountedInv, Due
  <2> QED  BY <1>1, <1>n, <2>2, TrackedKept
<1>2. CASE \E s \in Senders : SendQueued(s)
  BY <1>2, AccountedSent
<1>3. CASE \E s \in Senders : SendCheck(s)
  BY <1>1, <1>3 DEF SendCheck, vars, machineVars, envVars, wireVars
<1>4. CASE \E s \in Senders : SendRefused(s)
  BY <1>4, <1>t DEF SendRefused, LinkTypeOK, ClientTypeOK, Due
<1>5. CASE HandshakeDone
  BY <1>5 DEF HandshakeDone, Due, vars, machineVars
<1>6. CASE HandshakeFails \/ Disconnect
  BY <1>6 DEF HandshakeFails, Disconnect, Due, Up
<1>7. ASSUME NEW c \in Callers, NEW k, Begins(c, k)
      PROVE  /\ UNCHANGED <<cur, epoch, rec, pend>>
             /\ caller[Reader].at = "hand" => caller'[Reader] = caller[Reader]
  BY <1>t, <1>7 DEF Begins, callerStable, Idle
<1>8. CASE NotifyMachines
  <2>1. UNCHANGED <<conn, broken, atConnect, lost, out, toNode>> /\ phase \in Up
    BY <1>8 DEF NotifyMachines, postConnectStable, wireVars, Up
  <2>2. UNCHANGED vars \/ NotifyUncertain(Linker, Head(todo), Node)
    BY <1>8 DEF NotifyMachines
  <2>3. /\ UNCHANGED <<cur, epoch, rec, pend>>
        /\ caller[Reader].at = "hand" => caller'[Reader] = caller[Reader]
    BY <1>t, <1>7, <2>2 DEF NotifyUncertain, vars, machineVars, envVars
  <2> QED  BY <1>1, <2>1, <2>3
<1>9. CASE Handle
  <2>1. UNCHANGED <<conn, broken, atConnect, lost, out, toNode, phase>>
    BY <1>9 DEF Handle, wireVars
  <2>2. UNCHANGED vars \/ \E h : Tell(h, handling.msg)
    BY <1>9 DEF Handle
  <2>3. /\ UNCHANGED <<cur, epoch, rec, pend>>
        /\ caller[Reader].at = "hand" => caller'[Reader] = caller[Reader]
    BY <1>t, <1>7, <2>2 DEF Tell, NotifySequenceComplete, NotifyAbortTriggered,
       CurrentDaqPayload, vars, machineVars, envVars
  <2> QED  BY <1>1, <2>1, <2>3
<1>10. CASE Serve \/ Read \/ ReadError
  <2>1. UNCHANGED <<vars, conn, broken, toNode, out, atConnect, lost>>
        /\ (phase' = phase \/ phase \in Up)
    BY <1>10 DEF Serve, Read, ReadError, wireVars, Up
  <2> QED  BY <1>1, <2>1 DEF vars, machineVars, envVars
<1>11. CASE DrainOne \/ \E w \in writers : Write(w)
  <2>1. /\ UNCHANGED <<vars, conn, broken, phase, atConnect>> /\ lost \subseteq lost'
        /\ out # <<>> /\ out' = Tail(out)
        /\ \/ toNode' = Append(toNode, Head(out))
           \/ /\ UNCHANGED toNode
              /\ \/ Loss(Head(out), "drained", conn) \in lost'
                 \/ \E w \in writers : Loss(Head(out), "stolen", w) \in lost'
                 \/ broken
    BY <1>11 DEF DrainOne, Write, wireVars
  <2>2. Head(out) \in StateUpdates /\ Head(out).kind = "state_update"
    <3>1. Head(out) \in StateUpdates
      BY <1>t, <2>1, TailSeq
    <3> QED  BY <3>1 DEF StateUpdates
  <2>3. Updates(out) \subseteq {Head(out)} \cup Updates(out')
    BY <1>t, <2>1, UpdatesKept
  <2>4. /\ Updates(toNode) \subseteq Updates(Append(toNode, Head(out)))
        /\ Head(out) \in Updates(Append(toNode, Head(out)))
    BY <1>t, <2>2, UpdatesKept
  <2>5. Updates(toNode) \subseteq Updates(toNode')
    BY <2>1, <2>4
  <2>6. ~broken
    BY <2>1 DEF Due
  <2>7. \/ Head(out) \in Updates(toNode')
        \/ \E l \in lost' : /\ l.update = Head(out)
                            /\ (l.on = conn /\ l.how # "refused") \/ l.how = "stolen"
    BY <2>1, <2>4, <2>6 DEF Loss
  <2> QED  BY <1>1, <2>1, <2>3, <2>5, <2>7 DEF vars, machineVars, envVars
<1> QED  BY <1>2, <1>3, <1>4, <1>5, <1>6, <1>8, <1>9, <1>10, <1>11 DEF ClientNext

LEMMA AccountedNode ==
  ASSUME LinkCore, AccountedInv, NodeNext, UNCHANGED <<vars, clientVars>>,
         NEW m \in Machines, Due(m)'
  PROVE  Tracked(m)'
<1>t. LinkTypeOK /\ ConfigInv /\ toNode \in Seq({Config} \cup StateUpdates)
  BY DEF LinkCore, LinkShape, LinkTypeOK, WireTypeOK
<1>1. UNCHANGED <<phase, out, atConnect, lost, cur, epoch, rec, pend, caller, conn, broken>>
  BY DEF clientVars, vars, machineVars, envVars, NodeNext, Greet, Configure, NodeDisconnected,
     RequestState, handleStateUpdate, EntryHead, EntryScan, EntryFinish, completeRun, ExitStep,
     ExitFinish, reportAbort, nodeStable
<1>2. Due(m) /\ Tracked(m) /\ ~broken
  BY <1>1 DEF AccountedInv, Due, Def
<1>3. started \subseteq started'
  BY <1>t, NodeRunSteps
<1>4. \A p \in Updates(toNode) : p \in Updates(toNode') \/ EntryOf(p) \in started'
  <2>1. CASE Configure \/ handleStateUpdate
    <3>1. toNode # <<>> /\ toNode' = Tail(toNode)
      BY <2>1 DEF Configure, handleStateUpdate
    <3>2. Updates(toNode) \subseteq {Head(toNode)} \cup Updates(toNode')
      BY <1>t, <3>1, UpdatesKept
    <3>3. Configure => Head(toNode) \notin Updates(toNode)
      BY <1>t, <3>1 DEF Configure, ConfigInv, Config, Updates
    <3>4. handleStateUpdate => EntryOf(Head(toNode)) \in started'
      BY DEF handleStateUpdate
    <3> QED  BY <2>1, <3>2, <3>3, <3>4
  <2>2. CASE UNCHANGED toNode
    BY <2>2
  <2> QED  BY <1>2, <2>1, <2>2 DEF NodeNext, Greet, NodeDisconnected, RequestState, EntryHead,
           EntryScan, EntryFinish, completeRun, ExitStep, ExitFinish, reportAbort, nodeStable
<1> QED  BY <1>1, <1>2, <1>3, <1>4, TrackedKept

LEMMA AccountedNext ==
  ASSUME LinkCore, AccountedInv, [LinkNext]_linkVars
  PROVE  AccountedInv'
<1> SUFFICES ASSUME NEW m \in Machines, Due(m)' PROVE Tracked(m)'
  BY DEF AccountedInv, Due
<1>1. CASE Connect
  BY <1>1 DEF Connect, Dial, Due, Up
<1>2. CASE LinkBreaks
  BY <1>2 DEF LinkBreaks, Due
<1>3. CASE UNCHANGED linkVars
  <2>1. UNCHANGED <<phase, out, atConnect, lost, cur, epoch, rec, pend, caller, conn, broken,
                    toNode, started>>
    BY <1>3 DEF linkVars, clientVars, vars, machineVars, envVars, wireVars, nodeVars
  <2>2. Tracked(m)
    BY <2>1 DEF AccountedInv, Due, Def
  <2> QED  BY <2>1, <2>2, TrackedKept
<1> QED  BY <1>1, <1>2, <1>3, AccountedEngine, AccountedClient, AccountedNode DEF LinkNext

(* While the link is up, a machine in a daq_local state whose payload was  *)
(* resolved is being aborted, or its payload is on its way or begun, or is *)
(* one of those the client and its queues dropped, for any number of       *)
(* machines, drops, leftover write loops and racing state requests; unless *)
(* it was in the state when the link came up and has nowhere to abort to.  *)
THEOREM AllAccounted == LinkSpec => []Accounted
<1>1. LinkInit => AccountedInv
  BY DEF LinkInit, ClientInit, AccountedInv, Up
<1>2. LinkCore /\ UncertainInv /\ AccountedInv => Accounted
  <2> SUFFICES ASSUME LinkCore, UncertainInv, AccountedInv, NEW m \in Machines,
                      phase = "serve", ~broken, Running(m), rec[m].epoch = epoch[m],
                      ~AbortPending(m), ~(epoch[m] = atConnect[m] /\ Def(m).abortTo = NoState)
               PROVE  Tracked(m)
    BY DEF Accounted
  <2>1. m \notin Range(todo) /\ phase \in Up /\ Def(m).node = Node
    BY RangeNone DEF UncertainInv, Running, IsRunningOnNode, Up
  <2>2. epoch[m] # atConnect[m]
    BY <2>1 DEF UncertainInv, Uncertain
  <2> QED  BY <2>1, <2>2 DEF AccountedInv
<1>3. LinkCore /\ UncertainInv /\ [LinkNext]_linkVars => UncertainInv'
  BY UncertainNext
<1>4. LinkCore /\ AccountedInv /\ [LinkNext]_linkVars => AccountedInv'
  BY AccountedNext
<1> QED  BY <1>1, <1>2, <1>3, <1>4, UncertainInit, LinkCoreHolds, PTL DEF LinkSpec

-----------------------------------------------------------------------------
(* One place for each payload.  First what the engine's loop and the       *)
(* report handlers hold.                                                   *)

(* A step draws at most one id, and what is held after it was held before  *)
(* or is that one.                                                         *)
HeldStep == \/ HeldIds' \subseteq HeldIds
            \/ runId' = runId + 1 /\ HeldIds' \subseteq HeldIds \cup {runId + 1}
Numbered == \A i \in HeldIds \cup SentIds : i \in 1..runId

LEMMA HeldKept ==
  ASSUME HeldOnce, PendIds' \subseteq PendIds, Handlers' \subseteq Handlers,
         \A c \in Handlers' : caller'[c].runId = caller[c].runId
  PROVE  HeldOnce' /\ HandIds' \subseteq HandIds /\ HeldIds' \subseteq HeldIds
<1>1. HandIds' \subseteq HandIds
  BY DEF HandIds
<1> QED  BY <1>1 DEF HeldOnce, HeldIds

LEMMA HeldEntry ==
  ASSUME TypeOK, HeldOnce, Numbered, Entry
  PROVE  HeldOnce' /\ HeldStep
<1>0. PICK m \in Machines : \E s \in StatesOf(m) :
        enterState(m, s) /\ pend = NoPayload /\ UNCHANGED envVars
  BY DEF Entry
<1>1. PICK s \in StatesOf(m) : enterState(m, s) /\ pend = NoPayload /\ UNCHANGED envVars
  BY <1>0
<1>2. UNCHANGED caller
  BY <1>1 DEF envVars
<1>3. \/ UNCHANGED pend
      \/ runId' = runId + 1 /\ pend' = [machine |-> m, runId |-> runId + 1]
  BY <1>1, EnterFields
<1>4. HandIds' = HandIds /\ Handlers' = Handlers
  BY <1>2 DEF HandIds, Handlers
<1>5. CASE UNCHANGED pend
  <2>1. PendIds' = PendIds
    BY <1>5 DEF PendIds
  <2> QED  BY <1>2, <1>4, <2>1 DEF HeldOnce, HeldStep, HeldIds
<1>6. CASE runId' = runId + 1 /\ pend' = [machine |-> m, runId |-> runId + 1]
  <2>1. PendIds' \subseteq {runId + 1}
    BY <1>6 DEF PendIds
  <2>2. runId + 1 \notin HandIds
    <3>1. runId \in Nat
      BY DEF TypeOK, MachineTypeOK
    <3>2. runId + 1 \notin 1..runId
      BY <3>1
    <3> QED  BY <3>2 DEF Numbered, HeldIds
  <2> QED  BY <1>2, <1>4, <1>6, <2>1, <2>2 DEF HeldOnce, HeldStep, HeldIds
<1> QED  BY <1>3, <1>5, <1>6

LEMMA HeldCall ==
  ASSUME TypeOK, HeldOnce, Numbered, NEW c \in Callers, Console(c) \/ Reporter(c)
  PROVE  HeldOnce' /\ HeldStep
<1>1. /\ UNCHANGED pend
      /\ \A d \in Callers \ {c} : caller'[d] = caller[d]
  BY CallFields
<1>2. PendIds' = PendIds
  BY <1>1 DEF PendIds
<1>3. ASSUME caller'[c].at \notin {"stamp", "hand"}
      PROVE  HeldOnce' /\ HeldStep
  <2>1. Handlers' \subseteq Handlers /\ \A d \in Handlers' : caller'[d] = caller[d]
    BY <1>1, <1>3 DEF Handlers
  <2> QED  BY <1>2, <2>1, HeldKept DEF HeldStep
<1>4. CASE StampPayload(c)
  <2>1. caller[c].at = "stamp" /\ caller'[c].runId = caller[c].runId
    BY <1>4, StampFields
  <2>2. Handlers' \subseteq Handlers /\ \A d \in Handlers' : caller'[d].runId = caller[d].runId
    BY <1>1, <2>1 DEF Handlers
  <2> QED  BY <1>2, <2>2, HeldKept DEF HeldStep
<1>5. CASE HandPayload(c)
  <2>1. caller' = [caller EXCEPT ![c] = Idle] /\ Idle.at = "idle"
    BY <1>5 DEF HandPayload, Idle
  <2>2. caller'[c].at = "idle"
    BY <2>1 DEF TypeOK, EnvTypeOK
  <2> QED  BY <1>3, <2>2
<1>6. CASE /\ caller[c].at = "resolve" /\ runId' = runId + 1
           /\ caller'[c] = [at |-> "stamp", req |-> caller[c].req, runId |-> runId + 1]
  <2>1. caller'[c].runId = runId + 1 /\ c \notin Handlers
    BY <1>6 DEF Handlers
  <2>2. Handlers' \subseteq Handlers \cup {c}
    BY <1>1 DEF Handlers
  <2>3. \A d \in Handlers : caller[d].runId \in HeldIds /\ caller'[d] = caller[d]
    BY <1>1, <2>1 DEF HeldIds, HandIds, Handlers
  <2>4. runId + 1 \notin HeldIds
    <3>1. runId \in Nat
      BY DEF TypeOK, MachineTypeOK
    <3>2. runId + 1 \notin 1..runId
      BY <3>1
    <3> QED  BY <3>2 DEF Numbered
  <2>5. HandIds' \subseteq HandIds \cup {runId + 1}
    BY <2>1, <2>2, <2>3 DEF HandIds
  <2>6. ASSUME NEW d \in Handlers', NEW e \in Handlers', caller'[d].runId = caller'[e].runId
        PROVE  d = e
    <3>1. CASE d \in Handlers /\ e \in Handlers
      BY <2>3, <2>6, <3>1 DEF HeldOnce
    <3> QED  BY <2>1, <2>2, <2>3, <2>4, <2>6, <3>1
  <2>7. PendIds' \cap HandIds' = {}
    BY <1>2, <2>4, <2>5 DEF HeldOnce, HeldIds
  <2> QED  BY <1>2, <1>6, <2>5, <2>6, <2>7 DEF HeldOnce, HeldStep, HeldIds
<1> QED  BY <1>3, <1>4, <1>5, <1>6, CallFields

LEMMA HeldNext ==
  ASSUME TypeOK, HeldOnce, Numbered, [Next]_vars
  PROVE  HeldOnce' /\ HeldStep
<1>1. CASE HandOver \/ Quiet
  <2>1. UNCHANGED caller /\ (UNCHANGED pend \/ pend' = NoPayload)
    BY <1>1 DEF HandOver, Quiet
  <2>2. PendIds' \subseteq PendIds
    BY <2>1 DEF PendIds
  <2>3. Handlers' = Handlers
    BY <2>1 DEF Handlers
  <2> QED  BY <2>1, <2>2, <2>3, HeldKept DEF HeldStep
<1> QED  BY <1>1, HeldEntry, HeldCall, Steps

(* A caller of SendStateUpdate gives away what it holds.                   *)
LEMMA HandedOver ==
  ASSUME TypeOK, HeldOnce, NEW s \in Senders, Handed(s)
  PROVE  Payload(s).runId \in HeldIds /\ Payload(s).runId \notin HeldIds'
<1>1. CASE s = EngineLoop
  <2>1. pend # NoPayload /\ pend' = NoPayload /\ UNCHANGED caller
    BY <1>1 DEF Handed, HandOver
  <2>2. Payload(s).runId = pend.runId
    BY <1>1 DEF Payload, StateUpdate
  <2>3. PendIds = {pend.runId} /\ PendIds' = {} /\ HandIds' = HandIds
    BY <2>1 DEF PendIds, HandIds, Handlers
  <2> QED  BY <2>2, <2>3 DEF HeldOnce, HeldIds
<1>2. CASE s = Reader
  <2>1. /\ caller[Reader].at = "hand" /\ caller' = [caller EXCEPT ![Reader] = Idle]
        /\ UNCHANGED pend /\ Reader \in Callers /\ s # EngineLoop
    BY <1>2, ClientAssumption DEF Handed, HandPayload, callerStable, Callers, machineVars
  <2>2. Payload(s).runId = caller[Reader].runId
    BY <1>2, <2>1 DEF Payload, StateUpdate
  <2>3. Reader \in Handlers /\ PendIds' = PendIds
    BY <2>1 DEF Handlers, PendIds
  <2>4. caller'[Reader].at = "idle" /\ \A c \in Callers \ {Reader} : caller'[c] = caller[c]
    BY <2>1 DEF TypeOK, EnvTypeOK, Idle
  <2>5. Handlers' \subseteq Handlers \ {Reader} /\ \A c \in Handlers' : caller'[c] = caller[c]
    BY <2>4 DEF Handlers
  <2>6. caller[Reader].runId \notin HandIds'
    BY <2>3, <2>5 DEF HandIds, HeldOnce
  <2> QED  BY <2>2, <2>3, <2>6 DEF HeldOnce, HeldIds, HandIds
<1> QED  BY <1>1, <1>2 DEF Senders

(* What is queued, on the wire and run.                                    *)
LEMMA IdsOf ==
  ASSUME NEW s, NEW x
  PROVE  x \in IdsIn(s) <=> \E i \in DOMAIN s : s[i].kind = "state_update" /\ s[i].runId = x
BY DEF IdsIn, Updates, Range

LEMMA OnceTail ==
  ASSUME NEW S, NEW s \in Seq(S), s # <<>>, Once(s)
  PROVE  /\ Once(Tail(s)) /\ IdsIn(Tail(s)) \subseteq IdsIn(s)
         /\ Head(s).kind = "state_update" =>
              Head(s).runId \in IdsIn(s) /\ Head(s).runId \notin IdsIn(Tail(s))
<1> DEFINE t == Tail(s)
           h == Head(s)
<1>1. /\ h = s[1] /\ 1 \in DOMAIN s
      /\ \A i \in DOMAIN t : i \in Nat /\ i + 1 \in DOMAIN s /\ t[i] = s[i + 1]
  BY TailSeq
<1> HIDE DEF t, h
<1>2. \A i, j \in DOMAIN t : i + 1 = j + 1 => i = j
  BY <1>1
<1>3. Once(t)
  BY <1>1, <1>2 DEF Once
<1>4. \A x \in IdsIn(t) : \E i \in DOMAIN t : t[i].kind = "state_update" /\ t[i].runId = x
  BY IdsOf
<1>5. IdsIn(t) \subseteq IdsIn(s)
  BY <1>1, <1>4, IdsOf
<1>6. ASSUME h.kind = "state_update"
      PROVE  h.runId \in IdsIn(s) /\ h.runId \notin IdsIn(t)
  <2>1. h.runId \in IdsIn(s)
    BY <1>1, <1>6, IdsOf
  <2>2. ASSUME NEW i \in DOMAIN t, t[i].kind = "state_update"
        PROVE  t[i].runId # h.runId
    <3>1. i + 1 \in DOMAIN s /\ t[i] = s[i + 1] /\ i + 1 # 1
      <4>1. i \in Nat /\ i + 1 \in DOMAIN s /\ t[i] = s[i + 1] /\ i # 0
        <5>1. DOMAIN t = 1..Len(t)
          BY DEF t
        <5> QED  BY <1>1, <5>1
      <4> QED  BY <4>1
    <3> QED  BY <1>1, <1>6, <2>2, <3>1 DEF Once
  <2> QED  BY <1>4, <2>1, <2>2
<1> QED  BY <1>3, <1>5, <1>6 DEF t, h

LEMMA OnceAppend ==
  ASSUME NEW S, NEW s \in Seq(S), NEW x \in S, Once(s)
  PROVE  /\ x.kind # "state_update" => /\ Once(Append(s, x))
                                       /\ IdsIn(Append(s, x)) \subseteq IdsIn(s)
         /\ x.runId \notin IdsIn(s) => Once(Append(s, x))
         /\ IdsIn(Append(s, x)) \subseteq IdsIn(s) \cup {x.runId}
<1> DEFINE a == Append(s, x)
<1>1. /\ \A i \in DOMAIN a : \/ i = Len(s) + 1 /\ a[i] = x
                             \/ i \in DOMAIN s /\ a[i] = s[i]
  BY AppendSeq
<1> HIDE DEF a
<1>2. ASSUME x.kind # "state_update" PROVE Once(a) /\ IdsIn(a) \subseteq IdsIn(s)
  <2>1. \A i \in DOMAIN a : a[i].kind = "state_update" => i \in DOMAIN s /\ a[i] = s[i]
    BY <1>1, <1>2
  <2> QED  BY <2>1, IdsOf DEF Once
<1>3. ASSUME x.runId \notin IdsIn(s) PROVE Once(a)
  <2> SUFFICES ASSUME NEW i \in DOMAIN a, NEW j \in DOMAIN a,
                      a[i].kind = "state_update", a[j].kind = "state_update",
                      a[i].runId = a[j].runId
               PROVE  i = j
    BY DEF Once
  <2>1. ASSUME NEW k \in DOMAIN s, s[k].kind = "state_update"
        PROVE  s[k].runId # x.runId
    BY <1>3, <2>1, IdsOf
  <2>2. CASE i \in DOMAIN s /\ a[i] = s[i] /\ j \in DOMAIN s /\ a[j] = s[j]
    BY <2>2 DEF Once
  <2> QED  BY <1>1, <2>1, <2>2
<1>4. IdsIn(a) \subseteq IdsIn(s) \cup {x.runId}
  BY <1>1, IdsOf
<1> QED  BY <1>2, <1>3, <1>4 DEF a

LEMMA OnceNone == Once(<<>>) /\ IdsIn(<<>>) = {}
BY RangeNone DEF Once, IdsIn, Updates

(* A step of the node moves at most one run on, and begins at most one.    *)
LEMMA NodeRunMoves ==
  ASSUME LinkTypeOK, NodeNext
  PROVE  \/ nodeRuns' = nodeRuns
         \/ handleStateUpdate
         \/ \E r \in nodeRuns : \E q :
              nodeRuns' \subseteq (nodeRuns \ {r}) \cup {q} /\ q.update = r.update
<1>t. nodeRuns \subseteq NodeRunSet
  BY DEF LinkTypeOK, NodeTypeOK
<1>1. CASE Greet \/ Configure \/ NodeDisconnected \/ RequestState
  BY <1>1 DEF Greet, Configure, NodeDisconnected, RequestState
<1>2. ASSUME NEW r \in nodeRuns,
             EntryHead(r) \/ EntryFinish(r) \/ ExitFinish(r) \/ completeRun(r) \/ reportAbort(r)
      PROVE  \E q : nodeRuns' \subseteq (nodeRuns \ {r}) \cup {q} /\ q.update = r.update
  <2>1. r \in NodeRunSet
    BY <1>t
  <2>2. CASE NodeRunEnds(r)
    BY <2>2 DEF NodeRunEnds
  <2>3. ASSUME NEW a, NodeRunAt(r, a)
        PROVE  \E q : nodeRuns' \subseteq (nodeRuns \ {r}) \cup {q} /\ q.update = r.update
    <3>1. [r EXCEPT !.at = a].update = r.update
      BY <2>1 DEF NodeRunSet
    <3> QED  BY <2>3, <3>1 DEF NodeRunAt
  <2> QED  BY <1>2, <2>2, <2>3 DEF EntryHead, EntryFinish, ExitFinish, completeRun, reportAbort
<1>3. ASSUME NEW r \in nodeRuns, ExitStep(r)
      PROVE  \E q : nodeRuns' \subseteq (nodeRuns \ {r}) \cup {q} /\ q.update = r.update
  <2>1. [r EXCEPT !.step = @ + 1].update = r.update
    BY <1>t DEF NodeRunSet
  <2> QED  BY <1>3, <2>1 DEF ExitStep
<1>4. ASSUME NEW r \in nodeRuns, EntryScan(r)
      PROVE  \E q : nodeRuns' \subseteq (nodeRuns \ {r}) \cup {q} /\ q.update = r.update
  <2>1. PICK k : \E s : nodeRuns' = (nodeRuns \ {r}) \cup
                          {[r EXCEPT !.at = s, !.step = IF s = "exit" THEN 0 ELSE k]}
    BY <1>4 DEF EntryScan
  <2>2. PICK s : nodeRuns' = (nodeRuns \ {r}) \cup
                   {[r EXCEPT !.at = s, !.step = IF s = "exit" THEN 0 ELSE k]}
    BY <2>1
  <2>3. [r EXCEPT !.at = s, !.step = IF s = "exit" THEN 0 ELSE k].update = r.update
    BY <1>t DEF NodeRunSet
  <2> QED  BY <2>2, <2>3
<1> QED  BY <1>1, <1>2, <1>3, <1>4 DEF NodeNext

LEMMA SentKept ==
  ASSUME SentOnce, UNCHANGED nodeRuns, Once(out'), Once(toNode'),
         IdsIn(out') \subseteq IdsIn(out), IdsIn(toNode') \subseteq IdsIn(toNode)
  PROVE  SentOnce' /\ SentIds' \subseteq SentIds
<1>1. IdsAtNode' = IdsAtNode
  BY DEF IdsAtNode
<1> QED  BY <1>1 DEF SentOnce, SentIds

(* What a step sends that was not sent before, a caller has handed over.   *)
SentStep == \/ SentIds' \subseteq SentIds
            \/ \E s \in Senders : /\ Handed(s)
                                  /\ SentIds' \subseteq SentIds \cup {Payload(s).runId}
SendsNew == \A s \in Senders : Handed(s) => Payload(s).runId \notin SentIds

LEMMA SentQueued ==
  ASSUME TypeOK, LinkTypeOK, SentOnce, SendsNew, NEW s \in Senders, SendQueued(s),
         UNCHANGED nodeRuns
  PROVE  SentOnce' /\ SentStep
<1>1. /\ Handed(s) /\ UNCHANGED toNode
      /\ out' = out \/ out' = Append(out, Payload(s))
  BY DEF SendQueued, wireVars
<1>2. Payload(s) \in StateUpdates /\ out \in Seq(StateUpdates)
  BY <1>1, PayloadType DEF LinkTypeOK, ClientTypeOK
<1>3. Payload(s).runId \notin SentIds
  BY <1>1 DEF SendsNew
<1>4. /\ Once(out') /\ IdsIn(out') \subseteq IdsIn(out) \cup {Payload(s).runId}
  <2>1. CASE out' = out
    BY <2>1 DEF SentOnce
  <2>2. CASE out' = Append(out, Payload(s))
    <3>1. Payload(s).runId \notin IdsIn(out) /\ Once(out)
      BY <1>3 DEF SentIds, SentOnce
    <3>2. /\ Once(Append(out, Payload(s)))
          /\ IdsIn(Append(out, Payload(s))) \subseteq IdsIn(out) \cup {Payload(s).runId}
      BY ONLY <1>2, <3>1, OnceAppend
    <3> QED  BY <2>2, <3>2
  <2> QED  BY <1>1, <2>1, <2>2
<1>5. IdsAtNode' = IdsAtNode /\ IdsIn(toNode') = IdsIn(toNode) /\ Once(toNode')
  BY <1>1 DEF IdsAtNode, SentOnce
<1>6. SentOnce'
  BY <1>3, <1>4, <1>5 DEF SentOnce, SentIds
<1> QED  BY <1>1, <1>4, <1>5, <1>6 DEF SentStep, SentIds

(* From the queue to the wire, or nowhere.                                 *)
LEMMA SentOn ==
  ASSUME LinkTypeOK, SentOnce, UNCHANGED nodeRuns, out # <<>>, out' = Tail(out),
         toNode' = toNode \/ toNode' = Append(toNode, Head(out))
  PROVE  SentOnce' /\ SentStep
<1>1. out \in Seq(StateUpdates) /\ toNode \in Seq({Config} \cup StateUpdates)
  BY DEF LinkTypeOK, ClientTypeOK, WireTypeOK
<1>2. Head(out) \in StateUpdates
  BY <1>1
<1>3. Head(out).kind = "state_update"
  BY <1>2 DEF StateUpdates
<1>4. /\ Once(out') /\ IdsIn(out') \subseteq IdsIn(out)
      /\ Head(out).runId \in IdsIn(out) /\ Head(out).runId \notin IdsIn(out')
  <2>1. Once(out)
    BY DEF SentOnce
  <2>2. /\ Once(Tail(out)) /\ IdsIn(Tail(out)) \subseteq IdsIn(out)
        /\ Head(out).runId \in IdsIn(out) /\ Head(out).runId \notin IdsIn(Tail(out))
    BY ONLY <1>1, <1>3, <2>1, out # <<>>, OnceTail
  <2> QED  BY <2>2
<1>5. /\ Once(toNode') /\ IdsIn(toNode') \subseteq IdsIn(toNode) \cup {Head(out).runId}
  <2>1. Once(toNode) /\ Head(out).runId \notin IdsIn(toNode)
    BY <1>4 DEF SentOnce
  <2>2. /\ Once(Append(toNode, Head(out)))
        /\ IdsIn(Append(toNode, Head(out))) \subseteq IdsIn(toNode) \cup {Head(out).runId}
    <3>1. Head(out) \in {Config} \cup StateUpdates
      BY <1>2
    <3> QED  BY ONLY <1>1, <2>1, <3>1, OnceAppend
  <2> QED  BY <2>1, <2>2
<1>6. IdsAtNode' = IdsAtNode
  BY DEF IdsAtNode
<1>7. SentOnce'
  BY <1>4, <1>5, <1>6 DEF SentOnce
<1> QED  BY <1>4, <1>5, <1>6, <1>7 DEF SentStep, SentIds

(* From the wire to a run of the node, and from there to its end.          *)
LEMMA SentBegun ==
  ASSUME LinkTypeOK, ConfigInv, SentOnce, handleStateUpdate, UNCHANGED out
  PROVE  SentOnce' /\ SentIds' \subseteq SentIds
<1> DEFINE p == Head(toNode)
<1>1. /\ toNode \in Seq(StateUpdates) /\ toNode # <<>> /\ toNode' = Tail(toNode)
      /\ nodeRuns' = nodeRuns \cup {NodeRun(p)}
  BY DEF handleStateUpdate, ConfigInv
<1>2. p \in StateUpdates
  BY <1>1
<1>3. p.kind = "state_update"
  BY <1>2 DEF StateUpdates
<1>4. /\ Once(toNode') /\ IdsIn(toNode') \subseteq IdsIn(toNode)
      /\ p.runId \in IdsIn(toNode) /\ p.runId \notin IdsIn(toNode')
  <2>1. Once(toNode)
    BY DEF SentOnce
  <2>2. /\ Once(Tail(toNode)) /\ IdsIn(Tail(toNode)) \subseteq IdsIn(toNode)
        /\ p.runId \in IdsIn(toNode) /\ p.runId \notin IdsIn(Tail(toNode))
    BY ONLY <1>1, <1>3, <2>1, OnceTail
  <2> QED  BY <1>1, <2>2
<1>5. NodeRun(p).update = p
  BY DEF NodeRun
<1> HIDE DEF p
<1>6. IdsAtNode' = IdsAtNode \cup {p.runId}
  BY <1>1, <1>5 DEF IdsAtNode
<1>7. \A r \in nodeRuns : r.update.runId # p.runId
  BY <1>4 DEF SentOnce, IdsAtNode
<1>8. \A r, q \in nodeRuns' : r.update.runId = q.update.runId => r = q
  BY <1>1, <1>5, <1>7 DEF SentOnce
<1>9. Once(out') /\ IdsIn(out') = IdsIn(out) /\ p.runId \notin IdsIn(out)
  BY <1>4 DEF SentOnce
<1>10. SentOnce'
  BY <1>4, <1>6, <1>8, <1>9 DEF SentOnce
<1> QED  BY <1>4, <1>6, <1>9, <1>10 DEF SentIds

LEMMA SentRun ==
  ASSUME SentOnce, UNCHANGED out, Once(toNode'), IdsIn(toNode') \subseteq IdsIn(toNode),
         NEW r \in nodeRuns, NEW q, nodeRuns' \subseteq (nodeRuns \ {r}) \cup {q},
         q.update = r.update
  PROVE  SentOnce' /\ SentIds' \subseteq SentIds
<1>1. IdsAtNode' \subseteq IdsAtNode
  BY DEF IdsAtNode
<1>2. \A a, b \in nodeRuns' : a.update.runId = b.update.runId => a = b
  BY DEF SentOnce
<1>3. Once(out') /\ IdsIn(out') = IdsIn(out)
  BY DEF SentOnce
<1> QED  BY <1>1, <1>2, <1>3 DEF SentOnce, SentIds

LEMMA SentNode ==
  ASSUME LinkTypeOK, ConfigInv, SentOnce, NodeNext, UNCHANGED out
  PROVE  SentOnce' /\ SentIds' \subseteq SentIds
<1>1. CASE handleStateUpdate
  BY <1>1, SentBegun
<1>2. CASE ~handleStateUpdate
  <2>1. \/ toNode' = toNode \/ toNode' = <<>>
        \/ toNode # <<>> /\ toNode' = Tail(toNode)
    BY DEF NodeNext, Greet, Configure, NodeDisconnected, RequestState, handleStateUpdate,
       EntryHead, EntryScan, EntryFinish, completeRun, ExitStep, ExitFinish, reportAbort, nodeStable
  <2>2. toNode \in Seq({Config} \cup StateUpdates) /\ Once(toNode)
    BY DEF LinkTypeOK, WireTypeOK, SentOnce
  <2>3. Once(toNode') /\ IdsIn(toNode') \subseteq IdsIn(toNode)
    <3>1. toNode # <<>> => Once(Tail(toNode)) /\ IdsIn(Tail(toNode)) \subseteq IdsIn(toNode)
      BY ONLY <2>2, OnceTail
    <3> QED  BY <2>1, <2>2, <3>1, OnceNone
  <2>4. CASE nodeRuns' = nodeRuns
    <3>1. Once(out') /\ IdsIn(out') = IdsIn(out)
      BY DEF SentOnce
    <3> QED  BY <2>3, <2>4, <3>1, SentKept
  <2>5. ASSUME NEW r \in nodeRuns, NEW q,
               nodeRuns' \subseteq (nodeRuns \ {r}) \cup {q}, q.update = r.update
        PROVE  SentOnce' /\ SentIds' \subseteq SentIds
    BY <2>3, <2>5, SentRun
  <2> QED  BY <1>2, <2>4, <2>5, NodeRunMoves
<1> QED  BY <1>1, <1>2

LEMMA SentNext ==
  ASSUME LinkCore, SentOnce, SendsNew, [LinkNext]_linkVars
  PROVE  SentOnce' /\ SentStep
<1>t. /\ TypeOK /\ LinkTypeOK /\ ConfigInv /\ toNode \in Seq({Config} \cup StateUpdates)
  BY DEF LinkCore, Core, LinkShape, LinkTypeOK, WireTypeOK
<1>1. ASSUME UNCHANGED <<nodeRuns, out>>, UNCHANGED toNode \/ toNode' = <<>>
      PROVE  SentOnce' /\ SentStep
  <2>1. /\ Once(out') /\ IdsIn(out') \subseteq IdsIn(out)
        /\ Once(toNode') /\ IdsIn(toNode') \subseteq IdsIn(toNode)
    BY <1>1, OnceNone DEF SentOnce
  <2> QED  BY <1>1, <2>1, SentKept DEF SentStep
<1>2. CASE EngineStep \/ UNCHANGED linkVars \/ Connect
           \/ (LinkBreaks /\ UNCHANGED <<vars, clientVars, nodeVars>>)
  BY <1>1, <1>2 DEF EngineStep, linkVars, wireVars, clientVars, nodeVars, Connect, Dial, LinkBreaks
<1>3. ASSUME ClientNext, UNCHANGED nodeVars
      PROVE  SentOnce' /\ SentStep
  <2>u. UNCHANGED nodeRuns
    BY <1>3 DEF nodeVars
  <2>1. CASE \E s \in Senders : SendCheck(s) \/ SendRefused(s)
    BY <1>1, <2>u, <2>1 DEF SendCheck, SendRefused, wireVars
  <2>2. CASE \E s \in Senders : SendQueued(s)
    BY <1>t, <2>u, <2>2, SentQueued
  <2>3. CASE HandshakeDone
    <3>1. UNCHANGED out /\ (toNode' = toNode \/ toNode' = Append(toNode, Config))
      BY <2>3 DEF HandshakeDone, Carried
    <3>2. Config.kind # "state_update" /\ Config \in {Config} \cup StateUpdates
      BY DEF Config
    <3>3. Once(toNode)
      BY DEF SentOnce
    <3>4. /\ Once(Append(toNode, Config))
          /\ IdsIn(Append(toNode, Config)) \subseteq IdsIn(toNode)
      BY ONLY <1>t, <3>2, <3>3, OnceAppend
    <3>5. Once(toNode') /\ IdsIn(toNode') \subseteq IdsIn(toNode)
      BY <3>1, <3>3, <3>4
    <3>6. Once(out') /\ IdsIn(out') \subseteq IdsIn(out)
      BY <3>1 DEF SentOnce
    <3> QED  BY <2>u, <3>5, <3>6, SentKept DEF SentStep
  <2>4. CASE HandshakeFails \/ NotifyMachines \/ Serve \/ Disconnect \/ Read \/ ReadError \/ Handle
    BY <1>1, <2>u, <2>4 DEF HandshakeFails, NotifyMachines, postConnectStable, Serve, Disconnect,
       Read, ReadError, Handle, wireVars
  <2>5. CASE DrainOne \/ \E w \in writers : Write(w)
    <3>1. /\ out # <<>> /\ out' = Tail(out)
          /\ toNode' = toNode \/ toNode' = Append(toNode, Head(out))
      BY <2>5 DEF DrainOne, Write, wireVars
    <3> QED  BY <1>t, <2>u, <3>1, SentOn
  <2> QED  BY <1>3, <2>1, <2>2, <2>3, <2>4, <2>5 DEF ClientNext
<1>4. ASSUME NodeNext, UNCHANGED <<vars, clientVars>>
      PROVE  SentOnce' /\ SentStep
  <2>1. UNCHANGED out
    BY <1>4 DEF clientVars
  <2> QED  BY <1>t, <1>4, <2>1, SentNode DEF SentStep
<1> QED  BY <1>2, <1>3, <1>4 DEF LinkNext

LEMMA AllNumbered == ASSUME TicketsInv PROVE Numbered
<1>1. \A id, m, e : Ticket(id, m, e).id = id
  BY DEF Ticket
<1>2. \A t \in Tickets : t.id \in 1..runId
  BY DEF TicketsInv
<1>3. ASSUME NEW i \in PendIds PROVE i \in 1..runId
  <2>1. i = pend.runId /\ Ticket(pend.runId, pend.machine, epoch[pend.machine]) \in Tickets
    BY <1>3 DEF PendIds, Tickets, EngineTickets
  <2> QED  BY <1>1, <1>2, <2>1
<1>4. ASSUME NEW i \in HandIds PROVE i \in 1..runId
  <2>1. PICK c \in Handlers : i = caller[c].runId
    BY <1>4 DEF HandIds
  <2>2. Ticket(caller[c].runId, caller[c].req.machine, caller[c].req.epoch) \in Tickets
    BY <2>1 DEF Handlers, Tickets, EngineTickets
  <2> QED  BY <1>1, <1>2, <2>1, <2>2
<1>5. ASSUME NEW i \in SentIds PROVE i \in 1..runId
  <2>1. PICK p \in Payloads : i = p.runId
    BY <1>5 DEF SentIds, IdsIn, IdsAtNode, Payloads
  <2>2. Ticket(p.runId, p.machine, p.epoch) \in Tickets
    BY DEF Tickets
  <2> QED  BY <1>1, <1>2, <2>1, <2>2
<1> QED  BY <1>3, <1>4, <1>5 DEF Numbered, HeldIds

(* No run id is ever begun twice by the node: a payload is with the loop,  *)
(* with a report handler, in the queue, on the wire or in one run, for any *)
(* number of machines, callers, connections and write loops left over.     *)
THEOREM RunsBegunOnce == LinkSpec => []InOnePlace
<1>1. LinkInit => InOnePlace
  <2> SUFFICES ASSUME LinkInit PROVE InOnePlace
    OBVIOUS
  <2>1. /\ pend = NoPayload /\ caller = [c \in Callers |-> Idle]
        /\ out = <<>> /\ toNode = <<>> /\ nodeRuns = {}
    BY DEF LinkInit, Init, WireInit, ClientInit, NodeInit
  <2>2. Handlers = {} /\ PendIds = {} /\ HandIds = {} /\ IdsAtNode = {}
    BY <2>1 DEF Handlers, PendIds, HandIds, IdsAtNode, Idle
  <2> QED  BY <2>1, <2>2, OnceNone DEF InOnePlace, HeldOnce, SentOnce, HeldIds, SentIds
<1>2. LinkCore /\ TicketsInv /\ InOnePlace /\ [LinkNext]_linkVars => InOnePlace'
  <2> SUFFICES ASSUME LinkCore, TicketsInv, InOnePlace, [LinkNext]_linkVars PROVE InOnePlace'
    OBVIOUS
  <2>1. TypeOK /\ HeldOnce /\ SentOnce /\ HeldIds \cap SentIds = {}
    BY DEF LinkCore, Core, InOnePlace
  <2>2. Numbered
    BY AllNumbered
  <2>3. HeldOnce' /\ HeldStep
    BY <2>1, <2>2, HeldNext, LinkCoreNext
  <2>4. \A s \in Senders : Handed(s) => /\ Payload(s).runId \in HeldIds
                                        /\ Payload(s).runId \notin HeldIds'
    BY <2>1, HandedOver
  <2>5. SendsNew
    BY <2>1, <2>4 DEF SendsNew
  <2>6. SentOnce' /\ SentStep
    BY <2>1, <2>5, SentNext
  <2>7. runId + 1 \notin HeldIds \cup SentIds
    <3>1. runId \in Nat
      BY <2>1 DEF TypeOK, MachineTypeOK
    <3>2. runId + 1 \notin 1..runId
      BY <3>1
    <3> QED  BY <2>2, <3>2 DEF Numbered
  <2>8. HeldIds' \cap SentIds' = {}
    <3>1. CASE SentIds' \subseteq SentIds
      BY <2>1, <2>3, <2>7, <3>1 DEF HeldStep
    <3>2. ASSUME NEW s \in Senders, Handed(s), SentIds' \subseteq SentIds \cup {Payload(s).runId}
          PROVE  HeldIds' \cap SentIds' = {}
      BY <2>1, <2>3, <2>4, <2>7, <3>2 DEF HeldStep
    <3> QED  BY <2>6, <3>1, <3>2 DEF SentStep
  <2> QED  BY <2>3, <2>6, <2>8 DEF InOnePlace
<1>3. LinkCore /\ TicketsInv /\ ReportsInv /\ [LinkNext]_linkVars => TicketsInv' /\ ReportsInv'
  BY ReportsNext
<1> QED  BY <1>1, <1>2, <1>3, TicketsInit, LinkCoreHolds, PTL DEF LinkSpec
=============================================================================
