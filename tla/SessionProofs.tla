---------------------------- MODULE SessionProofs ----------------------------
(***************************************************************************)
(* The web client server and a browser, for every number of connections,   *)
(* of consoles and of channels and for queues of any size.  A step of the  *)
(* composition is a step of each part: of the store, whose theorems hold   *)
(* here too, of the broker's browser side, of the way to the node, and of  *)
(* the server.  What the browser is owed rests on where the last message   *)
(* about a layout or a channel is: not published yet, queued, or shown.    *)
(***************************************************************************)
EXTENDS SessionProperties, SoftStoreProofs

-----------------------------------------------------------------------------
(* The steps of the parts.                                                 *)

FeedStep ==
  \/ UNCHANGED feedVars
  \/ \E e \in Frames : PublishValues(e)
  \/ \E msg \in RawMessages : Publish(msg)
  \/ HandleValues \/ Tick \/ HandleRaw \/ HandleSubscription
  \/ \E n \in Conns, unsub \in BOOLEAN : Subscription(n, unsub)
  \/ \E n \in Conns : Received(n)

NodeStep ==
  \/ UNCHANGED nodeVars
  \/ \E k \in Consoles : Commands(k)
  \/ RouteCmd /\ UNCHANGED <<link, linkConn, loops, delivered>>
  \/ HandleRegistration /\ UNCHANGED <<link, linkConn, loops, delivered>>
  \/ NodeSteps

LEMMA FrameTypes ==
  /\ <<>> \in Frames
  /\ Partial(Named) \subseteq Frames
  /\ [Stored -> Value] \subseteq Frames
  /\ \A c \in Hardware, v \in Value : Only(c, v) \in Frames
<1>1. Partial(Named) \subseteq Frames
  BY DEF Partial, Frames, Stored
<1>2. [Stored -> Value] \subseteq Frames
  BY DEF Partial, Frames
<1>3. ASSUME NEW c \in Hardware, NEW v \in Value PROVE Only(c, v) \in Frames
  <2>1. Only(c, v) \in [{c} -> Value] /\ {c} \in SUBSET (Stored \cup Hardware)
    BY DEF Only
  <2> QED  BY <2>1 DEF Partial, Frames
<1> QED  BY <1>1, <1>2, <1>3, NoEvent

LEMMA FrameMember ==
  ASSUME NEW f \in Frames
  PROVE  DOMAIN f \subseteq Stored \cup Hardware /\ \A c \in DOMAIN f : f[c] \in Value
BY DEF Frames, Partial

LEMMA OverFrames ==
  ASSUME NEW a \in Frames, NEW b \in Frames
  PROVE  Over(a, b) \in Frames
<1>1. PICK S \in SUBSET (Stored \cup Hardware) : a \in [S -> Value]
  BY DEF Frames, Partial
<1>2. PICK T \in SUBSET (Stored \cup Hardware) : b \in [T -> Value]
  BY DEF Frames, Partial
<1>3. Over(a, b) \in [S \cup T -> Value]
  BY <1>1, <1>2 DEF Over
<1> QED  BY <1>3 DEF Frames, Partial

(* A page or the broker with no channel out of bounds.                     *)
LEMMA NoViews == <<>> \in Views
<1>1. <<>> \in [1 .. 0 -> Verdicts \ {"ok"}]
  BY EmptySeq, LenProperties
<1>2. 1 .. 0 = {}
  OBVIOUS
<1> QED  BY <1>1, <1>2 DEF Views

LEMMA ViewMember ==
  ASSUME NEW f \in Views
  PROVE  /\ f = [c \in DOMAIN f |-> f[c]] /\ DOMAIN f \subseteq Checked
         /\ \A c \in DOMAIN f : f[c] \in Verdicts /\ f[c] # "ok"
BY DEF Views

LEMMA OverViews ==
  ASSUME NEW a \in Views, NEW b \in Views
  PROVE  Over(a, b) \in Views
<1>1. PICK S \in SUBSET Checked : a \in [S -> Verdicts \ {"ok"}]
  BY DEF Views
<1>2. PICK T \in SUBSET Checked : b \in [T -> Verdicts \ {"ok"}]
  BY DEF Views
<1>3. Over(a, b) \in [S \cup T -> Verdicts \ {"ok"}]
  BY <1>1, <1>2 DEF Over
<1> QED  BY <1>3 DEF Views

LEMMA StoreSteps ==
  ASSUME StoreTypeOK, [SessionNext]_sessionVars
  PROVE  [StoreNext]_storeVars
<1>1. CASE StateChanges
  <2>1. PICK v \in Value : SetInternal(EngineLoop, StateChannel, v)
    BY <1>1 DEF StateChanges
  <2> QED  BY <2>1, SessionAssumption DEF StoreNext, Named
<1>2. CASE SequenceSets
  <2>1. PICK c \in Declared, v \in Value : Set(Sequence, c, v, <<>>)
    BY <1>2 DEF SequenceSets
  <2> QED  BY <2>1, SessionAssumption DEF StoreNext, Named
<1>3. CASE \E g \in Setters : Marks(g) \/ Publishes(g)
  BY <1>3 DEF Marks, Publishes, StoreNext
<1>4. CASE ~StateChanges /\ ~SequenceSets /\ ~\E g \in Setters : Marks(g) \/ Publishes(g)
  <2>1. CASE UNCHANGED sessionVars
    BY <2>1 DEF sessionVars
  <2>2. CASE Announces \/ Keepalive \/ KeepalivePublishes \/ NodeReports \/ BrokerRoutes \/ NodeLink
    BY <2>2 DEF Announces, Keepalive, KeepalivePublishes, NodeReports, BrokerRoutes, NodeLink,
                ctrl
  <2>3. CASE BrokerBroadcasts
    BY <2>3 DEF BrokerBroadcasts, HandlesValues, HandlesRaw, Ticks, HandlesSubscription,
                besideBroker
  <2>4. CASE Streams \/ Closes
    BY <2>4 DEF Streams, Closes, Connects, SendsPanels, Subscribes, SendsBadSnapshot,
                onDataMessage, served, server
  <2>5. CASE \E k \in Consoles : Authenticates(k) \/ Commands(k) \/ OpensLayout(k) \/ Saves(k)
    BY <2>5 DEF Authenticates, Commands, OpensLayout, Saves, WritesLayout, WriteFails,
                UpdatesPanel, BroadcastsLayout, ctrl
  <2> QED  BY <1>4, <2>1, <2>2, <2>3, <2>4, <2>5 DEF SessionNext
<1> QED  BY <1>1, <1>2, <1>3, <1>4

LEMMA FeedSteps ==
  ASSUME SessionTypeOK, [SessionNext]_sessionVars
  PROVE  FeedStep
<1>1. CASE StateChanges \/ SequenceSets \/ Keepalive \/ UNCHANGED sessionVars
  BY <1>1 DEF StateChanges, SequenceSets, Keepalive, sessionVars, FeedStep
<1>2. CASE \E g \in Setters : Marks(g) \/ Publishes(g)
  <2>1. PICK g \in Setters : Marks(g) \/ Publishes(g)
    BY <1>2
  <2>2. CASE Marks(g)
    BY <2>2 DEF Marks, FeedStep
  <2>3. CASE Publishes(g)
    <3>1. job[g].event \in Frames
      BY FrameTypes DEF SessionTypeOK, StoreTypeOK, Jobs
    <3> QED  BY <2>3, <3>1 DEF Publishes, FeedStep
  <2> QED  BY <2>1, <2>2, <2>3
<1>3. CASE Announces
  <2>1. StateChange(announce) \in RawMessages
    BY <1>3 DEF Announces, StateChange, RawMessages, SessionTypeOK, ServerTypeOK, PageTypeOK
  <2> QED  BY <1>3, <2>1 DEF Announces, FeedStep
<1>4. CASE KeepalivePublishes
  <2>1. alive \in Frames
    BY FrameTypes DEF SessionTypeOK, ServerTypeOK, PageTypeOK
  <2> QED  BY <1>4, <2>1 DEF KeepalivePublishes, FeedStep
<1>5. CASE NodeReports
  <2>1. PICK c \in Hardware, v \in Value : PublishValues(Only(c, v))
    BY <1>5 DEF NodeReports
  <2> QED  BY <2>1, FrameTypes DEF FeedStep
<1>6. CASE BrokerBroadcasts
  BY <1>6 DEF BrokerBroadcasts, HandlesValues, HandlesRaw, Ticks, HandlesSubscription, FeedStep
<1>7. CASE BrokerRoutes \/ NodeLink
  BY <1>7 DEF BrokerRoutes, NodeLink, FeedStep
<1>8. CASE Connects \/ SendsPanels \/ SendsBadSnapshot
  BY <1>8 DEF Connects, SendsPanels, SendsBadSnapshot, FeedStep
<1>9. CASE Subscribes
  <2>1. conn \in Conns
    BY <1>9 DEF Subscribes, SessionTypeOK, ServerTypeOK, PageTypeOK
  <2> QED  BY <1>9, <2>1 DEF Subscribes, FeedStep
<1>10. CASE onDataMessage
  <2>1. conn \in Conns
    BY <1>10 DEF onDataMessage, SessionTypeOK, ServerTypeOK, PageTypeOK
  <2> QED  BY <1>10, <2>1 DEF onDataMessage, FeedStep
<1>11. CASE Closes
  <2>1. conn \in Conns
    BY <1>11 DEF Closes, SessionTypeOK, ServerTypeOK, PageTypeOK
  <2> QED  BY <1>11, <2>1 DEF Closes, FeedStep
<1>12. CASE \E k \in Consoles : \/ Authenticates(k) \/ Commands(k) \/ OpensLayout(k)
                                \/ WritesLayout(k) \/ WriteFails(k) \/ UpdatesPanel(k)
  BY <1>12 DEF Authenticates, Commands, OpensLayout, WritesLayout, WriteFails, UpdatesPanel,
               FeedStep
<1>13. CASE \E k \in Consoles : BroadcastsLayout(k)
  <2>1. PICK k \in Consoles : BroadcastsLayout(k)
    BY <1>13
  <2>2. saving[k] \in Saving /\ saving[k] # NotSaving
    BY <2>1 DEF BroadcastsLayout, SessionTypeOK, ServerTypeOK, SaveTypeOK, NotSaving
  <2>3. PidLayout(saving[k].content) \in RawMessages
    BY <2>2 DEF Saving, PidLayout, RawMessages
  <2> QED  BY <2>1, <2>3 DEF BroadcastsLayout, FeedStep
<1> QED
  BY <1>1, <1>2, <1>3, <1>4, <1>5, <1>6, <1>7, <1>8, <1>9, <1>10, <1>11, <1>12, <1>13
  DEF SessionNext, Streams, Saves

LEMMA NodeStepTaken ==
  ASSUME [SessionNext]_sessionVars
  PROVE  NodeStep
<1>1. CASE \E k \in Consoles : Commands(k)
  BY <1>1 DEF NodeStep
<1>2. CASE BrokerRoutes \/ NodeLink
  BY <1>2 DEF BrokerRoutes, NodeLink, NodeStep
<1>3. CASE \/ UNCHANGED sessionVars \/ StateChanges \/ SequenceSets \/ Announces
           \/ Keepalive \/ KeepalivePublishes \/ NodeReports
           \/ \E g \in Setters : Marks(g) \/ Publishes(g)
  BY <1>3 DEF sessionVars, StateChanges, SequenceSets, Announces, Keepalive,
              KeepalivePublishes, NodeReports, Marks, Publishes, NodeStep
<1>4. CASE BrokerBroadcasts \/ Streams \/ Closes
  BY <1>4 DEF BrokerBroadcasts, HandlesValues, HandlesRaw, Ticks, HandlesSubscription,
              besideBroker, Streams, Closes, Connects, SendsPanels, Subscribes,
              SendsBadSnapshot, onDataMessage, served, server, NodeStep
<1>5. CASE \E k \in Consoles : Authenticates(k) \/ OpensLayout(k) \/ Saves(k)
  BY <1>5 DEF Authenticates, OpensLayout, Saves, WritesLayout, WriteFails, UpdatesPanel,
              BroadcastsLayout, ctrl, NodeStep
<1> QED  BY <1>1, <1>2, <1>3, <1>4, <1>5 DEF SessionNext

-----------------------------------------------------------------------------
(* Every variable holds a value of its kind.                               *)

(* A fan-out leaves what a connection's channel holds, and adds to it as   *)
(* many of the messages as it has room for, the first ones.                *)
LEMMA FittingType ==
  ASSUME wire \in [Conns -> Seq(Messages)], NEW n \in Conns, NEW msgs \in Seq(Messages)
  PROVE  /\ Fitting(n, msgs) \in Seq(Messages)
         /\ Len(Fitting(n, msgs)) <= Len(msgs)
         /\ Room(n) >= Len(msgs) => Len(Fitting(n, msgs)) = Len(msgs)
         /\ Room(n) >= 0 => Len(Fitting(n, msgs)) <= Room(n)
         /\ \A i \in 1 .. Len(Fitting(n, msgs)) : Fitting(n, msgs)[i] = msgs[i]
<1> DEFINE last == IF Room(n) < Len(msgs) THEN Room(n) ELSE Len(msgs)
<1>1. Room(n) \in Int /\ last \in Int /\ last <= Len(msgs)
  BY FeedAssumption DEF Room
<1>2. \A i \in 1 .. last : msgs[i] \in Messages
  BY <1>1
<1> HIDE DEF last
<1>3. /\ SubSeq(msgs, 1, last) \in Seq(Messages)
      /\ Len(SubSeq(msgs, 1, last)) = IF 1 <= last THEN last - 1 + 1 ELSE 0
      /\ \A i \in 1 .. last - 1 + 1 : SubSeq(msgs, 1, last)[i] = msgs[1 + i - 1]
  BY <1>1, <1>2, SubSeqProperties
<1>4. Fitting(n, msgs) = SubSeq(msgs, 1, last)
  BY DEF Fitting, last
<1>5. Room(n) >= Len(msgs) => last = Len(msgs)
  BY <1>1 DEF last
<1>6. Len(msgs) \in Nat /\ Room(n) \in Int
  BY <1>1
<1>7. last <= Room(n)
  BY <1>1, <1>6 DEF last
<1> QED  BY <1>1, <1>3, <1>4, <1>5, <1>6, <1>7

Extends(new, old, msgs) ==
  /\ new \in Seq(Messages) /\ Len(old) <= Len(new) /\ Len(new) - Len(old) <= Len(msgs)
  /\ \A i \in 1 .. Len(old) : new[i] = old[i]
  /\ \A i \in Len(old) + 1 .. Len(new) : new[i] = msgs[i - Len(old)]

LEMMA FannedOutType ==
  ASSUME wire \in [Conns -> Seq(Messages)], NEW msgs \in Seq(Messages), FannedOut(msgs)
  PROVE  /\ wire' \in [Conns -> Seq(Messages)]
         /\ \A n \in Conns \ subscribers : wire'[n] = wire[n]
         /\ \A n \in Conns \cap subscribers :
              /\ Extends(wire'[n], wire[n], msgs)
              /\ Room(n) >= Len(msgs) => Len(wire'[n]) = Len(wire[n]) + Len(msgs)
<1>1. ASSUME NEW n \in Conns, n \notin subscribers
      PROVE  wire'[n] = wire[n] /\ wire'[n] \in Seq(Messages)
  BY <1>1 DEF FannedOut
<1>2. ASSUME NEW n \in Conns, n \in subscribers
      PROVE  /\ Extends(wire'[n], wire[n], msgs)
             /\ Room(n) >= Len(msgs) => Len(wire'[n]) = Len(wire[n]) + Len(msgs)
  <2> DEFINE old == wire[n]
             new == Fitting(n, msgs)
  <2>1. wire'[n] = old \o new
    BY <1>2 DEF FannedOut
  <2>2. /\ new \in Seq(Messages) /\ old \in Seq(Messages)
        /\ Len(new) <= Len(msgs)
        /\ Room(n) >= Len(msgs) => Len(new) = Len(msgs)
        /\ \A i \in 1 .. Len(new) : new[i] = msgs[i]
    BY FittingType
  <2> HIDE DEF old, new
  <2>3. /\ old \o new \in Seq(Messages)
        /\ Len(old \o new) = Len(old) + Len(new)
        /\ \A i \in 1 .. Len(old) : (old \o new)[i] = old[i]
        /\ \A i \in Len(old) + 1 .. Len(old) + Len(new) : (old \o new)[i] = new[i - Len(old)]
    BY <2>2
  <2>4. Extends(old \o new, old, msgs)
    BY <2>2, <2>3 DEF Extends
  <2>5. Room(n) >= Len(msgs) => Len(old \o new) = Len(old) + Len(msgs)
    BY <2>2, <2>3
  <2> QED  BY <2>1, <2>4, <2>5 DEF old
<1>3. wire' \in [Conns -> Seq(Messages)]
  <2>1. \A n \in Conns : wire'[n] \in Seq(Messages)
    BY <1>1, <1>2 DEF Extends
  <2> QED  BY <2>1 DEF FannedOut
<1> QED  BY <1>1, <1>2, <1>3

LEMMA StatusTypes ==
  ASSUME FeedTypeOK, NEW event \in Frames, NEW c \in Checked
  PROVE  StatusNow(c) \in Verdicts /\ StatusAfter(c, event) \in Verdicts
<1>1. StatusNow(c) \in Verdicts
  BY ViewMember DEF StatusNow, FeedTypeOK, Verdicts
<1>2. CASE c \in DOMAIN event
  <2>1. event[c] \in Value
    BY <1>2, FrameMember
  <2> QED  BY <1>1, <1>2, <2>1 DEF StatusAfter, Verdicts
<1>3. CASE c \notin DOMAIN event
  BY <1>1, <1>3 DEF StatusAfter
<1> QED  BY <1>1, <1>2, <1>3

(* The transitions of a value that is handled, each once, in some order.   *)
Warns(turn, event) == [i \in DOMAIN turn |-> BadData(turn[i], StatusAfter(turn[i], event))]

LEMMA WarnsType ==
  ASSUME FeedTypeOK, NEW event \in Frames,
         NEW turn \in [1 .. Cardinality(Transitions(event)) -> Transitions(event)],
         IsInjective(turn)
  PROVE  /\ Warns(turn, event) \in Seq(Messages)
         /\ Len(Warns(turn, event)) = Cardinality(Transitions(event))
         /\ DOMAIN turn = 1 .. Cardinality(Transitions(event))
         /\ \A c \in Transitions(event) : \E i \in DOMAIN turn : turn[i] = c
<1> DEFINE T == Transitions(event)
<1>1. IsFiniteSet(T) /\ Cardinality(T) \in Nat
  BY FeedAssumption, FS_Subset, FS_CardinalityType DEF Transitions
<1>2. \A i \in DOMAIN turn : turn[i] \in T
  OBVIOUS
<1>3. ASSUME NEW i \in DOMAIN turn PROVE Warns(turn, event)[i] \in Messages
  <2>1. turn[i] \in Checked /\ StatusAfter(turn[i], event) \in Verdicts
    BY <1>2, StatusTypes DEF Transitions
  <2>2. BadData(turn[i], StatusAfter(turn[i], event)) \in Messages
    BY <2>1 DEF BadData, Messages
  <2> QED  BY <2>2 DEF Warns
<1>4. Warns(turn, event) \in [1 .. Cardinality(T) -> Messages]
  BY <1>3 DEF Warns
<1>5. Warns(turn, event) \in Seq(Messages) /\ Len(Warns(turn, event)) = Cardinality(T)
  BY <1>1, <1>4, SeqDef, LenProperties
<1>6. turn \in Surjection(1 .. Cardinality(T), T)
  <2>1. turn \in Injection(1 .. Cardinality(T), T)
    BY DEF IsInjective, Injection
  <2>2. IsFiniteSet(1 .. Cardinality(T)) /\ Cardinality(1 .. Cardinality(T)) = Cardinality(T)
    BY <1>1, FS_Interval
  <2> QED  BY <1>1, <2>1, <2>2, FS_Injection
<1> QED  BY <1>5, <1>6 DEF Surjection

LEMMA HandleValuesType ==
  ASSUME FeedTypeOK, HandleValues
  PROVE  FeedTypeOK'
<1> DEFINE event == Head(dataIn)
<1>1. event \in Frames /\ dataIn' \in Seq(Frames)
  BY DEF HandleValues, HandleData, FeedTypeOK
<1>2. shared' \in Frames /\ frame' \in Frames
  BY <1>1, OverFrames DEF HandleValues, HandleData, FeedTypeOK
<1>3. bad' \in Views
  <2> DEFINE S == {x \in Checked : StatusAfter(x, event) # "ok"}
  <2>1. bad' = [c \in S |-> StatusAfter(c, event)]
    BY DEF HandleValues
  <2>2. \A c \in S : StatusAfter(c, event) \in Verdicts \ {"ok"}
    BY <1>1, StatusTypes
  <2>3. bad' \in [S -> Verdicts \ {"ok"}]
    <3> HIDE DEF S
    <3> QED  BY <2>1, <2>2
  <2> QED  BY <2>3 DEF Views
<1>4. wire' \in [Conns -> Seq(Messages)]
  <2>1. PICK turn \in [1 .. Cardinality(Transitions(event)) -> Transitions(event)] :
               IsInjective(turn) /\ FannedOut(Warns(turn, event))
    BY DEF HandleValues, Warns
  <2> QED  BY <1>1, <2>1, WarnsType, FannedOutType DEF FeedTypeOK
<1> QED  BY <1>1, <1>2, <1>3, <1>4 DEF HandleValues, FeedTypeOK

LEMMA FeedType ==
  ASSUME FeedTypeOK, FeedStep
  PROVE  FeedTypeOK'
<1>1. CASE UNCHANGED feedVars
  BY <1>1 DEF feedVars, dataVars, FeedTypeOK
<1>2. CASE \E e \in Frames : PublishValues(e)
  BY <1>2 DEF PublishValues, PublishData, FeedTypeOK
<1>3. CASE \E msg \in RawMessages : Publish(msg)
  BY <1>3 DEF Publish, dataVars, FeedTypeOK
<1>4. CASE HandleValues
  BY <1>4, HandleValuesType
<1>5. CASE Tick
  <2>1. Data(frame) \in Messages
    BY DEF FeedTypeOK, Data, Messages
  <2>2. <<Data(frame)>> \in Seq(Messages)
    BY <2>1
  <2>3. wire' \in [Conns -> Seq(Messages)]
    BY <1>5, <2>2, FannedOutType DEF Tick, FeedTypeOK
  <2>4. frame' \in Frames /\ sent' \in Frames
    BY <1>5, FrameTypes, OverFrames DEF Tick, FeedTypeOK
  <2> QED  BY <1>5, <2>3, <2>4 DEF Tick, dataVars, FeedTypeOK
<1>6. CASE HandleRaw
  <2>1. Head(rawIn) \in Messages
    BY <1>6 DEF HandleRaw, FeedTypeOK, Messages
  <2>2. <<Head(rawIn)>> \in Seq(Messages)
    BY <2>1
  <2>3. wire' \in [Conns -> Seq(Messages)]
    BY <1>6, <2>2, FannedOutType DEF HandleRaw, FeedTypeOK
  <2> QED  BY <1>6, <2>3 DEF HandleRaw, dataVars, FeedTypeOK
<1>7. CASE HandleSubscription
  <2>1. subIn' \in Seq(Requests) /\ Head(subIn) \in Requests
    BY <1>7 DEF HandleSubscription, FeedTypeOK
  <2>2. Head(subIn).conn \in Conns
    BY <2>1 DEF Requests
  <2> QED  BY <1>7, <2>1, <2>2 DEF HandleSubscription, dataVars, FeedTypeOK
<1>8. CASE \E n \in Conns, unsub \in BOOLEAN : Subscription(n, unsub)
  <2>1. PICK n \in Conns, unsub \in BOOLEAN : Subscription(n, unsub)
    BY <1>8
  <2>2. [conn |-> n, unsub |-> unsub] \in Requests
    BY DEF Requests
  <2> QED  BY <2>1, <2>2 DEF Subscription, dataVars, FeedTypeOK
<1>9. CASE \E n \in Conns : Received(n)
  <2>1. PICK n \in Conns : Received(n)
    BY <1>9
  <2>2. wire' \in [Conns -> Seq(Messages)]
    BY <2>1 DEF Received, FeedTypeOK
  <2> QED  BY <2>1, <2>2 DEF Received, dataVars, FeedTypeOK
<1> QED  BY <1>1, <1>2, <1>3, <1>4, <1>5, <1>6, <1>7, <1>8, <1>9 DEF FeedStep

LEMMA NodeType ==
  ASSUME NodeTypeOK, ServerTypeOK, NodeStep
  PROVE  NodeTypeOK'
<1>1. CASE UNCHANGED nodeVars
  BY <1>1 DEF nodeVars, cmdVars, NodeTypeOK
<1>2. CASE \E k \in Consoles : Commands(k)
  <2>1. PICK c \in Hardware : /\ SendCmd(Cmd(c, events["command"]))
                              /\ UNCHANGED <<link, linkConn, loops, delivered>>
    BY <1>2 DEF Commands
  <2>2. Cmd(c, events["command"]) \in Commanded
    BY DEF Cmd, Commanded, ServerTypeOK, Kinds
  <2> QED  BY <2>1, <2>2 DEF SendCmd, NodeTypeOK
<1>3. CASE RouteCmd /\ UNCHANGED <<link, linkConn, loops, delivered>>
  <2>1. Head(cmdIn) \in Commanded /\ cmdIn' \in Seq(Commanded)
    BY <1>3 DEF RouteCmd, NodeTypeOK
  <2>2. queue' \in [Links -> Seq(Commanded)]
    BY <1>3, <2>1, CommandAssumption DEF RouteCmd, Routable, NodeTypeOK
  <2> QED  BY <1>3, <2>1, <2>2 DEF RouteCmd, NodeTypeOK
<1>4. CASE HandleRegistration /\ UNCHANGED <<link, linkConn, loops, delivered>>
  <2>1. daqRegIn' \in Seq(Registrations) /\ Head(daqRegIn) \in Registrations
    BY <1>4 DEF HandleRegistration, NodeTypeOK
  <2>2. Head(daqRegIn).link = Node
    BY <2>1 DEF Registrations
  <2> QED  BY <1>4, <2>1, <2>2 DEF HandleRegistration, NodeTypeOK
<1>5. CASE Dials \/ Serves \/ LinkFails
  <2>1. /\ [link |-> Node, on |-> TRUE] \in Registrations
        /\ [link |-> Node, on |-> FALSE] \in Registrations
    BY DEF Registrations
  <2>2. CASE Dials
    <3>1. daqRegIn' \in Seq(Registrations)
      BY <2>1, <2>2 DEF Dials, RegisterDaq, NodeTypeOK
    <3>2. linkConn' \in 0 .. MaxLinks /\ 0 .. linkConn \subseteq 0 .. linkConn'
      BY <2>2, NodeAssumption DEF Dials, NodeTypeOK
    <3> QED  BY <2>2, <3>1, <3>2 DEF Dials, RegisterDaq, NodeTypeOK
  <2>3. CASE Serves
    <3>1. linkConn \in 0 .. linkConn
      BY NodeAssumption DEF NodeTypeOK
    <3> QED  BY <2>3, <3>1 DEF Serves, cmdVars, NodeTypeOK
  <2>4. CASE LinkFails
    BY <2>1, <2>4 DEF LinkFails, RegisterDaq, NodeTypeOK
  <2> QED  BY <1>5, <2>2, <2>3, <2>4
<1>6. CASE \E n \in 1 .. MaxLinks : WriteLoop(n)
  <2>1. PICK n \in 1 .. MaxLinks : WriteLoop(n)
    BY <1>6
  <2>2. queue[Node] # <<>> /\ queue[Node] \in Seq(Commanded)
    BY <2>1, NodeAssumption DEF WriteLoop, TakeCmd, NodeTypeOK
  <2>3. Tail(queue[Node]) \in Seq(Commanded) /\ Head(queue[Node]) \in Commanded
    BY <2>2
  <2>4. queue' \in [Links -> Seq(Commanded)]
    BY <2>1, <2>3 DEF WriteLoop, TakeCmd, NodeTypeOK
  <2>5. delivered' \in Seq(Commanded)
    <3>1. delivered' \in {delivered, Append(delivered, Head(queue[Node]))}
      BY <2>1 DEF WriteLoop
    <3>2. Append(delivered, Head(queue[Node])) \in Seq(Commanded)
      BY <2>3 DEF NodeTypeOK
    <3> QED  BY <3>1, <3>2 DEF NodeTypeOK
  <2>6. loops' \subseteq 0 .. linkConn
    BY <2>1 DEF WriteLoop, Writable, NodeTypeOK
  <2> QED  BY <2>1, <2>4, <2>5, <2>6 DEF WriteLoop, TakeCmd, NodeTypeOK
<1> QED  BY <1>1, <1>2, <1>3, <1>4, <1>5, <1>6 DEF NodeStep, NodeSteps

(* What each step counts among the events.                                 *)
LEMMA HappensType ==
  ASSUME ServerTypeOK, NEW kind \in Kinds, Happens(kind)
  PROVE  /\ events' \in [Kinds -> Nat] /\ scenario' \in Scenarios
         /\ \A other \in Kinds \ {kind} : events'[other] = events[other]
BY DEF Happens, ServerTypeOK

Counted ==
  /\ events' \in [Kinds -> Nat] /\ scenario' \in Scenarios
  /\ events'["command"] # events["command"] => \E k \in Consoles : Commands(k)

LEMMA EventCounts ==
  ASSUME ServerTypeOK, [SessionNext]_sessionVars
  PROVE  Counted
<1> USE DEF Kinds
<1>1. CASE UNCHANGED bounds
  BY <1>1 DEF bounds, Counted, ServerTypeOK
<1>2. CASE \E kind \in Kinds \ {"command"} : Happens(kind)
  BY <1>2, HappensType DEF Counted
<1>3. CASE \E k \in Consoles : Commands(k)
  BY <1>3, HappensType DEF Counted, Commands
<1>4. \/ UNCHANGED bounds
      \/ \E kind \in Kinds \ {"command"} : Happens(kind)
      \/ \E k \in Consoles : Commands(k)
  <2>1. CASE UNCHANGED sessionVars \/ Announces \/ Keepalive \/ KeepalivePublishes
             \/ \E g \in Setters : Marks(g) \/ Publishes(g)
    BY <2>1 DEF sessionVars, Announces, Keepalive, KeepalivePublishes, Marks, Publishes
  <2>2. CASE StateChanges \/ SequenceSets \/ NodeReports
    BY <2>2 DEF StateChanges, SequenceSets, NodeReports
  <2>3. CASE BrokerBroadcasts \/ BrokerRoutes \/ NodeLink
    BY <2>3 DEF BrokerBroadcasts, HandlesValues, HandlesRaw, Ticks, HandlesSubscription,
                besideBroker, BrokerRoutes, NodeLink
  <2>4. CASE Streams \/ Closes
    BY <2>4 DEF Streams, Closes, Connects, SendsPanels, Subscribes, SendsBadSnapshot,
                onDataMessage, served
  <2>5. CASE \E k \in Consoles : \/ Authenticates(k) \/ Commands(k)
                                 \/ OpensLayout(k) \/ Saves(k)
    BY <2>5 DEF Authenticates, OpensLayout, Saves, WritesLayout, WriteFails, UpdatesPanel,
                BroadcastsLayout
  <2> QED  BY <2>1, <2>2, <2>3, <2>4, <2>5 DEF SessionNext
<1> QED  BY <1>1, <1>2, <1>3, <1>4

(* What the steps do to the page and to the server's side of it.           *)
PageStep ==
  \/ UNCHANGED <<announce, alive, at, conn, browserVars, lossVars>>
  \/ StateChanges \/ Announces \/ Keepalive \/ KeepalivePublishes
  \/ HandlesValues \/ HandlesRaw \/ Streams \/ Closes
  \/ \E k \in Consoles : BroadcastsLayout(k)
SaveStep ==
  \/ UNCHANGED <<authorized, saveVars>>
  \/ \E k \in Consoles : Authenticates(k) \/ OpensLayout(k) \/ Saves(k)

LEMMA PageSteps ==
  ASSUME [SessionNext]_sessionVars
  PROVE  PageStep
<1>1. CASE UNCHANGED sessionVars \/ SequenceSets \/ NodeReports
           \/ \E g \in Setters : Marks(g) \/ Publishes(g)
  BY <1>1 DEF sessionVars, SequenceSets, NodeReports, Marks, Publishes, PageStep
<1>2. CASE Ticks \/ HandlesSubscription \/ BrokerRoutes \/ NodeLink
  BY <1>2 DEF Ticks, HandlesSubscription, besideBroker, BrokerRoutes, NodeLink, ctrl, PageStep
<1>3. CASE \E k \in Consoles : \/ Authenticates(k) \/ Commands(k)
                               \/ OpensLayout(k) \/ Saves(k)
  BY <1>3 DEF Authenticates, Commands, OpensLayout, Saves, WritesLayout, WriteFails,
              UpdatesPanel, ctrl, PageStep
<1> QED  BY <1>1, <1>2, <1>3 DEF SessionNext, BrokerBroadcasts, PageStep

LEMMA SaveSteps ==
  ASSUME [SessionNext]_sessionVars
  PROVE  SaveStep
<1>1. CASE \/ UNCHANGED sessionVars \/ StateChanges \/ SequenceSets \/ Announces
           \/ Keepalive \/ KeepalivePublishes \/ NodeReports
           \/ \E g \in Setters : Marks(g) \/ Publishes(g)
  BY <1>1 DEF sessionVars, StateChanges, SequenceSets, Announces, Keepalive,
              KeepalivePublishes, NodeReports, Marks, Publishes, SaveStep
<1>2. CASE BrokerBroadcasts \/ BrokerRoutes \/ NodeLink
  BY <1>2 DEF BrokerBroadcasts, HandlesValues, HandlesRaw, Ticks, HandlesSubscription,
              besideBroker, BrokerRoutes, NodeLink, SaveStep
<1>3. CASE Streams \/ Closes
  BY <1>3 DEF Streams, Closes, Connects, SendsPanels, Subscribes, SendsBadSnapshot,
              onDataMessage, served, server, SaveStep
<1>4. CASE \E k \in Consoles : Commands(k)
  BY <1>4 DEF Commands, SaveStep
<1> QED  BY <1>1, <1>2, <1>3, <1>4 DEF SessionNext, SaveStep

(* A save under way stands at one of its steps and holds its layout.       *)
Records == [step : {"opened", "written", "updated"}, content : Contents]

LEMMA SaveRecord ==
  ASSUME SaveTypeOK, NEW k \in Consoles, saving[k].step # "idle"
  PROVE  saving[k] \in Records
BY DEF SaveTypeOK, Saving, NotSaving, Records

LEMMA SaveType ==
  ASSUME SaveTypeOK, SaveStep
  PROVE  SaveTypeOK'
<1>1. CASE UNCHANGED <<authorized, saveVars>>
  BY <1>1 DEF saveVars, SaveTypeOK
<1>2. CASE \E k \in Consoles : Authenticates(k)
  BY <1>2 DEF Authenticates, saveVars, SaveTypeOK
<1>3. CASE \E k \in Consoles : OpensLayout(k)
  <2>1. PICK k \in Consoles, content \in Contents :
           /\ layoutFile' = Empty
           /\ saving' = [saving EXCEPT ![k] = [step |-> "opened", content |-> content]]
           /\ collided' = (collided \/ \E other \in Consoles : saving[other] # NotSaving)
           /\ UNCHANGED <<authorized, panel, torn>>
    BY <1>3 DEF OpensLayout
  <2>2. [step |-> "opened", content |-> content] \in Saving
    BY DEF Saving
  <2> QED  BY <2>1, <2>2, SessionAssumption DEF SaveTypeOK
<1>4. ASSUME NEW k \in Consoles, WritesLayout(k) \/ UpdatesPanel(k)
      PROVE  SaveTypeOK'
  <2>1. saving[k] \in Records
    BY <1>4, SaveRecord DEF WritesLayout, UpdatesPanel
  <2>2. /\ [saving[k] EXCEPT !.step = "written"] \in Saving
        /\ [saving[k] EXCEPT !.step = "updated"] \in Saving
        /\ saving[k].content \in Contents
    BY <2>1 DEF Records, Saving
  <2> QED  BY <1>4, <2>2 DEF WritesLayout, UpdatesPanel, SaveTypeOK
<1>6. CASE \E k \in Consoles : WriteFails(k)
  BY <1>6 DEF WriteFails, SaveTypeOK, Saving
<1>5. CASE \E k \in Consoles : BroadcastsLayout(k)
  BY <1>5 DEF BroadcastsLayout, SaveTypeOK, Saving
<1> QED  BY <1>1, <1>2, <1>3, <1>4, <1>5, <1>6 DEF SaveStep, Saves

LEMMA HandledView ==
  ASSUME shownBad \in Views, NEW msg, msg.refDes \in Checked, msg.status \in Verdicts
  PROVE  handleBadData(msg) \in Views
<1>1. PICK S \in SUBSET Checked : shownBad \in [S -> Verdicts \ {"ok"}]
  BY DEF Views
<1>2. CASE msg.status = "ok"
  <2>1. handleBadData(msg) \in [S \ {msg.refDes} -> Verdicts \ {"ok"}]
    BY <1>1, <1>2 DEF handleBadData
  <2> QED  BY <2>1 DEF Views
<1>3. CASE msg.status # "ok"
  <2>1. Only(msg.refDes, msg.status) \in [{msg.refDes} -> Verdicts \ {"ok"}]
    BY <1>3 DEF Only
  <2>2. Only(msg.refDes, msg.status) \in Views
    BY <2>1 DEF Views
  <2> QED  BY <1>3, <2>2, OverViews DEF handleBadData
<1> QED  BY <1>2, <1>3

LEMMA PageType ==
  ASSUME SessionTypeOK, PageStep
  PROVE  PageTypeOK'
<1> USE DEF SessionTypeOK, ServerTypeOK
<1>1. CASE UNCHANGED <<announce, alive, at, conn, browserVars, lossVars>>
  BY <1>1 DEF browserVars, lossVars, PageTypeOK
<1>2. CASE StateChanges \/ Announces \/ Keepalive \/ KeepalivePublishes
  BY <1>2 DEF StateChanges, Announces, Keepalive, KeepalivePublishes, browserVars, lossVars,
              StoreTypeOK, PageTypeOK
<1>3. CASE HandlesValues \/ HandlesRaw
  BY <1>3 DEF HandlesValues, HandlesRaw, besideBroker, browserVars, PageTypeOK
<1>4. CASE Connects
  BY <1>4, NoViews DEF Connects, server, browserVars, lossVars, PageTypeOK
<1>5. CASE SendsPanels
  BY <1>5 DEF SendsPanels, served, server, Laid, SaveTypeOK, PageTypeOK
<1>6. CASE Subscribes
  BY <1>6 DEF Subscribes, served, server, browserVars, lossVars, PageTypeOK
<1>7. CASE SendsBadSnapshot
  <2>1. Over(bad, shownBad) \in Views
    BY OverViews DEF FeedTypeOK, PageTypeOK
  <2> QED  BY <1>7, <2>1 DEF SendsBadSnapshot, served, server, lossVars, PageTypeOK
<1>8. CASE onDataMessage
  <2> DEFINE msg == Head(wire[conn])
  <2>1. conn \in Conns /\ wire[conn] # <<>>
    BY <1>8 DEF onDataMessage, Received, PageTypeOK
  <2>2. msg \in Messages
    BY <2>1 DEF FeedTypeOK
  <2>3. /\ UNCHANGED <<announce, alive, at, conn, badLost, layoutLost>>
        /\ \/ /\ msg.kind = "data"
              /\ shownState' = IF StateChannel \in DOMAIN msg.d THEN msg.d[StateChannel]
                               ELSE shownState
              /\ UNCHANGED <<shownBad, shownLayout>>
           \/ /\ msg.kind = "state_change" /\ shownState' = msg.state
              /\ UNCHANGED <<shownBad, shownLayout>>
           \/ /\ msg.kind = "bad_data" /\ shownBad' = handleBadData(msg)
              /\ UNCHANGED <<shownState, shownLayout>>
           \/ /\ msg.kind = "pid_layout" /\ shownLayout' = Laid(msg.content)
              /\ UNCHANGED <<shownState, shownBad>>
    BY <1>8 DEF onDataMessage, served, server, lossVars
  <2> HIDE DEF msg
  <2>4. CASE msg.kind = "data"
    <3>1. msg.d \in Frames
      BY <2>2, <2>4 DEF Messages, RawMessages
    <3>2. StateChannel \in DOMAIN msg.d => msg.d[StateChannel] \in Value
      BY <3>1, FrameMember
    <3> QED  BY <2>3, <2>4, <3>2 DEF PageTypeOK
  <2>5. CASE msg.kind = "state_change"
    <3>1. msg.state \in Value
      BY <2>2, <2>5 DEF Messages, RawMessages
    <3> QED  BY <2>3, <2>5, <3>1 DEF PageTypeOK
  <2>6. CASE msg.kind = "bad_data"
    <3>1. msg.refDes \in Checked /\ msg.status \in Verdicts
      BY <2>2, <2>6 DEF Messages, RawMessages
    <3>2. handleBadData(msg) \in Views
      BY <3>1, HandledView DEF PageTypeOK
    <3> QED  BY <2>3, <2>6, <3>2 DEF PageTypeOK
  <2>7. CASE msg.kind = "pid_layout"
    <3>1. msg.content \in Contents
      BY <2>2, <2>7 DEF Messages, RawMessages
    <3> QED  BY <2>3, <2>7, <3>1 DEF Laid, PageTypeOK
  <2> QED  BY <2>3, <2>4, <2>5, <2>6, <2>7
<1>9. CASE Closes
  BY <1>9 DEF Closes, server, browserVars, PageTypeOK
<1>10. CASE \E k \in Consoles : BroadcastsLayout(k)
  BY <1>10 DEF BroadcastsLayout, ctrl, browserVars, PageTypeOK
<1> QED
  BY <1>1, <1>2, <1>3, <1>4, <1>5, <1>6, <1>7, <1>8, <1>9, <1>10 DEF PageStep, Streams

(* What a fan-out does, whatever is fanned out.                            *)
LEMMA FansOut ==
  ASSUME FeedTypeOK, HandleValues \/ Tick \/ HandleRaw
  PROVE  /\ \E msgs \in Seq(Messages) : FannedOut(msgs)
         /\ UNCHANGED <<subIn, subscribers>>
<1>1. CASE HandleValues
  <2> DEFINE event == Head(dataIn)
  <2>1. event \in Frames
    BY <1>1 DEF HandleValues, HandleData, FeedTypeOK
  <2>2. PICK turn \in [1 .. Cardinality(Transitions(event)) -> Transitions(event)] :
               IsInjective(turn) /\ FannedOut(Warns(turn, event))
    BY <1>1 DEF HandleValues, Warns
  <2> QED  BY <1>1, <2>1, <2>2, WarnsType DEF HandleValues
<1>2. CASE Tick
  <2>1. Data(frame) \in Messages
    BY DEF FeedTypeOK, Data, Messages
  <2>2. <<Data(frame)>> \in Seq(Messages)
    BY <2>1
  <2> QED  BY <1>2, <2>2 DEF Tick
<1>3. CASE HandleRaw
  <2>1. Head(rawIn) \in Messages
    BY <1>3 DEF HandleRaw, FeedTypeOK, Messages
  <2>2. <<Head(rawIn)>> \in Seq(Messages)
    BY <2>1
  <2> QED  BY <1>3, <2>2 DEF HandleRaw
<1> QED  BY <1>1, <1>2, <1>3

LEMMA CapsStep ==
  ASSUME FeedTypeOK, NodeTypeOK, WithinCaps, FeedStep, NodeStep
  PROVE  WithinCaps'
<1>1. Len(dataIn') <= DataCap
  <2>1. CASE UNCHANGED dataIn
    BY <2>1 DEF WithinCaps
  <2>2. CASE \E e \in Frames : PublishValues(e)
    BY <2>2, ValuesAssumption DEF PublishValues, PublishData, FeedTypeOK, WithinCaps
  <2>3. CASE HandleValues
    BY <2>3, ValuesAssumption DEF HandleValues, HandleData, FeedTypeOK, WithinCaps
  <2> QED
    BY <2>1, <2>2, <2>3 DEF FeedStep, feedVars, dataVars, Publish, Tick, HandleRaw,
       HandleSubscription, Subscription, Received
<1>2. Len(rawIn') <= RawCap
  <2>1. CASE UNCHANGED rawIn
    BY <2>1 DEF WithinCaps
  <2>2. CASE \E msg \in RawMessages : Publish(msg)
    BY <2>2, FeedAssumption DEF Publish, FeedTypeOK, WithinCaps
  <2>3. CASE HandleRaw
    BY <2>3, FeedAssumption DEF HandleRaw, FeedTypeOK, WithinCaps
  <2> QED
    BY <2>1, <2>2, <2>3 DEF FeedStep, feedVars, PublishValues, Tick, HandleValues,
       HandleSubscription, Subscription, Received
<1>3. ASSUME NEW n \in Conns PROVE Len(wire'[n]) <= WireCap
  <2>1. wire[n] \in Seq(Messages) /\ Len(wire[n]) <= WireCap /\ WireCap \in Nat
    BY FeedAssumption DEF FeedTypeOK, WithinCaps
  <2>2. CASE UNCHANGED wire
    BY <2>1, <2>2
  <2>3. CASE HandleValues \/ Tick \/ HandleRaw
    <3>1. PICK msgs \in Seq(Messages) : FannedOut(msgs)
      BY <2>3, FansOut
    <3>2. /\ Fitting(n, msgs) \in Seq(Messages)
          /\ Len(Fitting(n, msgs)) <= WireCap - Len(wire[n])
      BY <2>1, FittingType DEF FeedTypeOK, Room
    <3>3. Len(wire[n] \o Fitting(n, msgs)) <= WireCap
      BY <2>1, <3>2
    <3> QED  BY <2>1, <3>1, <3>3 DEF FannedOut
  <2>4. CASE \E m \in Conns : Received(m)
    BY <2>1, <2>4 DEF Received, FeedTypeOK
  <2> QED
    BY <2>2, <2>3, <2>4 DEF FeedStep, feedVars, PublishValues, Publish, HandleSubscription,
       Subscription
<1>4. Len(cmdIn') <= CmdCap /\ Len(queue'[Node]) <= LinkCap
  <2>1. /\ cmdIn \in Seq(Commanded) /\ queue[Node] \in Seq(Commanded)
        /\ Len(cmdIn) <= CmdCap /\ Len(queue[Node]) <= LinkCap
        /\ CmdCap \in Nat /\ LinkCap \in Nat
    BY NodeAssumption, CommandAssumption DEF NodeTypeOK, WithinCaps
  <2>2. CASE UNCHANGED <<cmdIn, queue>>
    BY <2>1, <2>2
  <2>3. CASE \E k \in Consoles : Commands(k)
    BY <2>1, <2>3 DEF Commands, SendCmd
  <2>4. CASE RouteCmd
    <3>1. cmdIn # <<>> /\ cmdIn' = Tail(cmdIn)
      BY <2>4 DEF RouteCmd
    <3>2. \/ queue'[Node] = queue[Node]
          \/ queue'[Node] = Append(queue[Node], Head(cmdIn)) /\ Len(queue[Node]) < LinkCap
      BY <2>4, NodeAssumption, CommandAssumption DEF RouteCmd, Routable, NodeTypeOK
    <3> QED  BY <2>1, <3>1, <3>2
  <2>5. CASE \E l \in 1 .. MaxLinks : WriteLoop(l)
    BY <2>1, <2>5, NodeAssumption DEF WriteLoop, TakeCmd, NodeTypeOK
  <2> QED
    BY <2>2, <2>3, <2>4, <2>5 DEF NodeStep, nodeVars, cmdVars, HandleRegistration, NodeSteps,
       Dials, Serves, LinkFails, RegisterDaq
<1> QED  BY <1>1, <1>2, <1>3, <1>4 DEF WithinCaps

(* What each goroutine holds is what its Go types allow, and no queue is   *)
(* ever longer than its channel, for queues of any size: what the fan-out  *)
(* cuts off is exactly what a select with a default would have dropped.    *)
THEOREM SessionTypeCorrect == SessionSpec => []SessionTypeOK
<1>1. SessionInit => SessionTypeOK
  <2> SUFFICES ASSUME SessionInit PROVE SessionTypeOK
    OBVIOUS
  <2>1. StoreTypeOK
    BY InitType DEF SessionInit
  <2>2. FeedTypeOK
    BY FrameTypes, NoViews DEF SessionInit, FeedInit, DataInit, FeedTypeOK
  <2>3. NodeTypeOK
    BY NodeAssumption DEF SessionInit, NodeInit, CmdInit, NodeTypeOK
  <2>4. ServerTypeOK
    BY NoViews, SessionAssumption
    DEF SessionInit, ServerTypeOK, PageTypeOK, SaveTypeOK, Saving, Kinds
  <2>5. WithinCaps
    BY ValuesAssumption, FeedAssumption, CommandAssumption, NodeAssumption
    DEF SessionInit, FeedInit, DataInit, NodeInit, CmdInit, WithinCaps
  <2> QED  BY <2>1, <2>2, <2>3, <2>4, <2>5 DEF SessionTypeOK
<1>2. SessionTypeOK /\ [SessionNext]_sessionVars => SessionTypeOK'
  <2> SUFFICES ASSUME SessionTypeOK, [SessionNext]_sessionVars PROVE SessionTypeOK'
    OBVIOUS
  <2>1. StoreTypeOK'
    BY StoreSteps, NextType DEF SessionTypeOK
  <2>2. FeedTypeOK' /\ NodeTypeOK'
    BY FeedSteps, FeedType, NodeStepTaken, NodeType DEF SessionTypeOK
  <2>3. ServerTypeOK'
    BY PageSteps, PageType, SaveSteps, SaveType, EventCounts
    DEF SessionTypeOK, ServerTypeOK, Counted
  <2>4. WithinCaps'
    BY FeedSteps, NodeStepTaken, CapsStep DEF SessionTypeOK
  <2> QED  BY <2>1, <2>2, <2>3, <2>4 DEF SessionTypeOK
<1> QED  BY <1>1, <1>2, PTL DEF SessionSpec

(* The composition only takes steps of the store, so that what is proved   *)
(* of the store, its bounds and its file, holds with the web server's      *)
(* goroutines around it.                                                   *)
THEOREM SessionsKeepStore == SessionSpec => StoreSpec
<1>1. SessionInit => StoreInit
  BY DEF SessionInit
<1>2. SessionTypeOK /\ [SessionNext]_sessionVars => [StoreNext]_storeVars
  BY StoreSteps DEF SessionTypeOK
<1> QED  BY <1>1, <1>2, SessionTypeCorrect, PTL DEF SessionSpec, StoreSpec

(* So, with consoles, keepalive and engine at work, no channel is out of   *)
(* its bounds, computed channels agree with what they read, and the file   *)
(* keeps the promise about it.                                             *)
THEOREM StoreInSessions ==
  SessionSpec => /\ []WithinBounds /\ []RestartRestores /\ []ComputedConsistent
                 /\ Durability
BY SessionsKeepStore, BoundsRespected, SavesReachTheFile, ComputedAgree, StoreIsDurable, PTL

-----------------------------------------------------------------------------
(* The broadcast values.  The broker's map and the frame take each event   *)
(* alike, and a broadcast moves the frame to what has been sent; a frame   *)
(* that cannot be marshalled stays.  No variable outside the broker's loop *)
(* is involved, so the property is inductive as it stands.                 *)

LEMMA UnsentStep ==
  ASSUME NothingUnsent, FeedStep
  PROVE  NothingUnsent'
<1>1. CASE UNCHANGED <<shared, frame, sent>>
  BY <1>1 DEF NothingUnsent
<1>2. CASE HandleValues
  <2>1. /\ shared' = Over(Head(dataIn), shared) /\ frame' = Over(Head(dataIn), frame)
        /\ UNCHANGED sent
    BY <1>2 DEF HandleValues, HandleData
  <2> QED  BY <2>1 DEF NothingUnsent, Over
<1>3. CASE Tick
  <2>1. DOMAIN frame' = {}
    BY <1>3 DEF Tick
  <2>2. sent' = Over(frame, sent) /\ UNCHANGED shared
    BY <1>3 DEF Tick, dataVars
  <2> QED  BY <2>1, <2>2 DEF NothingUnsent, Over
<1> QED
  BY <1>1, <1>2, <1>3 DEF FeedStep, feedVars, dataVars, PublishValues, PublishData, Publish,
     HandleRaw, HandleSubscription, Subscription, Received

(* No value is lost between the broker's map, which answers the engine,    *)
(* and the browsers, for events of any size in any order with the ticks.   *)
THEOREM ValuesBroadcast == SessionSpec => []NothingUnsent
<1>1. SessionInit => NothingUnsent
  BY DEF SessionInit, FeedInit, DataInit, NothingUnsent
<1>2. SessionTypeOK /\ NothingUnsent /\ [SessionNext]_sessionVars => NothingUnsent'
  BY FeedSteps, UnsentStep
<1> QED  BY <1>1, <1>2, SessionTypeCorrect, PTL DEF SessionSpec

-----------------------------------------------------------------------------
(* Commands.  The broker's queue, the node's queue and what the node was   *)
(* given are pieces of one ascending line, the next command's number above *)
(* it: routing moves its last piece's head to the end of the middle piece, *)
(* the write loop the middle's head to the end of the first, and a command *)
(* that is dropped or lost leaves the line.                                *)

Below(s, n) == \A i \in DOMAIN s : s[i].value < n

(* One piece of the line gives its head to the end of another, or drops it.*)
LEMMA TailAscends ==
  ASSUME NEW s \in Seq(Commanded), s # <<>>, Ascending(s)
  PROVE  /\ Tail(s) \in Seq(Commanded) /\ Head(s) \in Commanded /\ Ascending(Tail(s))
         /\ \A i \in DOMAIN Tail(s) : Head(s).value < Tail(s)[i].value
         /\ \A i \in DOMAIN Tail(s) : i + 1 \in DOMAIN s /\ Tail(s)[i] = s[i + 1]
         /\ 1 \in DOMAIN s /\ Head(s) = s[1]
<1>1. /\ Head(s) \in Commanded /\ Tail(s) \in Seq(Commanded) /\ Head(s) = s[1]
      /\ DOMAIN Tail(s) = 1 .. Len(s) - 1
      /\ \A i \in 1 .. Len(s) - 1 : Tail(s)[i] = s[i + 1]
      /\ DOMAIN s = 1 .. Len(s) /\ Len(s) \in Nat \ {0}
  OBVIOUS
<1>2. \A i \in DOMAIN Tail(s) : i + 1 \in DOMAIN s /\ Tail(s)[i] = s[i + 1] /\ 1 < i + 1
  BY <1>1
<1>3. Ascending(Tail(s)) /\ \A i \in DOMAIN Tail(s) : Head(s).value < Tail(s)[i].value
  BY <1>1, <1>2 DEF Ascending
<1> QED  BY <1>1, <1>2, <1>3

LEMMA BelowNext ==
  ASSUME NEW s \in Seq(Commanded), NEW n \in Nat, Below(s, n)
  PROVE  Below(s, n + 1)
<1>1. \A i \in DOMAIN s : s[i] \in Commanded
  OBVIOUS
<1>2. \A i \in DOMAIN s : s[i].value \in Nat
  BY <1>1 DEF Commanded
<1> QED  BY <1>2 DEF Below

LEMMA AppendAscends ==
  ASSUME NEW s \in Seq(Commanded), Ascending(s), NEW cmd \in Commanded, Below(s, cmd.value)
  PROVE  /\ Append(s, cmd) \in Seq(Commanded) /\ Ascending(Append(s, cmd))
         /\ \A i \in DOMAIN Append(s, cmd) :
              (i \in DOMAIN s /\ Append(s, cmd)[i] = s[i]) \/ Append(s, cmd)[i] = cmd
<1>1. /\ Append(s, cmd) \in Seq(Commanded)
      /\ DOMAIN Append(s, cmd) = 1 .. Len(s) + 1
      /\ \A i \in 1 .. Len(s) : Append(s, cmd)[i] = s[i]
      /\ Append(s, cmd)[Len(s) + 1] = cmd
      /\ DOMAIN s = 1 .. Len(s) /\ Len(s) \in Nat
  OBVIOUS
<1>2. Ascending(Append(s, cmd))
  BY <1>1 DEF Ascending, Below
<1> QED  BY <1>1, <1>2

LEMMA LineStep ==
  ASSUME SessionTypeOK, InLine, [SessionNext]_sessionVars
  PROVE  InLine'
<1>1. NodeStep /\ Counted
  BY NodeStepTaken, EventCounts DEF SessionTypeOK
<1>2. /\ cmdIn \in Seq(Commanded) /\ queue[Node] \in Seq(Commanded)
      /\ delivered \in Seq(Commanded) /\ events["command"] \in Nat
  BY NodeAssumption DEF SessionTypeOK, NodeTypeOK, ServerTypeOK, Kinds
<1> DEFINE n == events["command"]
<1>3. Below(delivered, n) /\ Below(queue[Node], n) /\ Below(cmdIn, n)
  BY DEF InLine, Below
<1>4. CASE \E k \in Consoles : Commands(k)
  <2>1. PICK c \in Hardware : SendCmd(Cmd(c, n))
    BY <1>4 DEF Commands
  <2>2. UNCHANGED delivered /\ UNCHANGED queue
    BY <1>4 DEF Commands, SendCmd
  <2>3. events'["command"] = n + 1
    BY <1>4 DEF Commands, Happens, SessionTypeOK, ServerTypeOK, Kinds
  <2>4. Cmd(c, n) \in Commanded /\ Cmd(c, n).value = n
    BY <1>2 DEF Cmd, Commanded
  <2>5. Below(delivered, n + 1) /\ Below(queue[Node], n + 1) /\ Below(cmdIn, n + 1)
    BY <1>2, <1>3, BelowNext
  <2>6. CASE cmdIn' = cmdIn
    BY <2>2, <2>3, <2>5, <2>6 DEF InLine, Below
  <2>7. CASE cmdIn' = Append(cmdIn, Cmd(c, n))
    <3>1. /\ Ascending(cmdIn')
          /\ \A i \in DOMAIN cmdIn' : \/ i \in DOMAIN cmdIn /\ cmdIn'[i] = cmdIn[i]
                                      \/ cmdIn'[i].value = n
      BY <1>2, <1>3, <2>4, <2>7, AppendAscends DEF InLine
    <3>2. AllBefore(delivered, cmdIn') /\ AllBefore(queue[Node], cmdIn')
      BY <1>3, <3>1 DEF InLine, AllBefore, Below
    <3>3. Below(cmdIn', n + 1)
      BY <1>2, <2>5, <3>1 DEF Below
    <3> QED  BY <2>2, <2>3, <2>5, <3>1, <3>2, <3>3 DEF InLine, Below
  <2> QED  BY <2>1, <2>6, <2>7 DEF SendCmd
<1>5. CASE UNCHANGED events["command"]
  <2>1. CASE UNCHANGED <<cmdIn, queue, delivered>>
    BY <1>5, <2>1 DEF InLine
  <2>2. CASE RouteCmd /\ UNCHANGED delivered
    <3>1. cmdIn # <<>> /\ cmdIn' = Tail(cmdIn)
      BY <2>2 DEF RouteCmd
    <3>2. /\ Head(cmdIn) \in Commanded /\ Ascending(cmdIn')
          /\ \A i \in DOMAIN cmdIn' : /\ Head(cmdIn).value < cmdIn'[i].value
                                      /\ i + 1 \in DOMAIN cmdIn /\ cmdIn'[i] = cmdIn[i + 1]
          /\ 1 \in DOMAIN cmdIn /\ Head(cmdIn) = cmdIn[1]
      BY <1>2, <3>1, TailAscends DEF InLine
    <3>3. queue'[Node] \in {queue[Node], Append(queue[Node], Head(cmdIn))}
      BY <2>2, NodeAssumption, CommandAssumption DEF RouteCmd, Routable, SessionTypeOK, NodeTypeOK
    <3>4. /\ Below(cmdIn', n) /\ AllBefore(delivered, cmdIn')
          /\ AllBefore(queue[Node], cmdIn')
      BY <1>3, <3>2 DEF InLine, AllBefore, Below
    <3>5. CASE queue'[Node] = queue[Node]
      BY <1>3, <1>5, <2>2, <3>2, <3>4, <3>5 DEF InLine, Below
    <3>6. CASE queue'[Node] = Append(queue[Node], Head(cmdIn))
      <4>1. Below(queue[Node], Head(cmdIn).value)
        BY <3>2 DEF InLine, AllBefore, Below
      <4>2. /\ Ascending(queue'[Node])
            /\ \A i \in DOMAIN queue'[Node] :
                 \/ i \in DOMAIN queue[Node] /\ queue'[Node][i] = queue[Node][i]
                 \/ queue'[Node][i] = Head(cmdIn)
        BY <1>2, <3>2, <3>6, <4>1, AppendAscends DEF InLine
      <4>3. AllBefore(delivered, queue'[Node]) /\ AllBefore(queue'[Node], cmdIn')
        BY <3>2, <3>4, <4>2 DEF InLine, AllBefore
      <4>4. Below(queue'[Node], n)
        BY <1>3, <3>2, <4>2 DEF Below
      <4> QED  BY <1>3, <1>5, <2>2, <3>2, <3>4, <4>2, <4>3, <4>4 DEF InLine, Below
    <3> QED  BY <3>3, <3>5, <3>6
  <2>3. CASE \E l \in 1 .. MaxLinks : WriteLoop(l)
    <3>1. /\ queue[Node] # <<>> /\ queue'[Node] = Tail(queue[Node]) /\ UNCHANGED cmdIn
          /\ delivered' \in {delivered, Append(delivered, Head(queue[Node]))}
      BY <2>3, NodeAssumption DEF WriteLoop, TakeCmd, SessionTypeOK, NodeTypeOK
    <3>2. /\ Head(queue[Node]) \in Commanded /\ Ascending(queue'[Node])
          /\ \A i \in DOMAIN queue'[Node] :
               /\ Head(queue[Node]).value < queue'[Node][i].value
               /\ i + 1 \in DOMAIN queue[Node] /\ queue'[Node][i] = queue[Node][i + 1]
          /\ 1 \in DOMAIN queue[Node] /\ Head(queue[Node]) = queue[Node][1]
      BY <1>2, <3>1, TailAscends DEF InLine
    <3>3. /\ Below(queue'[Node], n) /\ AllBefore(delivered, queue'[Node])
          /\ AllBefore(queue'[Node], cmdIn)
      BY <1>3, <3>2 DEF InLine, AllBefore, Below
    <3>4. CASE delivered' = delivered
      BY <1>3, <1>5, <3>1, <3>2, <3>3, <3>4 DEF InLine, Below
    <3>5. CASE delivered' = Append(delivered, Head(queue[Node]))
      <4>1. Below(delivered, Head(queue[Node]).value)
        BY <3>2 DEF InLine, AllBefore, Below
      <4>2. /\ Ascending(delivered')
            /\ \A i \in DOMAIN delivered' :
                 \/ i \in DOMAIN delivered /\ delivered'[i] = delivered[i]
                 \/ delivered'[i] = Head(queue[Node])
        BY <1>2, <3>2, <3>5, <4>1, AppendAscends DEF InLine
      <4>3. AllBefore(delivered', queue'[Node]) /\ AllBefore(delivered', cmdIn)
        BY <3>2, <3>3, <4>2 DEF InLine, AllBefore
      <4>4. Below(delivered', n)
        BY <1>3, <3>2, <4>2 DEF Below
      <4> QED  BY <1>3, <1>5, <3>1, <3>2, <3>3, <4>2, <4>3, <4>4 DEF InLine, Below
    <3> QED  BY <3>1, <3>4, <3>5
  <2>4. ~\E k \in Consoles : Commands(k)
    BY <1>2, <1>5 DEF Commands, Happens, SessionTypeOK, ServerTypeOK, Kinds
  <2> QED
    BY <1>1, <2>1, <2>2, <2>3, <2>4
    DEF NodeStep, nodeVars, cmdVars, HandleRegistration, NodeSteps, Dials, Serves, LinkFails,
        RegisterDaq
<1> QED  BY <1>1, <1>4, <1>5 DEF Counted

(* The node is given commands in the order of the consoles, none twice,    *)
(* through dropped commands, dead write loops and new connections.         *)
THEOREM CommandsInOrder == SessionSpec => []CmdsInOrder
<1>1. SessionInit => InLine
  BY NodeAssumption DEF SessionInit, NodeInit, CmdInit, InLine, Ascending, AllBefore
<1>2. SessionTypeOK /\ InLine /\ [SessionNext]_sessionVars => InLine'
  BY LineStep
<1>3. InLine => CmdsInOrder
  BY DEF InLine, Ascending, CmdsInOrder
<1> QED  BY <1>1, <1>2, <1>3, SessionTypeCorrect, PTL DEF SessionSpec

-----------------------------------------------------------------------------
(* Connections: the broker has yet to hear of one that is not open, or has *)
(* not subscribed, so that its channel is empty when it does.              *)

connVars == <<subIn, subscribers, wire, at, conn, bad, shownBad, badLost>>

LEMMA ConnSteps ==
  ASSUME [SessionNext]_sessionVars
  PROVE  \/ BrokerBroadcasts \/ Streams \/ Closes
         \/ UNCHANGED connVars
<1>1. CASE \/ UNCHANGED sessionVars \/ StateChanges \/ SequenceSets \/ Announces
           \/ Keepalive \/ KeepalivePublishes \/ NodeReports
           \/ \E g \in Setters : Marks(g) \/ Publishes(g)
  BY <1>1 DEF sessionVars, feedVars, browserVars, lossVars, StateChanges, SequenceSets, Announces,
              Keepalive, KeepalivePublishes, NodeReports, Marks, Publishes, Publish,
              PublishValues, connVars
<1>2. CASE BrokerRoutes \/ NodeLink
  BY <1>2 DEF BrokerRoutes, NodeLink, ctrl, feedVars, browserVars, lossVars, connVars
<1>3. CASE \E k \in Consoles : \/ Authenticates(k) \/ Commands(k)
                               \/ OpensLayout(k) \/ Saves(k)
  BY <1>3 DEF Authenticates, Commands, OpensLayout, Saves, WritesLayout, WriteFails,
              UpdatesPanel, BroadcastsLayout, Publish, ctrl, feedVars, browserVars, lossVars,
              connVars
<1> QED  BY <1>1, <1>2, <1>3 DEF SessionNext

LEMMA NextSubscription ==
  ASSUME FeedTypeOK, HandleSubscription
  PROVE  /\ 1 \in DOMAIN subIn /\ Head(subIn) = subIn[1] /\ Head(subIn) \in Requests
         /\ \A i \in DOMAIN subIn' : i + 1 \in DOMAIN subIn /\ subIn'[i] = subIn[i + 1]
         /\ \A i \in DOMAIN subIn : i = 1 \/ (i - 1 \in DOMAIN subIn' /\ subIn'[i - 1] = subIn[i])
<1>1. subIn \in Seq(Requests) /\ subIn # <<>> /\ subIn' = Tail(subIn)
  BY DEF HandleSubscription, FeedTypeOK
<1> QED  BY <1>1

LEMMA NewSubscription ==
  ASSUME FeedTypeOK, NEW n \in Conns, NEW unsub \in BOOLEAN, Subscription(n, unsub)
  PROVE  /\ \A i \in DOMAIN subIn : i \in DOMAIN subIn' /\ subIn'[i] = subIn[i]
         /\ \A i \in DOMAIN subIn' :
              \/ i \in DOMAIN subIn /\ subIn'[i] = subIn[i]
              \/ i = Len(subIn') /\ subIn'[i] = [conn |-> n, unsub |-> unsub]
         /\ Len(subIn') = Len(subIn) + 1 /\ subIn'[Len(subIn')] = [conn |-> n, unsub |-> unsub]
         /\ UNCHANGED <<subscribers, wire>>
<1>1. subIn \in Seq(Requests) /\ subIn' = Append(subIn, [conn |-> n, unsub |-> unsub])
  BY DEF Subscription, FeedTypeOK
<1> DEFINE r == [conn |-> n, unsub |-> unsub]
<1>2. r \in Requests
  BY DEF Requests
<1> HIDE DEF r
<1>3. /\ DOMAIN Append(subIn, r) = 1 .. Len(subIn) + 1 /\ DOMAIN subIn = 1 .. Len(subIn)
      /\ Len(Append(subIn, r)) = Len(subIn) + 1 /\ Len(subIn) \in Nat
      /\ \A i \in 1 .. Len(subIn) : Append(subIn, r)[i] = subIn[i]
      /\ Append(subIn, r)[Len(subIn) + 1] = r
  BY <1>1, <1>2
<1>4. subIn' = Append(subIn, r)
  BY <1>1 DEF r
<1>5. /\ \A i \in DOMAIN subIn : i \in DOMAIN subIn' /\ subIn'[i] = subIn[i]
      /\ \A i \in DOMAIN subIn' : \/ i \in DOMAIN subIn /\ subIn'[i] = subIn[i]
                                  \/ i = Len(subIn') /\ subIn'[i] = r
      /\ Len(subIn') = Len(subIn) + 1 /\ subIn'[Len(subIn')] = r
  BY <1>3, <1>4
<1> QED  BY <1>5 DEF r, Subscription

Fresh(n) == n > conn \/ (n = conn /\ at \in {"panels", "subscribe"})

LEMMA FreshStep ==
  ASSUME SessionTypeOK, FreshConns, [SessionNext]_sessionVars
  PROVE  FreshConns'
<1>1. FeedTypeOK /\ PageTypeOK
  BY DEF SessionTypeOK, ServerTypeOK
<1>2. conn \in Nat /\ conn' \in Nat /\ Conns \subseteq Nat
  <2>1. PageTypeOK'
    BY PageSteps, PageType
  <2>2. Conns \subseteq Nat
    BY SessionAssumption
  <2> QED  BY <1>1, <2>1, <2>2 DEF PageTypeOK
<1> SUFFICES ASSUME NEW n \in Conns, Fresh(n)'
             PROVE  UnheardOf(n)'
  BY DEF FreshConns, Fresh
<1>3. Fresh(n) => UnheardOf(n)
  BY DEF FreshConns, Fresh
<1>4. CASE UNCHANGED connVars
  BY <1>3, <1>4 DEF connVars, Fresh, UnheardOf
<1>5. CASE HandlesValues \/ HandlesRaw \/ Ticks
  <2>1. UNCHANGED <<at, conn>> /\ (HandleValues \/ HandleRaw \/ Tick)
    BY <1>5 DEF HandlesValues, HandlesRaw, Ticks, besideBroker
  <2>2. PICK msgs \in Seq(Messages) : FannedOut(msgs)
    BY <1>1, <2>1, FansOut
  <2>3. UNCHANGED <<subIn, subscribers>>
    BY <1>1, <2>1, FansOut
  <2>4. n \notin subscribers => wire'[n] = wire[n]
    BY <1>1, <2>2, FannedOutType DEF FeedTypeOK
  <2> QED  BY <1>3, <2>1, <2>3, <2>4 DEF Fresh, UnheardOf
<1>6. CASE HandlesSubscription
  <2>1. UNCHANGED <<at, conn, wire>> /\ HandleSubscription
    BY <1>6 DEF HandlesSubscription, HandleSubscription, besideBroker
  <2>2. UnheardOf(n)
    BY <1>3, <2>1 DEF Fresh
  <2>3. Head(subIn).conn # n
    BY <1>1, <2>1, <2>2, NextSubscription DEF UnheardOf
  <2>4. n \notin subscribers'
    BY <2>1, <2>2, <2>3 DEF HandleSubscription, UnheardOf
  <2>5. \A i \in DOMAIN subIn' : subIn'[i].conn # n
    BY <1>1, <2>1, <2>2, NextSubscription DEF UnheardOf
  <2> QED  BY <2>1, <2>2, <2>4, <2>5 DEF UnheardOf
<1>7. CASE Connects \/ SendsPanels \/ SendsBadSnapshot
  <2>1. UNCHANGED <<subIn, subscribers, wire>>
    BY <1>7 DEF Connects, SendsPanels, SendsBadSnapshot, feedVars
  <2>2. Fresh(n)
    BY <1>2, <1>7 DEF Connects, SendsPanels, SendsBadSnapshot, Fresh
  <2> QED  BY <1>3, <2>1, <2>2 DEF UnheardOf
<1>8. CASE Subscribes \/ Closes
  <2>1. UNCHANGED conn /\ n > conn /\ conn \in Conns
    BY <1>1, <1>2, <1>8 DEF Subscribes, Closes, Fresh, PageTypeOK
  <2>2. UnheardOf(n) /\ n # conn
    BY <1>2, <1>3, <2>1 DEF Fresh
  <2>3. UNCHANGED feedVars \/ \E unsub \in BOOLEAN : Subscription(conn, unsub)
    BY <1>8 DEF Subscribes, Closes
  <2>4. CASE UNCHANGED feedVars
    BY <2>2, <2>4 DEF feedVars, UnheardOf
  <2>5. CASE \E unsub \in BOOLEAN : Subscription(conn, unsub)
    <3>1. PICK unsub \in BOOLEAN : Subscription(conn, unsub)
      BY <2>5
    <3>2. UNCHANGED <<subscribers, wire>>
      BY <3>1 DEF Subscription
    <3>3. \A i \in DOMAIN subIn' : \/ i \in DOMAIN subIn /\ subIn'[i] = subIn[i]
                                   \/ subIn'[i] = [conn |-> conn, unsub |-> unsub]
      BY <1>1, <2>1, <3>1, NewSubscription
    <3> QED  BY <2>2, <3>2, <3>3 DEF UnheardOf
  <2> QED  BY <2>3, <2>4, <2>5
<1>9. CASE onDataMessage
  <2>1. UNCHANGED <<at, conn, subIn, subscribers>> /\ at = "stream"
    BY <1>9 DEF onDataMessage, Received
  <2>2. n # conn /\ UnheardOf(n)
    BY <1>2, <1>3, <2>1 DEF Fresh
  <2>3. wire'[n] = wire[n]
    BY <1>1, <1>9, <2>2 DEF onDataMessage, Received, FeedTypeOK
  <2> QED  BY <2>1, <2>2, <2>3 DEF UnheardOf
<1> QED
  BY <1>4, <1>5, <1>6, <1>7, <1>8, <1>9, ConnSteps DEF BrokerBroadcasts, Streams

-----------------------------------------------------------------------------
(* Layouts.  A queue on the way to the page gives up its first message, or *)
(* gains messages at its end.                                              *)

LEMMA RawAreMessages ==
  ASSUME FeedTypeOK
  PROVE  rawIn \in Seq(Messages)
<1>1. RawMessages \subseteq Messages
  BY DEF Messages
<1>2. /\ rawIn \in Seq(RawMessages) /\ DOMAIN rawIn = 1 .. Len(rawIn)
      /\ \A i \in 1 .. Len(rawIn) : rawIn[i] \in RawMessages
  BY DEF FeedTypeOK
<1> QED  BY <1>1, <1>2

LEMMA TailMessages ==
  ASSUME NEW s \in Seq(Messages), s # <<>>
  PROVE  /\ Tail(s) \in Seq(Messages) /\ Head(s) \in Messages
         /\ 1 \in DOMAIN s /\ Head(s) = s[1]
         /\ \A i \in DOMAIN Tail(s) : i \in Nat /\ i + 1 \in DOMAIN s /\ Tail(s)[i] = s[i + 1]
         /\ \A i \in DOMAIN s : \/ i = 1
                                \/ i - 1 \in DOMAIN Tail(s) /\ i \in Nat
                                   /\ s[i] = Tail(s)[i - 1]
<1>1. /\ Head(s) \in Messages /\ Tail(s) \in Seq(Messages) /\ Head(s) = s[1]
      /\ DOMAIN Tail(s) = 1 .. Len(s) - 1
      /\ \A i \in 1 .. Len(s) - 1 : Tail(s)[i] = s[i + 1]
      /\ DOMAIN s = 1 .. Len(s) /\ Len(s) \in Nat \ {0}
  OBVIOUS
<1> QED  BY <1>1

LEMMA TailLayouts ==
  ASSUME NEW s \in Seq(Messages), s # <<>>, NEW content, LastLayout(s, content)
  PROVE  /\ LastLayout(Tail(s), content)
         /\ LayoutsIn(Tail(s)) = {} =>
              IF Head(s).kind = "pid_layout" THEN Head(s).content = content
              ELSE LayoutsIn(s) = {}
<1>1. /\ 1 \in DOMAIN s /\ Head(s) = s[1] /\ DOMAIN s \subseteq Nat
      /\ \A i \in DOMAIN Tail(s) : i \in Nat /\ i + 1 \in DOMAIN s /\ Tail(s)[i] = s[i + 1]
      /\ \A i \in DOMAIN s : i = 1 \/ (i - 1 \in DOMAIN Tail(s) /\ s[i] = Tail(s)[i - 1])
  BY TailMessages
<1>2. ASSUME NEW i \in LayoutsIn(Tail(s)), \A j \in LayoutsIn(Tail(s)) : j <= i
      PROVE  Tail(s)[i].content = content
  <2>1. i + 1 \in LayoutsIn(s) /\ i \in Nat
    BY <1>1 DEF LayoutsIn
  <2>2. ASSUME NEW j \in LayoutsIn(s) PROVE j <= i + 1
    <3>1. CASE j = 1
      BY <2>1, <3>1
    <3>2. CASE j # 1
      <4>1. j - 1 \in LayoutsIn(Tail(s)) /\ j \in Nat
        BY <1>1, <3>2 DEF LayoutsIn
      <4> QED  BY <1>2, <2>1, <4>1
    <3> QED  BY <3>1, <3>2
  <2>3. s[i + 1].content = content
    BY <2>1, <2>2 DEF LastLayout
  <2> QED  BY <1>1, <2>3 DEF LayoutsIn
<1>3. ASSUME LayoutsIn(Tail(s)) = {}, Head(s).kind = "pid_layout"
      PROVE  Head(s).content = content
  <2>1. ASSUME NEW j \in LayoutsIn(s), j # 1 PROVE FALSE
    <3>1. j - 1 \in LayoutsIn(Tail(s))
      BY <1>1, <2>1 DEF LayoutsIn
    <3> QED  BY <1>3, <3>1
  <2>2. 1 \in LayoutsIn(s)
    BY <1>1, <1>3 DEF LayoutsIn
  <2>3. \A j \in LayoutsIn(s) : j <= 1
    BY <2>1
  <2> QED  BY <1>1, <2>2, <2>3 DEF LastLayout
<1>4. ASSUME LayoutsIn(Tail(s)) = {}, Head(s).kind # "pid_layout"
      PROVE  LayoutsIn(s) = {}
  <2>1. ASSUME NEW j \in LayoutsIn(s) PROVE FALSE
    <3>1. j # 1
      BY <1>1, <1>4 DEF LayoutsIn
    <3>2. j - 1 \in LayoutsIn(Tail(s))
      BY <1>1, <3>1 DEF LayoutsIn
    <3> QED  BY <1>4, <3>2
  <2> QED  BY <2>1
<1> QED  BY <1>2, <1>3, <1>4 DEF LastLayout

LEMMA MoreNotLayouts ==
  ASSUME NEW new, NEW old \in Seq(Messages), NEW msgs \in Seq(Messages), Extends(new, old, msgs),
         \A i \in DOMAIN msgs : msgs[i].kind # "pid_layout"
  PROVE  /\ LayoutsIn(new) = LayoutsIn(old)
         /\ \A content : LastLayout(old, content) => LastLayout(new, content)
<1>1. /\ new \in Seq(Messages) /\ Len(old) <= Len(new) /\ Len(new) - Len(old) <= Len(msgs)
      /\ \A i \in 1 .. Len(old) : new[i] = old[i]
      /\ \A i \in Len(old) + 1 .. Len(new) : new[i] = msgs[i - Len(old)]
      /\ DOMAIN new = 1 .. Len(new) /\ DOMAIN old = 1 .. Len(old) /\ DOMAIN msgs = 1 .. Len(msgs)
      /\ Len(new) \in Nat /\ Len(old) \in Nat /\ Len(msgs) \in Nat
  BY DEF Extends
<1>2. ASSUME NEW i \in DOMAIN new, i \notin DOMAIN old PROVE new[i].kind # "pid_layout"
  <2>1. i \in Len(old) + 1 .. Len(new) /\ i - Len(old) \in DOMAIN msgs
    BY <1>1, <1>2
  <2> QED  BY <1>1, <2>1
<1>3. DOMAIN old \subseteq DOMAIN new
  BY <1>1
<1>4. LayoutsIn(new) = LayoutsIn(old)
  BY <1>1, <1>2, <1>3 DEF LayoutsIn
<1>5. \A i \in LayoutsIn(old) : new[i] = old[i]
  BY <1>1 DEF LayoutsIn
<1> QED  BY <1>4, <1>5 DEF LastLayout

LEMMA LayoutLast ==
  ASSUME NEW s \in Seq(Messages), s # <<>>, s[Len(s)].kind = "pid_layout"
  PROVE  LayoutsIn(s) # {} /\ LastLayout(s, s[Len(s)].content)
<1>1. /\ Len(s) \in DOMAIN s /\ DOMAIN s \subseteq Nat
      /\ \A i \in DOMAIN s : i <= Len(s)
  OBVIOUS
<1>2. Len(s) \in LayoutsIn(s)
  BY <1>1 DEF LayoutsIn
<1>3. \A i \in LayoutsIn(s) : (\A j \in LayoutsIn(s) : j <= i) => i = Len(s)
  BY <1>1, <1>2 DEF LayoutsIn
<1> QED  BY <1>2, <1>3 DEF LastLayout

layoutVars == <<rawIn, wire, at, conn, shownLayout, layoutLost>>

LEMMA LayoutSteps ==
  ASSUME [SessionNext]_sessionVars
  PROVE  \/ UNCHANGED <<saveVars, layoutVars>>
         \/ UNCHANGED saveVars /\ (Announces \/ BrokerBroadcasts \/ Streams \/ Closes)
         \/ \E k \in Consoles : OpensLayout(k) \/ Saves(k)
<1>1. CASE \/ UNCHANGED sessionVars \/ StateChanges \/ SequenceSets
           \/ Keepalive \/ KeepalivePublishes \/ NodeReports
           \/ \E g \in Setters : Marks(g) \/ Publishes(g)
  BY <1>1 DEF sessionVars, feedVars, browserVars, lossVars, StateChanges, SequenceSets,
              Keepalive, KeepalivePublishes, NodeReports, Marks, Publishes, PublishValues,
              layoutVars
<1>2. CASE BrokerRoutes \/ NodeLink
  BY <1>2 DEF BrokerRoutes, NodeLink, ctrl, feedVars, browserVars, lossVars, layoutVars
<1>3. CASE \E k \in Consoles : Authenticates(k) \/ Commands(k)
  BY <1>3 DEF Authenticates, Commands, ctrl, feedVars, browserVars, lossVars, layoutVars
<1>4. CASE Announces \/ BrokerBroadcasts
  BY <1>4 DEF Announces, BrokerBroadcasts, HandlesValues, HandlesRaw, Ticks,
              HandlesSubscription, besideBroker
<1>5. CASE Streams \/ Closes
  BY <1>5 DEF Streams, Closes, Connects, SendsPanels, Subscribes, SendsBadSnapshot,
              onDataMessage, served, server
<1> QED  BY <1>1, <1>2, <1>3, <1>4, <1>5 DEF SessionNext

(* Each save under way is the only one, and what it has written is in the  *)
(* file.                                                                   *)
LEMMA SavesStep ==
  ASSUME SessionTypeOK, SavesInTurn, ~collided', [SessionNext]_sessionVars
  PROVE  OneSave' /\ ~collided
<1> USE DEF SessionTypeOK, ServerTypeOK
<1>1. CASE UNCHANGED saveVars
  BY <1>1 DEF saveVars, SavesInTurn, OneSave
<1>2. CASE \E k \in Consoles : OpensLayout(k)
  <2>1. PICK k \in Consoles, content \in Contents :
           /\ saving' = [saving EXCEPT ![k] = [step |-> "opened", content |-> content]]
           /\ collided' = (collided \/ \E other \in Consoles : saving[other] # NotSaving)
    BY <1>2 DEF OpensLayout
  <2>2. ~collided /\ \A other \in Consoles : saving[other] = NotSaving
    BY <2>1
  <2>3. \A other \in Consoles \ {k} : saving'[other] = NotSaving
    BY <2>1, <2>2 DEF SaveTypeOK
  <2>4. saving'[k] = [step |-> "opened", content |-> content]
    BY <2>1 DEF SaveTypeOK
  <2> QED  BY <2>2, <2>3, <2>4 DEF OneSave
<1>3. ASSUME NEW k \in Consoles, Saves(k)
      PROVE  OneSave' /\ ~collided
  <2>1. saving[k] \in Records
    BY <1>3, SaveRecord DEF Saves, WritesLayout, WriteFails, UpdatesPanel, BroadcastsLayout
  <2>2. ~collided /\ OneSave /\ saving[k] # NotSaving
    BY <1>3, <2>1
    DEF Records, Saves, WritesLayout, WriteFails, UpdatesPanel, BroadcastsLayout, SavesInTurn,
        NotSaving
  <2>3. \A other \in Consoles \ {k} : saving'[other] = NotSaving
    <3>1. \A other \in Consoles \ {k} : saving[other] = NotSaving
      BY <2>2 DEF OneSave
    <3> QED
      BY <1>3, <3>1
      DEF Saves, WritesLayout, WriteFails, UpdatesPanel, BroadcastsLayout, SaveTypeOK
  <2>4. CASE WritesLayout(k)
    <3>1. /\ layoutFile' = saving[k].content /\ saving'[k].content = saving[k].content
          /\ saving'[k].step = "written"
      BY <2>1, <2>4 DEF WritesLayout, Records, SaveTypeOK
    <3> QED  BY <2>2, <2>3, <3>1 DEF OneSave
  <2>5. CASE UpdatesPanel(k)
    <3>1. saving[k].content = layoutFile
      BY <2>2, <2>5 DEF UpdatesPanel, OneSave
    <3>2. /\ saving'[k].content = saving[k].content /\ saving'[k].step = "updated"
          /\ panel' \in {saving[k].content, Unknown} /\ UNCHANGED layoutFile
      BY <2>1, <2>5 DEF UpdatesPanel, Records, SaveTypeOK
    <3> QED  BY <2>2, <2>3, <3>1, <3>2 DEF OneSave
  <2>6. CASE WriteFails(k) \/ BroadcastsLayout(k)
    <3>1. saving'[k] = NotSaving
      BY <2>6 DEF WriteFails, BroadcastsLayout, SaveTypeOK
    <3> QED  BY <2>2, <2>3, <3>1 DEF OneSave
  <2> QED  BY <1>3, <2>4, <2>5, <2>6 DEF Saves
<1> QED  BY <1>1, <1>2, <1>3, LayoutSteps

LEMMA FansOutOther ==
  ASSUME FeedTypeOK, HandleValues \/ Tick
  PROVE  \E msgs \in Seq(Messages) :
           FannedOut(msgs) /\ \A i \in DOMAIN msgs : msgs[i].kind # "pid_layout"
<1>1. CASE HandleValues
  <2> DEFINE event == Head(dataIn)
  <2>1. event \in Frames
    BY <1>1 DEF HandleValues, HandleData, FeedTypeOK
  <2>2. PICK turn \in [1 .. Cardinality(Transitions(event)) -> Transitions(event)] :
               IsInjective(turn) /\ FannedOut(Warns(turn, event))
    BY <1>1 DEF HandleValues, Warns
  <2>3. \A i \in DOMAIN Warns(turn, event) : Warns(turn, event)[i].kind # "pid_layout"
    BY DEF Warns, BadData
  <2> QED  BY <2>1, <2>2, <2>3, WarnsType
<1>2. CASE Tick
  <2> DEFINE msgs == <<Data(frame)>>
  <2>1. Data(frame) \in Messages /\ Data(frame).kind # "pid_layout"
    BY DEF FeedTypeOK, Data, Messages
  <2>2. msgs \in Seq(Messages) /\ \A i \in DOMAIN msgs : msgs[i].kind # "pid_layout"
    BY <2>1
  <2>3. FannedOut(msgs)
    BY <1>2 DEF Tick
  <2> QED  BY <2>2, <2>3
<1> QED  BY <1>1, <1>2

(* A raw message leaves the broker's queue; the open connection, unless it *)
(* goes unheard, has it last in its channel.                               *)
LEMMA RawStep ==
  ASSUME SessionTypeOK, LayoutComes, HandlesRaw, ~layoutLost'
  PROVE  LayoutComes'
<1> USE DEF PageAgrees
<1>1. FeedTypeOK /\ PageTypeOK /\ rawIn \in Seq(Messages)
  BY RawAreMessages DEF SessionTypeOK, ServerTypeOK
<1>2. /\ rawIn # <<>> /\ rawIn' = Tail(rawIn) /\ FannedOut(<<Head(rawIn)>>)
      /\ UNCHANGED <<at, conn, layoutFile, shownLayout>>
  BY DEF HandlesRaw, HandleRaw, besideBroker, saveVars, browserVars
<1>3. Head(rawIn) \in Messages /\ rawIn' \in Seq(Messages)
  BY <1>1, <1>2, TailMessages
<1>4. LastLayout(rawIn', layoutFile)
  BY <1>1, <1>2, TailLayouts DEF LayoutComes
<1>5. ASSUME at \in {"subscribe", "snapshot", "stream"}, LayoutsIn(rawIn') = {}
      PROVE  /\ LastLayout(wire'[conn], layoutFile)
             /\ LayoutsIn(wire'[conn]) = {} => PageAgrees
  <2> DEFINE msgs == <<Head(rawIn)>>
  <2>1. conn \in Conns /\ wire[conn] \in Seq(Messages)
    BY <1>1, <1>5 DEF PageTypeOK, FeedTypeOK
  <2>2. /\ msgs \in Seq(Messages) /\ Len(msgs) = 1 /\ DOMAIN msgs = {1}
        /\ msgs[1] = Head(rawIn) /\ FannedOut(msgs)
    BY <1>2, <1>3
  <2>3. CASE Head(rawIn).kind = "pid_layout"
    <3>1. Head(rawIn).content = layoutFile
      BY <1>1, <1>2, <1>5, <2>3, TailLayouts DEF LayoutComes
    <3>2. conn \in subscribers /\ Room(conn) >= 1
      <4>1. ~Unheard(1)
        BY <1>5, <2>3 DEF HandlesRaw
      <4>2. Room(conn) \in Int
        BY <2>1, FeedAssumption DEF Room
      <4> QED  BY <4>1, <4>2 DEF Unheard
    <3> HIDE DEF msgs
    <3>3. /\ wire'[conn] \in Seq(Messages) /\ Len(wire'[conn]) = Len(wire[conn]) + 1
          /\ wire'[conn][Len(wire[conn]) + 1] = msgs[Len(wire[conn]) + 1 - Len(wire[conn])]
      <4>1. Extends(wire'[conn], wire[conn], msgs)
        BY <1>1, <2>1, <2>2, <3>2, FannedOutType DEF FeedTypeOK
      <4>2. Len(wire'[conn]) = Len(wire[conn]) + 1
        BY <1>1, <2>1, <2>2, <3>2, FannedOutType DEF FeedTypeOK
      <4>3. Len(wire[conn]) \in Nat
        BY <2>1
      <4> QED  BY <4>1, <4>2, <4>3 DEF Extends
    <3>4. wire'[conn] # <<>> /\ wire'[conn][Len(wire'[conn])] = Head(rawIn)
      BY <2>1, <2>2, <3>3
    <3>5. LayoutsIn(wire'[conn]) # {} /\ LastLayout(wire'[conn], Head(rawIn).content)
      BY <2>3, <3>3, <3>4, LayoutLast
    <3> QED  BY <3>1, <3>5
  <2>4. CASE Head(rawIn).kind # "pid_layout"
    <3>1. LayoutsIn(rawIn) = {}
      BY <1>1, <1>2, <1>5, <2>4, TailLayouts DEF LayoutComes
    <3>2. /\ LastLayout(wire[conn], layoutFile)
          /\ LayoutsIn(wire[conn]) = {} => PageAgrees
      BY <1>5, <3>1 DEF LayoutComes
    <3>3. wire'[conn] = wire[conn] \/ Extends(wire'[conn], wire[conn], msgs)
      <4> HIDE DEF msgs
      <4> QED  BY <1>1, <2>1, <2>2, FannedOutType DEF FeedTypeOK
    <3>4. \A i \in DOMAIN msgs : msgs[i].kind # "pid_layout"
      BY <2>2, <2>4
    <3> HIDE DEF msgs
    <3> QED  BY <2>1, <2>2, <3>2, <3>3, <3>4, MoreNotLayouts
  <2> QED  BY <2>3, <2>4
<1> QED  BY <1>2, <1>4, <1>5 DEF LayoutComes

LEMMA PageLayoutStep ==
  ASSUME SessionTypeOK, FreshConns, panel = layoutFile, panel # Unknown,
         ~layoutLost => LayoutComes,
         Announces \/ BrokerBroadcasts \/ Streams \/ Closes, ~layoutLost'
  PROVE  LayoutComes'
<1> USE DEF PageAgrees
<1>1. FeedTypeOK /\ PageTypeOK /\ rawIn \in Seq(Messages)
  BY RawAreMessages DEF SessionTypeOK, ServerTypeOK
<1>2. CASE Announces
  <2>1. ~layoutLost /\ UNCHANGED <<wire, at, conn, layoutFile, shownLayout>>
    BY <1>2 DEF Announces, Publish, saveVars, browserVars, lossVars
  <2>2. rawIn' \in {rawIn, Append(rawIn, StateChange(announce))}
    BY <1>2 DEF Announces, Publish
  <2>3. StateChange(announce) \in Messages /\ StateChange(announce).kind # "pid_layout"
    BY <1>1, <1>2 DEF Announces, StateChange, Messages, RawMessages, PageTypeOK
  <2>4. LayoutsIn(rawIn') = LayoutsIn(rawIn) /\ \A i \in LayoutsIn(rawIn) : rawIn'[i] = rawIn[i]
    <3>1. CASE rawIn' = Append(rawIn, StateChange(announce))
      <4> DEFINE msg == StateChange(announce)
      <4> HIDE DEF msg
      <4>1. /\ DOMAIN Append(rawIn, msg) = 1 .. Len(rawIn) + 1 /\ DOMAIN rawIn = 1 .. Len(rawIn)
            /\ \A i \in 1 .. Len(rawIn) : Append(rawIn, msg)[i] = rawIn[i]
            /\ Append(rawIn, msg)[Len(rawIn) + 1] = msg /\ Len(rawIn) \in Nat
        BY <1>1
      <4>2. rawIn' = Append(rawIn, msg) /\ msg.kind # "pid_layout"
        BY <2>3, <3>1 DEF msg
      <4> QED  BY <4>1, <4>2 DEF LayoutsIn
    <3> QED  BY <2>2, <3>1
  <2> QED  BY <2>1, <2>4 DEF LayoutComes, LastLayout
<1>3. CASE HandlesRaw
  <2>1. ~layoutLost
    BY <1>3 DEF HandlesRaw
  <2> QED  BY <1>3, <2>1, RawStep
<1>4. CASE HandlesValues \/ Ticks
  <2>1. /\ ~layoutLost /\ UNCHANGED <<rawIn, at, conn, layoutFile, shownLayout>>
        /\ HandleValues \/ Tick
    BY <1>4 DEF HandlesValues, HandleValues, Ticks, Tick, besideBroker, saveVars, browserVars,
                lossVars
  <2>2. PICK msgs \in Seq(Messages) :
           FannedOut(msgs) /\ \A i \in DOMAIN msgs : msgs[i].kind # "pid_layout"
    BY <1>1, <2>1, FansOutOther
  <2>3. ASSUME NEW n \in Conns
        PROVE  /\ LayoutsIn(wire'[n]) = LayoutsIn(wire[n])
               /\ LastLayout(wire[n], layoutFile) => LastLayout(wire'[n], layoutFile)
    <3>1. wire[n] \in Seq(Messages)
      BY <1>1 DEF FeedTypeOK
    <3>2. wire'[n] = wire[n] \/ Extends(wire'[n], wire[n], msgs)
      BY <1>1, <2>2, FannedOutType DEF FeedTypeOK
    <3> QED  BY <2>2, <3>1, <3>2, MoreNotLayouts
  <2>4. at # "closed" => conn \in Conns
    BY <1>1 DEF PageTypeOK
  <2> QED  BY <2>1, <2>3, <2>4 DEF LayoutComes
<1>5. CASE HandlesSubscription \/ SendsBadSnapshot
  BY <1>5 DEF HandlesSubscription, HandleSubscription, SendsBadSnapshot, besideBroker, saveVars,
              browserVars, lossVars, served, server, feedVars, LayoutComes
<1>6. CASE Connects \/ Closes
  <2>1. ~layoutLost /\ UNCHANGED <<rawIn, layoutFile>> /\ at' \in {"panels", "closed"}
    BY <1>6 DEF Connects, Closes, Subscription, lossVars, feedVars, server, saveVars
  <2> QED  BY <2>1 DEF LayoutComes
<1>7. CASE SendsPanels
  <2>1. /\ at = "panels" /\ at' = "subscribe" /\ PageAgrees'
        /\ layoutLost' = (layoutLost /\ rawIn # <<>>)
        /\ UNCHANGED <<rawIn, wire, conn, layoutFile>>
    BY <1>7 DEF SendsPanels, Laid, served, server, saveVars, feedVars
  <2>2. LastLayout(rawIn, layoutFile)
    <3>1. CASE rawIn = <<>>
      BY <3>1 DEF LastLayout, LayoutsIn
    <3>2. CASE rawIn # <<>>
      BY <2>1, <3>2 DEF LayoutComes
    <3> QED  BY <3>1, <3>2
  <2>3. wire[conn] = <<>>
    BY <1>1, <2>1 DEF PageTypeOK, FreshConns, UnheardOf
  <2>4. LastLayout(wire[conn], layoutFile)
    BY <2>3 DEF LastLayout, LayoutsIn
  <2> QED  BY <2>1, <2>2, <2>4 DEF LayoutComes
<1>8. CASE Subscribes
  <2>1. /\ at = "subscribe" /\ ~layoutLost
        /\ UNCHANGED <<rawIn, wire, conn, layoutFile, shownLayout>>
    BY <1>8 DEF Subscribes, Subscription, served, server, saveVars, browserVars, lossVars
  <2> QED  BY <2>1 DEF LayoutComes
<1>9. CASE onDataMessage
  <2> DEFINE msg == Head(wire[conn])
  <2>1. /\ at = "stream" /\ ~layoutLost /\ conn \in Conns /\ wire[conn] \in Seq(Messages)
        /\ wire[conn] # <<>> /\ wire'[conn] = Tail(wire[conn])
        /\ UNCHANGED <<rawIn, at, conn, layoutFile>>
    BY <1>1, <1>9 DEF onDataMessage, Received, served, server, saveVars, lossVars, PageTypeOK,
                      FeedTypeOK
  <2>2. shownLayout' = IF msg.kind = "pid_layout" THEN Laid(msg.content) ELSE shownLayout
    BY <1>9 DEF onDataMessage
  <2>3. ASSUME LayoutsIn(rawIn) = {}
        PROVE  /\ LastLayout(wire'[conn], layoutFile)
               /\ LayoutsIn(wire'[conn]) = {} => PageAgrees'
    <3>1. /\ LastLayout(wire[conn], layoutFile)
          /\ LayoutsIn(wire[conn]) = {} => PageAgrees
      BY <2>1, <2>3 DEF LayoutComes
    <3> QED  BY <2>1, <2>2, <3>1, TailLayouts DEF Laid
  <2> QED  BY <2>1, <2>3 DEF LayoutComes
<1> QED
  BY <1>2, <1>3, <1>4, <1>5, <1>6, <1>7, <1>8, <1>9 DEF BrokerBroadcasts, Streams

LEMMA TurnStep ==
  ASSUME SessionTypeOK, FreshConns, SavesInTurn, [SessionNext]_sessionVars
  PROVE  SavesInTurn'
<1> SUFFICES ASSUME ~collided' PROVE SavesInTurn'
  BY DEF SavesInTurn
<1>1. OneSave' /\ ~collided
  BY SavesStep
<1> SUFFICES ASSUME Quiet'
             PROVE  panel' = layoutFile' /\ (~layoutLost' => LayoutComes')
  BY <1>1 DEF SavesInTurn, Quiet
<1>2. Quiet => panel = layoutFile /\ (~layoutLost => LayoutComes)
  BY <1>1 DEF SavesInTurn, Quiet
<1>3. CASE UNCHANGED <<saveVars, layoutVars>>
  BY <1>2, <1>3 DEF saveVars, layoutVars, Quiet, LayoutComes, PageAgrees
<1>4. CASE UNCHANGED saveVars /\ (Announces \/ BrokerBroadcasts \/ Streams \/ Closes)
  <2>1. Quiet /\ panel' = layoutFile'
    BY <1>2, <1>4 DEF saveVars, Quiet
  <2> QED  BY <1>2, <1>4, <2>1, PageLayoutStep DEF Quiet
<1>5. ASSUME NEW k \in Consoles, OpensLayout(k) \/ WritesLayout(k) \/ UpdatesPanel(k)
      PROVE  FALSE
  <2>1. saving'[k] # NotSaving
    <3>1. CASE OpensLayout(k)
      <4>1. PICK content \in Contents :
               saving' = [saving EXCEPT ![k] = [step |-> "opened", content |-> content]]
        BY <3>1 DEF OpensLayout
      <4> QED  BY <4>1 DEF SessionTypeOK, ServerTypeOK, SaveTypeOK, NotSaving
    <3>2. CASE WritesLayout(k) \/ UpdatesPanel(k)
      <4>1. saving[k] \in Records /\ saving \in [Consoles -> Saving]
        BY <3>2, SaveRecord
        DEF WritesLayout, UpdatesPanel, SessionTypeOK, ServerTypeOK, SaveTypeOK
      <4>2. saving'[k].step \in {"written", "updated"}
        BY <3>2, <4>1 DEF WritesLayout, UpdatesPanel, Records
      <4> QED  BY <4>2 DEF NotSaving
    <3> QED  BY <1>5, <3>1, <3>2
  <2> QED  BY <2>1 DEF Quiet
<1>7. CASE \E k \in Consoles : WriteFails(k)
  BY <1>7 DEF WriteFails, Quiet
<1>6. CASE \E k \in Consoles : BroadcastsLayout(k)
  <2>1. PICK k \in Consoles : BroadcastsLayout(k)
    BY <1>6
  <2>2. OneSave /\ saving[k] \in Saving /\ saving[k] # NotSaving
    BY <1>1, <2>1 DEF SavesInTurn, BroadcastsLayout, NotSaving, SessionTypeOK, ServerTypeOK,
                      SaveTypeOK
  <2>3. saving[k].content = layoutFile /\ panel \in {layoutFile, Unknown}
    BY <2>1, <2>2 DEF BroadcastsLayout, OneSave
  <2>4. UNCHANGED <<panel, layoutFile>> /\ panel # Unknown
    BY <2>1 DEF BroadcastsLayout, Quiet
  <2>5. ASSUME ~layoutLost' PROVE LayoutComes'
    <3> DEFINE msg == PidLayout(layoutFile)
    <3>1. rawIn \in Seq(Messages) /\ RawCap \in Nat /\ msg \in Messages
      BY RawAreMessages, FeedAssumption
      DEF SessionTypeOK, ServerTypeOK, SaveTypeOK, PidLayout, RawMessages, Messages
    <3>2. msg.kind = "pid_layout" /\ msg.content = layoutFile
      BY DEF PidLayout
    <3>3. /\ rawIn' = IF Len(rawIn) < RawCap THEN Append(rawIn, msg) ELSE rawIn
          /\ layoutLost' = (layoutLost \/ Len(rawIn) = RawCap)
      BY <2>1, <2>3 DEF BroadcastsLayout, Publish
    <3> HIDE DEF msg
    <3>4. Len(rawIn) < RawCap
      <4>1. Len(rawIn) # RawCap
        BY <2>5, <3>3, Zenon
      <4>2. Len(rawIn) <= RawCap
        BY DEF SessionTypeOK, WithinCaps
      <4>3. Len(rawIn) \in Nat
        BY <3>1
      <4> QED  BY <3>1, <4>1, <4>2, <4>3
    <3>5. /\ rawIn' \in Seq(Messages) /\ rawIn' # <<>> /\ rawIn'[Len(rawIn')] = msg
      BY <3>1, <3>3, <3>4
    <3>6. LayoutsIn(rawIn') # {} /\ LastLayout(rawIn', layoutFile)
      BY <3>2, <3>5, LayoutLast
    <3> QED  BY <2>4, <3>6 DEF LayoutComes
  <2> QED  BY <2>3, <2>4, <2>5
<1> QED  BY <1>3, <1>4, <1>5, <1>6, <1>7, LayoutSteps DEF Saves

LEMMA TurnSuffices == SavesInTurn => LayoutsAgree
<1> SUFFICES ASSUME SavesInTurn, ~collided, Quiet
             PROVE  /\ panel = layoutFile
                    /\ Caught /\ rawIn = <<>> /\ ~layoutLost => PageAgrees
  BY DEF LayoutsAgree
<1>1. panel = layoutFile /\ (~layoutLost => LayoutComes)
  BY DEF SavesInTurn
<1>2. LayoutsIn(<<>>) = {}
  BY DEF LayoutsIn
<1> QED  BY <1>1, <1>2 DEF LayoutComes, Caught

LEMMA FreshInit == SessionInit => FreshConns
BY SessionAssumption DEF SessionInit, FeedInit, FreshConns, UnheardOf

(* With no save and nothing under way, the file, what a new connection is  *)
(* sent and what an open page shows are one layout, once the panel was     *)
(* loaded, the last write succeeded and no two saves have overlapped: for  *)
(* every number of consoles and connections, wherever a connection came up *)
(* between the steps of a save, and whatever failed writes came before.    *)
THEOREM LayoutsSettle == SessionSpec => []LayoutsAgree
<1>1. SessionInit => SavesInTurn
  <2> SUFFICES ASSUME SessionInit PROVE SavesInTurn
    OBVIOUS
  <2>1. OneSave /\ (Quiet => panel = layoutFile)
    BY DEF SessionInit, OneSave, Quiet
  <2>2. LayoutComes
    BY DEF SessionInit, FeedInit, LayoutComes, LastLayout, LayoutsIn
  <2> QED  BY <2>1, <2>2 DEF SavesInTurn
<1>2. /\ SessionTypeOK /\ FreshConns /\ SavesInTurn /\ [SessionNext]_sessionVars
      => FreshConns' /\ SavesInTurn'
  BY FreshStep, TurnStep
<1> QED  BY <1>1, <1>2, FreshInit, TurnSuffices, SessionTypeCorrect, PTL DEF SessionSpec

-----------------------------------------------------------------------------
(* Channels out of bounds.  What a message does to one channel's status.   *)

LEMMA TailStatuses ==
  ASSUME NEW s \in Seq(Messages), s # <<>>, NEW c, NEW status, LastStatus(s, c, status)
  PROVE  /\ LastStatus(Tail(s), c, status)
         /\ StatusesIn(Tail(s), c) = {} =>
              IF Head(s).kind = "bad_data" /\ Head(s).refDes = c THEN Head(s).status = status
              ELSE StatusesIn(s, c) = {}
<1>1. /\ 1 \in DOMAIN s /\ Head(s) = s[1] /\ DOMAIN s \subseteq Nat
      /\ \A i \in DOMAIN Tail(s) : i \in Nat /\ i + 1 \in DOMAIN s /\ Tail(s)[i] = s[i + 1]
      /\ \A i \in DOMAIN s : i = 1 \/ (i - 1 \in DOMAIN Tail(s) /\ s[i] = Tail(s)[i - 1])
  BY TailMessages
<1>2. ASSUME NEW i \in StatusesIn(Tail(s), c), \A j \in StatusesIn(Tail(s), c) : j <= i
      PROVE  Tail(s)[i].status = status
  <2>1. i + 1 \in StatusesIn(s, c) /\ i \in Nat
    BY <1>1 DEF StatusesIn
  <2>2. ASSUME NEW j \in StatusesIn(s, c) PROVE j <= i + 1
    <3>1. CASE j = 1
      BY <2>1, <3>1
    <3>2. CASE j # 1
      <4>1. j - 1 \in StatusesIn(Tail(s), c) /\ j \in Nat
        BY <1>1, <3>2 DEF StatusesIn
      <4> QED  BY <1>2, <2>1, <4>1
    <3> QED  BY <3>1, <3>2
  <2>3. s[i + 1].status = status
    BY <2>1, <2>2 DEF LastStatus
  <2> QED  BY <1>1, <2>3 DEF StatusesIn
<1>3. ASSUME StatusesIn(Tail(s), c) = {}, Head(s).kind = "bad_data", Head(s).refDes = c
      PROVE  Head(s).status = status
  <2>1. ASSUME NEW j \in StatusesIn(s, c), j # 1 PROVE FALSE
    <3>1. j - 1 \in StatusesIn(Tail(s), c)
      BY <1>1, <2>1 DEF StatusesIn
    <3> QED  BY <1>3, <3>1
  <2>2. 1 \in StatusesIn(s, c)
    BY <1>1, <1>3 DEF StatusesIn
  <2>3. \A j \in StatusesIn(s, c) : j <= 1
    BY <2>1
  <2> QED  BY <1>1, <2>2, <2>3 DEF LastStatus
<1>4. ASSUME StatusesIn(Tail(s), c) = {}, ~(Head(s).kind = "bad_data" /\ Head(s).refDes = c)
      PROVE  StatusesIn(s, c) = {}
  <2>1. ASSUME NEW j \in StatusesIn(s, c) PROVE FALSE
    <3>1. j # 1
      BY <1>1, <1>4 DEF StatusesIn
    <3>2. j - 1 \in StatusesIn(Tail(s), c)
      BY <1>1, <3>1 DEF StatusesIn
    <3> QED  BY <1>4, <3>2
  <2> QED  BY <2>1
<1> QED  BY <1>2, <1>3, <1>4 DEF LastStatus

About(msg, c) == msg.kind = "bad_data" /\ msg.refDes = c

LEMMA MoreNotAbout ==
  ASSUME NEW new, NEW old \in Seq(Messages), NEW msgs \in Seq(Messages), Extends(new, old, msgs),
         NEW c, \A i \in DOMAIN msgs : ~About(msgs[i], c)
  PROVE  /\ StatusesIn(new, c) = StatusesIn(old, c)
         /\ \A status : LastStatus(old, c, status) => LastStatus(new, c, status)
<1>1. /\ new \in Seq(Messages) /\ Len(old) <= Len(new) /\ Len(new) - Len(old) <= Len(msgs)
      /\ \A i \in 1 .. Len(old) : new[i] = old[i]
      /\ \A i \in Len(old) + 1 .. Len(new) : new[i] = msgs[i - Len(old)]
      /\ DOMAIN new = 1 .. Len(new) /\ DOMAIN old = 1 .. Len(old) /\ DOMAIN msgs = 1 .. Len(msgs)
      /\ Len(new) \in Nat /\ Len(old) \in Nat /\ Len(msgs) \in Nat
  BY DEF Extends
<1>2. ASSUME NEW i \in DOMAIN new, i \notin DOMAIN old PROVE ~About(new[i], c)
  <2>1. i \in Len(old) + 1 .. Len(new) /\ i - Len(old) \in DOMAIN msgs
    BY <1>1, <1>2
  <2> QED  BY <1>1, <2>1
<1>3. DOMAIN old \subseteq DOMAIN new
  BY <1>1
<1>4. StatusesIn(new, c) = StatusesIn(old, c)
  BY <1>1, <1>2, <1>3 DEF StatusesIn, About
<1>5. \A i \in StatusesIn(old, c) : new[i] = old[i]
  BY <1>1 DEF StatusesIn
<1> QED  BY <1>4, <1>5 DEF LastStatus

LEMMA MoreUnread ==
  ASSUME NEW new, NEW old \in Seq(Messages), NEW msgs, Extends(new, old, msgs),
         NEW i \in DOMAIN old
  PROVE  i \in DOMAIN new /\ new[i] = old[i]
<1>1. /\ new \in Seq(Messages) /\ Len(old) <= Len(new)
      /\ \A j \in 1 .. Len(old) : new[j] = old[j]
  BY DEF Extends
<1>2. /\ DOMAIN new = 1 .. Len(new) /\ DOMAIN old = 1 .. Len(old)
      /\ Len(new) \in Nat /\ Len(old) \in Nat
  BY <1>1
<1> QED  BY <1>1, <1>2

(* One message about the channel among those that were all taken: it is    *)
(* the last word about it.                                                 *)
LEMMA OneAbout ==
  ASSUME NEW new, NEW old \in Seq(Messages), NEW msgs \in Seq(Messages), Extends(new, old, msgs),
         Len(new) = Len(old) + Len(msgs),
         NEW c, NEW k \in DOMAIN msgs, About(msgs[k], c),
         \A i \in DOMAIN msgs : About(msgs[i], c) => i = k
  PROVE  /\ StatusesIn(new, c) # {} /\ LastStatus(new, c, msgs[k].status)
         /\ \E i \in DOMAIN new : new[i].kind = "bad_data"
<1> DEFINE last == Len(old) + k
<1>1. /\ new \in Seq(Messages) /\ DOMAIN new = 1 .. Len(new)
      /\ \A i \in Len(old) + 1 .. Len(new) : new[i] = msgs[i - Len(old)]
      /\ DOMAIN msgs = 1 .. Len(msgs)
      /\ Len(new) \in Nat /\ Len(old) \in Nat /\ Len(msgs) \in Nat
  BY DEF Extends
<1>2. last \in Len(old) + 1 .. Len(new) /\ last \in DOMAIN new /\ last - Len(old) = k
  BY <1>1
<1>3. new[last] = msgs[k]
  BY <1>1, <1>2
<1>4. last \in StatusesIn(new, c)
  BY <1>2, <1>3 DEF StatusesIn, About
<1>5. ASSUME NEW i \in StatusesIn(new, c) PROVE i <= last
  <2>1. i \in 1 .. Len(new) /\ About(new[i], c)
    BY <1>1 DEF StatusesIn, About
  <2>2. CASE i > Len(old)
    <3>1. i \in Len(old) + 1 .. Len(new) /\ i - Len(old) \in DOMAIN msgs
      BY <1>1, <2>1, <2>2
    <3>2. i - Len(old) = k
      BY <1>1, <2>1, <3>1
    <3> QED  BY <1>1, <2>1, <3>2
  <2> QED  BY <1>1, <1>2, <2>1, <2>2
<1>6. ASSUME NEW i \in StatusesIn(new, c), \A j \in StatusesIn(new, c) : j <= i
      PROVE  i = last
  <2>1. i \in Nat /\ last \in Nat
    BY <1>1, <1>2 DEF StatusesIn
  <2> QED  BY <1>4, <1>5, <1>6, <2>1
<1> HIDE DEF last
<1> QED  BY <1>2, <1>3, <1>4, <1>6 DEF LastStatus, About

Of(view, c) == IF c \in DOMAIN view THEN view[c] ELSE "ok"

LEMMA ViewsEqual ==
  ASSUME NEW f \in Views, NEW g \in Views, \A c \in Checked : Of(f, c) = Of(g, c)
  PROVE  f = g
<1>1. /\ f = [c \in DOMAIN f |-> f[c]] /\ g = [c \in DOMAIN g |-> g[c]]
      /\ DOMAIN f \subseteq Checked /\ DOMAIN g \subseteq Checked
      /\ \A c \in DOMAIN f : f[c] # "ok"
      /\ \A c \in DOMAIN g : g[c] # "ok"
  BY ViewMember
<1>2. DOMAIN f = DOMAIN g
  BY <1>1 DEF Of
<1>3. \A c \in DOMAIN f : f[c] = g[c]
  BY <1>1, <1>2 DEF Of
<1> QED  BY <1>1, <1>2, <1>3

(* The broker's view after a value is what that value says of the channels *)
(* it names.                                                               *)
LEMMA StatusMoves ==
  ASSUME FeedTypeOK, HandleValues, NEW c \in Checked
  PROVE  Of(bad', c) = StatusAfter(c, Head(dataIn))
BY DEF HandleValues, Of

(* The messages of a value handled: one about each channel whose status it *)
(* changes, and none about another.                                        *)
LEMMA WarnsAbout ==
  ASSUME FeedTypeOK, HandleValues
  PROVE  \E msgs \in Seq(Messages) :
           /\ FannedOut(msgs) /\ Len(msgs) = Cardinality(Transitions(Head(dataIn)))
           /\ \A c \in Checked \ Transitions(Head(dataIn)), i \in DOMAIN msgs : ~About(msgs[i], c)
           /\ \A c \in Transitions(Head(dataIn)) :
                \E k \in DOMAIN msgs :
                  /\ About(msgs[k], c) /\ msgs[k].status = StatusAfter(c, Head(dataIn))
                  /\ \A i \in DOMAIN msgs : About(msgs[i], c) => i = k
<1> DEFINE event == Head(dataIn)
           T == Transitions(event)
<1>1. event \in Frames
  BY DEF HandleValues, HandleData, FeedTypeOK
<1>2. PICK turn \in [1 .. Cardinality(T) -> T] :
             IsInjective(turn) /\ FannedOut(Warns(turn, event))
  BY DEF HandleValues, Warns
<1> DEFINE msgs == Warns(turn, event)
<1>3. /\ msgs \in Seq(Messages) /\ Len(msgs) = Cardinality(T)
      /\ \A c \in T : \E i \in DOMAIN turn : turn[i] = c
  BY <1>1, <1>2, WarnsType
<1>4. /\ DOMAIN msgs = DOMAIN turn
      /\ \A i \in DOMAIN msgs : /\ msgs[i].kind = "bad_data" /\ msgs[i].refDes = turn[i]
                                /\ msgs[i].status = StatusAfter(turn[i], event)
  BY DEF Warns, BadData
<1> HIDE DEF msgs
<1>5. \A i \in DOMAIN msgs : turn[i] \in T
  BY <1>4
<1>6. \A c \in Checked \ T, i \in DOMAIN msgs : ~About(msgs[i], c)
  BY <1>4, <1>5 DEF About
<1>7. ASSUME NEW c \in T
      PROVE  \E k \in DOMAIN msgs :
                  /\ About(msgs[k], c) /\ msgs[k].status = StatusAfter(c, event)
                  /\ \A i \in DOMAIN msgs : About(msgs[i], c) => i = k
  <2>1. PICK k \in DOMAIN turn : turn[k] = c
    BY <1>3
  <2>2. \A i \in DOMAIN msgs : About(msgs[i], c) => i = k
    BY <1>2, <1>4, <2>1 DEF About, IsInjective
  <2>3. k \in DOMAIN msgs /\ About(msgs[k], c) /\ msgs[k].status = StatusAfter(c, event)
    BY <1>4, <2>1 DEF About
  <2> QED  BY <2>2, <2>3
<1>8. FannedOut(msgs)
  BY <1>2 DEF msgs
<1> QED  BY <1>3, <1>6, <1>7, <1>8

LEMMA ValuesStatusStep ==
  ASSUME SessionTypeOK, StatusesCome, HandlesValues, ~badLost'
  PROVE  StatusesCome'
<1> DEFINE event == Head(dataIn)
           T == Transitions(event)
<1>1. /\ FeedTypeOK /\ PageTypeOK /\ HandleValues /\ UNCHANGED <<at, conn, shownBad>>
      /\ event \in Frames
  <2>1. FeedTypeOK /\ PageTypeOK
    BY DEF SessionTypeOK, ServerTypeOK
  <2>2. HandleValues /\ UNCHANGED <<at, conn, shownBad>>
    BY DEF HandlesValues, besideBroker, browserVars
  <2>3. event \in Frames
    BY <2>1, <2>2 DEF HandleValues, HandleData, FeedTypeOK
  <2> QED  BY <2>1, <2>2, <2>3
<1>2. /\ ~badLost
      /\ T # {} => ~Unnoticed
  <2>1. badLost' = (badLost \/ (Unnoticed /\ T # {}))
    BY DEF HandlesValues
  <2> QED  BY <2>1, Zenon
<1>3. ASSUME NEW c \in Checked
      PROVE  /\ StatusNow(c) = Of(bad, c) /\ Shown(c) = Of(shownBad, c)
             /\ Of(bad', c) = StatusAfter(c, event)
             /\ c \notin T => Of(bad', c) = Of(bad, c)
  <2>1. Of(bad', c) = StatusAfter(c, event)
    BY <1>1, StatusMoves
  <2>2. StatusNow(c) = Of(bad, c) /\ Shown(c) = Of(shownBad, c)
    BY DEF Of, StatusNow, Shown
  <2> QED  BY <2>1, <2>2 DEF Transitions
<1>4. bad \in Views /\ bad' \in Views
  BY <1>1, HandleValuesType DEF FeedTypeOK
<1>5. T = {} => bad' = bad
  BY <1>3, <1>4, ViewsEqual
<1>6. CASE at \in {"closed", "panels", "subscribe"}
  <2>1. T # {} => shownBad = <<>>
    BY <1>2, <1>6 DEF Unnoticed
  <2>2. NothingFalse'
    BY <1>1, <1>2, <1>5, <1>6, <2>1 DEF StatusesCome, NothingFalse
  <2> QED  BY <1>1, <1>6, <2>2 DEF StatusesCome
<1>7. CASE at \in {"snapshot", "stream"}
  <2>1. conn \in Conns /\ wire[conn] \in Seq(Messages)
    BY <1>1, <1>7 DEF PageTypeOK, FeedTypeOK
  <2>2. PICK msgs \in Seq(Messages) :
           /\ FannedOut(msgs) /\ Len(msgs) = Cardinality(T)
           /\ \A c \in Checked \ T, i \in DOMAIN msgs : ~About(msgs[i], c)
           /\ \A c \in T : \E k \in DOMAIN msgs :
                /\ About(msgs[k], c) /\ msgs[k].status = StatusAfter(c, event)
                /\ \A i \in DOMAIN msgs : About(msgs[i], c) => i = k
    BY <1>1, WarnsAbout
  <2>3. T # {} => /\ conn \in subscribers /\ Extends(wire'[conn], wire[conn], msgs)
                  /\ Len(wire'[conn]) = Len(wire[conn]) + Len(msgs)
    <3> SUFFICES ASSUME T # {} PROVE /\ conn \in subscribers
                                     /\ Extends(wire'[conn], wire[conn], msgs)
                                     /\ Len(wire'[conn]) = Len(wire[conn]) + Len(msgs)
      OBVIOUS
    <3>1. ~Unheard(Cardinality(T))
      BY <1>2, <1>7 DEF Unnoticed
    <3>2. Room(conn) \in Int /\ Len(msgs) \in Nat
      BY <2>1, FeedAssumption DEF Room
    <3>3. conn \in subscribers /\ Room(conn) >= Len(msgs)
      BY <2>2, <3>1, <3>2 DEF Unheard
    <3> QED  BY <1>1, <2>1, <2>2, <3>3, FannedOutType DEF FeedTypeOK
  <2>4. wire'[conn] = wire[conn] \/ Extends(wire'[conn], wire[conn], msgs)
    BY <1>1, <2>1, <2>2, FannedOutType DEF FeedTypeOK
  <2>5. ASSUME NEW c \in Checked \ T, NEW before, StatusComes(c, before)
        PROVE  StatusComes(c, before)'
    <3>1. /\ StatusesIn(wire'[conn], c) = StatusesIn(wire[conn], c)
          /\ LastStatus(wire[conn], c, StatusNow(c)) => LastStatus(wire'[conn], c, StatusNow(c))
      <4>1. \A i \in DOMAIN msgs : ~About(msgs[i], c)
        BY <2>2
      <4> HIDE DEF T, event
      <4>2. CASE Extends(wire'[conn], wire[conn], msgs)
        BY <2>1, <4>1, <4>2, MoreNotAbout
      <4> QED  BY <2>4, <4>2
    <3>2. StatusNow(c)' = StatusNow(c) /\ Shown(c)' = Shown(c)
      BY <1>1, <1>3 DEF Of, StatusNow, Shown
    <3> QED  BY <1>1, <2>5, <3>1, <3>2 DEF StatusComes
  <2>6. ASSUME NEW c \in T, NEW before
        PROVE  /\ StatusComes(c, before)' /\ BadDataUnread'
    <3>1. c \in Checked
      BY DEF Transitions
    <3>2. PICK k \in DOMAIN msgs :
                /\ About(msgs[k], c) /\ msgs[k].status = StatusAfter(c, event)
                /\ \A i \in DOMAIN msgs : About(msgs[i], c) => i = k
      BY <2>2
    <3>3. /\ StatusesIn(wire'[conn], c) # {}
          /\ LastStatus(wire'[conn], c, msgs[k].status)
          /\ \E i \in DOMAIN wire'[conn] : wire'[conn][i].kind = "bad_data"
      <4> HIDE DEF T, event
      <4> QED  BY <2>1, <2>3, <3>2, OneAbout
    <3>4. StatusNow(c)' = msgs[k].status
      BY <1>3, <3>1, <3>2 DEF Of, StatusNow
    <3> QED  BY <1>1, <3>3, <3>4 DEF StatusComes, BadDataUnread
  <2>7. CASE at = "snapshot"
    <3>1. \A c \in Checked : StatusComes(c, {"ok"})'
      BY <1>2, <2>5, <2>6, <2>7 DEF StatusesCome
    <3>2. BadDataUnread' \/ NothingFalse'
      <4>1. CASE T # {}
        BY <2>6, <4>1
      <4>2. CASE T = {}
        <5>1. BadDataUnread => BadDataUnread'
          BY <1>1, <2>1, <2>4, MoreUnread DEF BadDataUnread
        <5>2. NothingFalse => NothingFalse'
          BY <1>1, <1>5, <4>2 DEF NothingFalse
        <5> QED  BY <1>2, <2>7, <5>1, <5>2 DEF StatusesCome
      <4> QED  BY <4>1, <4>2
    <3> QED  BY <1>1, <2>7, <3>1, <3>2 DEF StatusesCome
  <2>8. CASE at = "stream"
    <3>1. \A c \in Checked : StatusComes(c, {})'
      BY <1>2, <2>5, <2>6, <2>8 DEF StatusesCome
    <3> QED  BY <1>1, <2>8, <3>1 DEF StatusesCome
  <2> QED  BY <1>7, <2>7, <2>8
<1> QED  BY <1>1, <1>6, <1>7 DEF PageTypeOK

LEMMA OthersFanOut ==
  ASSUME FeedTypeOK, HandleRaw \/ Tick
  PROVE  \E msgs \in Seq(Messages) :
           FannedOut(msgs) /\ \A i \in DOMAIN msgs : msgs[i].kind # "bad_data"
<1>1. CASE Tick
  <2> DEFINE msgs == <<Data(frame)>>
  <2>1. Data(frame) \in Messages /\ Data(frame).kind # "bad_data"
    BY DEF FeedTypeOK, Data, Messages
  <2>2. msgs \in Seq(Messages) /\ \A i \in DOMAIN msgs : msgs[i].kind # "bad_data"
    BY <2>1
  <2>3. FannedOut(msgs)
    BY <1>1 DEF Tick
  <2> QED  BY <2>2, <2>3
<1>2. CASE HandleRaw
  <2> DEFINE msgs == <<Head(rawIn)>>
  <2>1. Head(rawIn) \in RawMessages
    BY <1>2 DEF HandleRaw, FeedTypeOK
  <2>2. Head(rawIn) \in Messages /\ Head(rawIn).kind # "bad_data"
    BY <2>1 DEF RawMessages, Messages
  <2>3. msgs \in Seq(Messages) /\ \A i \in DOMAIN msgs : msgs[i].kind # "bad_data"
    BY <2>2
  <2>4. FannedOut(msgs)
    BY <1>2 DEF HandleRaw
  <2> QED  BY <2>3, <2>4
<1> QED  BY <1>1, <1>2

LEMMA StatusesStep ==
  ASSUME SessionTypeOK, FreshConns, StatusesCome, [SessionNext]_sessionVars
  PROVE  StatusesCome'
<1> SUFFICES ASSUME ~badLost' PROVE StatusesCome'
  BY DEF StatusesCome
<1>1. FeedTypeOK /\ PageTypeOK
  BY DEF SessionTypeOK, ServerTypeOK
<1>2. bad \in Views /\ shownBad \in Views
  BY <1>1 DEF FeedTypeOK, PageTypeOK
<1>3. at # "closed" => conn \in Conns /\ wire[conn] \in Seq(Messages)
  BY <1>1 DEF PageTypeOK, FeedTypeOK
<1>4. CASE UNCHANGED connVars
  BY <1>4 DEF connVars, StatusesCome, NothingFalse, BadDataUnread, StatusComes, StatusNow, Shown
<1>5. CASE HandlesValues
  BY <1>5, ValuesStatusStep
<1>6. CASE HandlesRaw \/ Ticks
  <2>1. /\ ~badLost /\ UNCHANGED <<at, conn, bad, shownBad>> /\ (HandleRaw \/ Tick)
    BY <1>6 DEF HandlesRaw, HandleRaw, Ticks, Tick, besideBroker, browserVars, lossVars
  <2>2. PICK msgs \in Seq(Messages) :
           FannedOut(msgs) /\ \A i \in DOMAIN msgs : msgs[i].kind # "bad_data"
    BY <1>1, <2>1, OthersFanOut
  <2>3. CASE at \in {"closed", "panels", "subscribe"}
    BY <2>1, <2>3 DEF StatusesCome, NothingFalse
  <2>4. CASE at \in {"snapshot", "stream"}
    <3>1. conn \in Conns /\ wire[conn] \in Seq(Messages)
      BY <1>3, <2>4
    <3>2. wire'[conn] = wire[conn] \/ Extends(wire'[conn], wire[conn], msgs)
      BY <1>1, <2>2, <3>1, FannedOutType DEF FeedTypeOK
    <3>3. ASSUME NEW c
          PROVE  /\ StatusesIn(wire'[conn], c) = StatusesIn(wire[conn], c)
                 /\ \A status : LastStatus(wire[conn], c, status)
                                  => LastStatus(wire'[conn], c, status)
      <4>1. \A i \in DOMAIN msgs : ~About(msgs[i], c)
        BY <2>2 DEF About
      <4> QED  BY <2>2, <3>1, <3>2, <4>1, MoreNotAbout
    <3>4. ASSUME NEW c, NEW before, StatusComes(c, before)
          PROVE  StatusComes(c, before)'
      BY <2>1, <3>3, <3>4 DEF StatusComes, StatusNow, Shown
    <3>5. BadDataUnread => BadDataUnread'
      BY <2>1, <3>1, <3>2, MoreUnread DEF BadDataUnread
    <3>6. NothingFalse => NothingFalse'
      BY <2>1 DEF NothingFalse
    <3> QED  BY <2>1, <2>4, <3>4, <3>5, <3>6 DEF StatusesCome
  <2> QED  BY <1>1, <2>3, <2>4 DEF PageTypeOK
<1>7. CASE HandlesSubscription
  BY <1>7 DEF HandlesSubscription, HandleSubscription, besideBroker, browserVars, lossVars,
              StatusesCome, NothingFalse, BadDataUnread, StatusComes, StatusNow, Shown
<1>8. CASE Connects
  <2>1. at = "closed" /\ at' = "panels" /\ UNCHANGED bad
    BY <1>8 DEF Connects, feedVars
  <2>2. \/ ~badLost /\ UNCHANGED shownBad
        \/ shownBad' = <<>>
    BY <1>8 DEF Connects, browserVars, lossVars
  <2>3. NothingFalse'
    BY <2>1, <2>2 DEF StatusesCome, NothingFalse
  <2> QED  BY <2>1, <2>3 DEF StatusesCome
<1>9. CASE SendsPanels
  <2>1. /\ at = "panels" /\ at' = "subscribe" /\ ~badLost /\ UNCHANGED <<bad, shownBad>>
    BY <1>9 DEF SendsPanels, feedVars
  <2> QED  BY <2>1 DEF StatusesCome, NothingFalse
<1>10. CASE Subscribes
  <2>1. /\ at = "subscribe" /\ at' = "snapshot" /\ ~badLost
        /\ UNCHANGED <<bad, shownBad, wire, conn>>
    BY <1>10 DEF Subscribes, Subscription, browserVars, lossVars
  <2>2. NothingFalse
    BY <2>1 DEF StatusesCome
  <2>3. wire[conn] = <<>>
    BY <1>3, <2>1 DEF FreshConns, UnheardOf
  <2>4. ASSUME NEW c \in Checked PROVE StatusComes(c, {"ok"})'
    <3>1. StatusesIn(<<>>, c) = {}
      BY DEF StatusesIn
    <3>2. Shown(c) \in {"ok", StatusNow(c)}
      BY <2>2 DEF NothingFalse, Shown, StatusNow
    <3>3. LastStatus(<<>>, c, StatusNow(c))
      BY <3>1 DEF LastStatus
    <3> QED  BY <2>1, <2>3, <3>1, <3>2, <3>3 DEF StatusComes, StatusNow, Shown
  <2> QED  BY <2>1, <2>2, <2>4 DEF StatusesCome, NothingFalse
<1>11. CASE SendsBadSnapshot
  <2>1. /\ at = "snapshot" /\ at' = "stream" /\ ~badLost /\ UNCHANGED <<bad, wire, conn>>
        /\ shownBad' = Over(bad, shownBad)
    BY <1>11 DEF SendsBadSnapshot, feedVars, lossVars
  <2>2. ASSUME NEW c \in Checked PROVE StatusComes(c, {})'
    <3>1. StatusComes(c, {"ok"})
      BY <2>1 DEF StatusesCome
    <3>2. Shown(c)' = IF c \in DOMAIN bad THEN bad[c] ELSE Shown(c)
      BY <2>1 DEF Shown, Over
    <3>3. Shown(c) \in {"ok", StatusNow(c)} => Shown(c)' = StatusNow(c)
      BY <3>2 DEF StatusNow
    <3> QED  BY <2>1, <3>1, <3>3 DEF StatusComes, StatusNow
  <2> QED  BY <2>1, <2>2 DEF StatusesCome
<1>12. CASE onDataMessage
  <2> DEFINE msg == Head(wire[conn])
  <2>1. /\ at = "stream" /\ ~badLost /\ conn \in Conns /\ wire[conn] \in Seq(Messages)
        /\ wire[conn] # <<>> /\ wire'[conn] = Tail(wire[conn])
        /\ UNCHANGED <<at, conn, bad>>
    BY <1>1, <1>12 DEF onDataMessage, Received, lossVars, PageTypeOK, FeedTypeOK
  <2>2. shownBad' = IF msg.kind = "bad_data" THEN handleBadData(msg) ELSE shownBad
    BY <1>12 DEF onDataMessage
  <2>3. ASSUME NEW c \in Checked PROVE StatusComes(c, {})'
    <3>1. StatusComes(c, {})
      BY <2>1 DEF StatusesCome
    <3>2. /\ LastStatus(Tail(wire[conn]), c, StatusNow(c))
          /\ StatusesIn(Tail(wire[conn]), c) = {} =>
               IF msg.kind = "bad_data" /\ msg.refDes = c THEN msg.status = StatusNow(c)
               ELSE StatusesIn(wire[conn], c) = {}
      BY <2>1, <3>1, TailStatuses DEF StatusComes
    <3>3. Shown(c)' = IF msg.kind = "bad_data" /\ msg.refDes = c THEN msg.status ELSE Shown(c)
      <4>1. CASE msg.kind = "bad_data"
        <5> HIDE DEF msg
        <5>1. CASE msg.status = "ok"
          BY <2>2, <4>1, <5>1 DEF handleBadData, Shown
        <5>2. CASE msg.status # "ok"
          BY <2>2, <4>1, <5>2 DEF handleBadData, Shown, Over, Only
        <5> QED  BY <5>1, <5>2
      <4> QED  BY <2>2, <4>1 DEF Shown
    <3>4. StatusesIn(wire[conn], c) = {} => Shown(c) = StatusNow(c)
      BY <3>1 DEF StatusComes
    <3>5. StatusNow(c)' = StatusNow(c)
      BY <2>1 DEF StatusNow
    <3> QED  BY <2>1, <3>2, <3>3, <3>4, <3>5 DEF StatusComes
  <2> QED  BY <2>1, <2>3 DEF StatusesCome
<1>13. CASE Closes
  <2>1. /\ at # "closed" /\ at' = "closed" /\ UNCHANGED <<bad, shownBad>>
        /\ badLost' = (badLost \/ (shownBad # <<>> /\ BadDataUnread))
    BY <1>13 DEF Closes, Subscription, feedVars, browserVars
  <2>2. ~badLost /\ (shownBad = <<>> \/ ~BadDataUnread)
    BY <2>1, Zenon
  <2>3. CASE shownBad = <<>>
    BY <2>1, <2>3 DEF StatusesCome, NothingFalse
  <2>4. CASE at = "stream" /\ ~BadDataUnread
    <3>1. ASSUME NEW c \in Checked PROVE Of(shownBad, c) = Of(bad, c)
      <4>1. StatusesIn(wire[conn], c) = {}
        BY <2>4 DEF BadDataUnread, StatusesIn
      <4> QED  BY <2>2, <2>4, <4>1 DEF StatusesCome, StatusComes, Shown, StatusNow, Of
    <3>2. shownBad = bad
      BY <1>2, <3>1, ViewsEqual
    <3> QED  BY <2>1, <3>2 DEF StatusesCome, NothingFalse
  <2>5. CASE at \in {"panels", "subscribe"} \/ (at = "snapshot" /\ ~BadDataUnread)
    BY <2>1, <2>2, <2>5 DEF StatusesCome, NothingFalse
  <2> QED  BY <1>1, <2>1, <2>2, <2>3, <2>4, <2>5 DEF PageTypeOK
<1> QED
  BY <1>4, <1>5, <1>6, <1>7, <1>8, <1>9, <1>10, <1>11, <1>12, <1>13, ConnSteps
  DEF BrokerBroadcasts, Streams

LEMMA StatusesSuffice == SessionTypeOK /\ StatusesCome => BadViewAgrees
<1> SUFFICES ASSUME SessionTypeOK, StatusesCome, Caught, ~badLost PROVE shownBad = bad
  BY DEF BadViewAgrees
<1>1. ASSUME NEW c \in Checked PROVE Of(shownBad, c) = Of(bad, c)
  <2>1. StatusesIn(<<>>, c) = {}
    BY DEF StatusesIn
  <2> QED  BY <2>1 DEF Caught, StatusesCome, StatusComes, Shown, StatusNow, Of
<1> QED  BY <1>1, ViewsEqual DEF SessionTypeOK, FeedTypeOK, ServerTypeOK, PageTypeOK

(* A page with nothing on its way to it shows the very channels that are   *)
(* out of bounds, for every number of channels and of transitions in one   *)
(* value, in every order of snapshot, subscription and transitions but the *)
(* three that lose one.                                                    *)
THEOREM BadViewSettles == SessionSpec => []BadViewAgrees
<1>1. SessionInit => StatusesCome
  BY DEF SessionInit, StatusesCome, NothingFalse
<1>2. /\ SessionTypeOK /\ FreshConns /\ StatusesCome /\ [SessionNext]_sessionVars
      => FreshConns' /\ StatusesCome'
  BY FreshStep, StatusesStep
<1> QED  BY <1>1, <1>2, FreshInit, StatusesSuffice, SessionTypeCorrect, PTL DEF SessionSpec

-----------------------------------------------------------------------------
(* Who the broker sends to.  Three ways a step changes the queue.          *)

SettlesFor(n) ==
  /\ Asked(n) = {} => (n \in subscribers <=> Served(n))
  /\ \A i \in Asked(n) :
       (\A j \in Asked(n) : j <= i) => (subIn[i].unsub <=> ~Served(n))

LEMMA SettlesHandled ==
  ASSUME FeedTypeOK, HandleSubscription, UNCHANGED <<at, conn>>, NEW n \in Conns, SettlesFor(n)
  PROVE  SettlesFor(n)'
<1>1. /\ 1 \in DOMAIN subIn /\ Head(subIn) = subIn[1] /\ DOMAIN subIn \subseteq Nat
      /\ DOMAIN subIn' \subseteq Nat
      /\ \A i \in DOMAIN subIn' : i + 1 \in DOMAIN subIn /\ subIn'[i] = subIn[i + 1]
      /\ \A i \in DOMAIN subIn : i = 1 \/ (i - 1 \in DOMAIN subIn' /\ subIn'[i - 1] = subIn[i])
  <2>1. subIn \in Seq(Requests) /\ subIn # <<>> /\ subIn' = Tail(subIn)
    BY DEF HandleSubscription, FeedTypeOK
  <2>2. DOMAIN subIn \subseteq Nat /\ DOMAIN subIn' \subseteq Nat
    BY <2>1
  <2> QED  BY <2>2, NextSubscription
<1>2. Served(n)' <=> Served(n)
  BY DEF Served
<1>3. \A i \in Asked(n)' : i + 1 \in Asked(n)
  BY <1>1 DEF Asked
<1>4. \A i \in Asked(n) : i = 1 \/ i - 1 \in Asked(n)'
  BY <1>1 DEF Asked
<1>5. ASSUME NEW i \in Asked(n)', \A j \in Asked(n)' : j <= i
      PROVE  subIn'[i].unsub <=> ~Served(n)
  <2>1. i \in Nat /\ i + 1 \in Asked(n) /\ subIn'[i] = subIn[i + 1]
    BY <1>1, <1>3 DEF Asked
  <2>2. ASSUME NEW j \in Asked(n) PROVE j <= i + 1
    <3>1. j \in Nat
      BY <1>1 DEF Asked
    <3>2. j = 1 \/ j - 1 <= i
      BY <1>4, <1>5
    <3> QED  BY <2>1, <3>1, <3>2
  <2> QED  BY <2>1, <2>2 DEF SettlesFor
<1>6. ASSUME Asked(n)' = {}
      PROVE  n \in subscribers' <=> Served(n)
  <2>1. \A i \in Asked(n) : i = 1
    BY <1>4, <1>6
  <2>2. CASE Head(subIn).conn = n
    <3>1. 1 \in Asked(n) /\ \A j \in Asked(n) : j <= 1
      BY <1>1, <2>1, <2>2 DEF Asked
    <3>2. subIn[1].unsub <=> ~Served(n)
      BY <3>1 DEF SettlesFor
    <3> QED  BY <1>1, <2>2, <3>2 DEF HandleSubscription
  <2>3. CASE Head(subIn).conn # n
    <3>1. Asked(n) = {}
      BY <1>1, <2>1, <2>3 DEF Asked
    <3>2. n \in subscribers' <=> n \in subscribers
      BY <2>3 DEF HandleSubscription
    <3> QED  BY <3>1, <3>2 DEF SettlesFor
  <2> QED  BY <2>2, <2>3
<1> QED  BY <1>2, <1>5, <1>6 DEF SettlesFor

LEMMA SettlesAsked ==
  ASSUME FeedTypeOK, NEW c \in Conns, NEW unsub \in BOOLEAN, Subscription(c, unsub),
         NEW n \in Conns, SettlesFor(n),
         IF n = c THEN Served(n)' <=> ~unsub ELSE Served(n)' <=> Served(n)
  PROVE  SettlesFor(n)'
<1>1. /\ \A i \in DOMAIN subIn : i \in DOMAIN subIn' /\ subIn'[i] = subIn[i]
      /\ \A i \in DOMAIN subIn' :
           \/ i \in DOMAIN subIn /\ subIn'[i] = subIn[i]
           \/ i = Len(subIn') /\ subIn'[i] = [conn |-> c, unsub |-> unsub]
      /\ Len(subIn') = Len(subIn) + 1 /\ subIn'[Len(subIn')] = [conn |-> c, unsub |-> unsub]
      /\ UNCHANGED subscribers
  BY NewSubscription
<1>2. /\ Len(subIn) \in Nat /\ DOMAIN subIn = 1 .. Len(subIn) /\ Len(subIn') \in DOMAIN subIn'
  <2>1. subIn \in Seq(Requests) /\ subIn' = Append(subIn, [conn |-> c, unsub |-> unsub])
    BY DEF Subscription, FeedTypeOK
  <2>2. [conn |-> c, unsub |-> unsub] \in Requests
    BY DEF Requests
  <2> QED  BY <2>1, <2>2
<1>3. CASE n # c
  <2>1. Asked(n)' = Asked(n)
    BY <1>1, <1>3 DEF Asked
  <2>2. \A i \in Asked(n) : subIn'[i] = subIn[i]
    BY <1>1 DEF Asked
  <2> QED  BY <1>1, <1>3, <2>1, <2>2 DEF SettlesFor
<1>4. CASE n = c
  <2> DEFINE last == Len(subIn')
  <2>1. last \in Asked(n)' /\ subIn'[last].unsub = unsub
    BY <1>1, <1>2, <1>4 DEF Asked
  <2>2. \A i \in Asked(n)' : i = last \/ i < last
    BY <1>1, <1>2 DEF Asked
  <2>3. last \in Nat /\ \A i \in Asked(n)' : i \in Nat
    BY <1>1, <1>2 DEF Asked
  <2> HIDE DEF last
  <2>4. ASSUME NEW i \in Asked(n)', \A j \in Asked(n)' : j <= i
        PROVE  i = last
    <3>1. last <= i /\ i \in Nat /\ (i = last \/ i < last)
      BY <2>1, <2>2, <2>3, <2>4
    <3> QED  BY <2>3, <3>1
  <2> QED  BY <1>4, <2>1, <2>4 DEF SettlesFor
<1> QED  BY <1>3, <1>4

LEMMA SettlesKept ==
  ASSUME UNCHANGED <<subIn, subscribers>>, NEW n, SettlesFor(n), Served(n)' <=> Served(n)
  PROVE  SettlesFor(n)'
<1>1. Asked(n)' = Asked(n)
  BY DEF Asked
<1> QED  BY <1>1 DEF SettlesFor

LEMMA SettlesStep ==
  ASSUME SessionTypeOK, SubscribersSettle, [SessionNext]_sessionVars
  PROVE  SubscribersSettle'
<1>1. FeedTypeOK /\ PageTypeOK
  BY DEF SessionTypeOK, ServerTypeOK
<1> SUFFICES ASSUME NEW n \in Conns PROVE SettlesFor(n)'
  BY DEF SubscribersSettle, SettlesFor
<1>2. SettlesFor(n)
  BY DEF SubscribersSettle, SettlesFor
<1>3. CASE UNCHANGED connVars
  BY <1>2, <1>3, SettlesKept DEF connVars, Served
<1>4. CASE HandlesValues \/ HandlesRaw \/ Ticks
  <2>1. UNCHANGED <<subIn, subscribers, at, conn>>
    BY <1>4 DEF HandlesValues, HandlesRaw, Ticks, besideBroker, HandleValues, HandleRaw, Tick
  <2> QED  BY <1>2, <2>1, SettlesKept DEF Served
<1>5. CASE HandlesSubscription
  BY <1>1, <1>2, <1>5, SettlesHandled DEF HandlesSubscription, besideBroker
<1>6. CASE Connects \/ SendsPanels \/ SendsBadSnapshot \/ onDataMessage
  <2>1. UNCHANGED <<subIn, subscribers>>
    BY <1>6 DEF Connects, SendsPanels, SendsBadSnapshot, onDataMessage, Received, feedVars
  <2>2. Served(n)' <=> Served(n)
    BY <1>6 DEF Connects, SendsPanels, SendsBadSnapshot, onDataMessage, Served
  <2> QED  BY <1>2, <2>1, <2>2, SettlesKept
<1>7. CASE Subscribes
  <2>1. Subscription(conn, FALSE) /\ conn' = conn /\ at = "subscribe" /\ at' = "snapshot"
    BY <1>7 DEF Subscribes
  <2>2. conn \in Conns
    BY <1>1, <2>1 DEF PageTypeOK
  <2>3. IF n = conn THEN Served(n)' ELSE Served(n)' <=> Served(n)
    BY <2>1 DEF Served
  <2> QED  BY <1>1, <1>2, <2>1, <2>2, <2>3, SettlesAsked
<1>8. CASE Closes
  <2>1. at # "closed" /\ at' = "closed" /\ conn' = conn
    BY <1>8 DEF Closes
  <2>2. conn \in Conns
    BY <1>1, <2>1 DEF PageTypeOK
  <2>3. CASE at \in {"snapshot", "stream"}
    <3>1. Subscription(conn, TRUE)
      BY <1>8, <2>3 DEF Closes
    <3>2. IF n = conn THEN ~Served(n)' ELSE Served(n)' <=> Served(n)
      BY <2>1 DEF Served
    <3> QED  BY <1>1, <1>2, <2>2, <3>1, <3>2, SettlesAsked
  <2>4. CASE at \notin {"snapshot", "stream"}
    <3>1. UNCHANGED <<subIn, subscribers>>
      BY <1>8, <2>4 DEF Closes, feedVars
    <3>2. Served(n)' <=> Served(n)
      BY <2>1, <2>4 DEF Served
    <3> QED  BY <1>2, <3>1, <3>2, SettlesKept
  <2> QED  BY <2>3, <2>4
<1> QED
  BY <1>3, <1>4, <1>5, <1>6, <1>7, <1>8, ConnSteps DEF BrokerBroadcasts, Streams

(* Whatever the order in which connections open, subscribe, fail and       *)
(* close, and however far the broker is behind, what it has been asked     *)
(* comes to this: send to the connection that is open and subscribed, and  *)
(* to no other: no handler ends without the request that removes its       *)
(* subscription.                                                           *)
THEOREM SubscriptionsSettle == SessionSpec => []SubscribersSettle
<1>1. SessionInit => SubscribersSettle
  BY DEF SessionInit, FeedInit, SubscribersSettle, Asked, Served
<1>2. SessionTypeOK /\ SubscribersSettle /\ [SessionNext]_sessionVars => SubscribersSettle'
  BY SettlesStep
<1> QED  BY <1>1, <1>2, SessionTypeCorrect, PTL DEF SessionSpec
=============================================================================
