------------------------- MODULE ChannelSpaceProofs -------------------------
(***************************************************************************)
(* The channels as the control node composes them: the composition is an   *)
(* implementation of the store, so what is proved of the store holds with  *)
(* the broker, the engine's loop, the sequences and the keepalive around   *)
(* it; its queues keep their bounds; and the controllers of a tick see the *)
(* computed values of that tick.                                           *)
(***************************************************************************)
EXTENDS ChannelSpace, SoftStoreProofs

Events == Partial(Stored \cup Hardware)

(* What reaches the broker, and waits for it, are values of channels.      *)
FeedInv ==
  /\ StoreTypeOK
  /\ dataIn \in Seq(Events) /\ shared \in Events
  /\ alive \in {<<>>} \cup [Stored -> Value]

LEMMA EventTypes ==
  /\ <<>> \in Events
  /\ Partial(Named) \subseteq Events
  /\ [Stored -> Value] \subseteq Events
  /\ \A c \in Hardware, v \in Value : Only(c, v) \in Events
<1>1. Partial(Named) \subseteq Events
  BY DEF Partial, Events, Stored
<1>2. [Stored -> Value] \subseteq Events
  BY DEF Partial, Events
<1>3. ASSUME NEW c \in Hardware, NEW v \in Value PROVE Only(c, v) \in Events
  <2>1. Only(c, v) \in [{c} -> Value] /\ {c} \in SUBSET (Stored \cup Hardware)
    BY DEF Only
  <2> QED  BY <2>1 DEF Partial, Events
<1> QED  BY <1>1, <1>2, <1>3, NoEvent

LEMMA OverType ==
  ASSUME NEW a \in Events, NEW b \in Events
  PROVE  Over(a, b) \in Events
<1>1. PICK S \in SUBSET (Stored \cup Hardware) : a \in [S -> Value]
  BY DEF Events, Partial
<1>2. PICK T \in SUBSET (Stored \cup Hardware) : b \in [T -> Value]
  BY DEF Events, Partial
<1>3. Over(a, b) \in [S \cup T -> Value] /\ S \cup T \in SUBSET (Stored \cup Hardware)
  BY <1>1, <1>2 DEF Over
<1> QED  BY <1>3 DEF Events, Partial

LEMMA OnBrokerType == FeedInv => OnBroker \in Partial(Hardware)
<1> SUFFICES ASSUME FeedInv PROVE OnBroker \in Partial(Hardware)
  OBVIOUS
<1>1. PICK S \in SUBSET (Stored \cup Hardware) : shared \in [S -> Value]
  BY DEF FeedInv, Events, Partial
<1>2. OnBroker \in [S \cap Hardware -> Value] /\ S \cap Hardware \in SUBSET Hardware
  BY <1>1 DEF OnBroker
<1> QED  BY <1>2 DEF Partial

-----------------------------------------------------------------------------
(* Every step of the composition is a step of the store or leaves it.      *)

LEMMA WriterStep ==
  ASSUME NEW g \in Setters, NEW c \in Named \cup Hardware, NEW v \in Value,
         WriterSet(g, c, v)
  PROVE  [StoreNext]_storeVars
<1>1. CASE c \in Targets /\ SetInternal(g, c, v)
  BY <1>1, SpaceAssumption DEF Named, StoreNext
<1>2. CASE Set(g, c, v, <<>>)
  <2>1. c \in Named
    BY <1>2, StoreAssumption DEF Set, Accepts
  <2> QED  BY <1>2, <2>1 DEF StoreNext
<1>3. CASE UNCHANGED storeVars
  BY <1>3
<1> QED  BY <1>1, <1>2, <1>3 DEF WriterSet

LEMMA InternalStep ==
  ASSUME NEW g \in Setters, NEW c, NEW v \in Value, SetInternal(g, c, v)
  PROVE  [StoreNext]_storeVars
<1>1. c \in Named
  BY DEF SetInternal, Named
<1> QED  BY <1>1 DEF StoreNext

LEMMA CommandStep ==
  ASSUME FeedInv, AppliesCmd
  PROVE  [StoreNext]_storeVars
<1> DEFINE cmd == Head(queue["_SOFTCHAN"])
<1>1. CASE Set(StoreLoop, cmd.refDes, cmd.value, Only(cmd.refDes, cmd.value))
  <2>1. cmd.refDes \in Named /\ cmd.value \in Limits(config, cmd.refDes)
    BY <1>1, StoreAssumption DEF Set, Accepts
  <2>2. cmd.value \in Value
    BY <2>1, ConfigType DEF FeedInv, StoreTypeOK, Limits
  <2> QED  BY <1>1, <2>1, <2>2, SpaceAssumption DEF StoreNext
<1>2. CASE UNCHANGED storeVars
  BY <1>2
<1> QED  BY <1>1, <1>2 DEF AppliesCmd

LEMMA StoreStep == FeedInv /\ [SpaceNext]_spaceVars => [StoreNext]_storeVars
<1> SUFFICES ASSUME FeedInv, [SpaceNext]_spaceVars PROVE [StoreNext]_storeVars
  OBVIOUS
<1>1. CASE UNCHANGED spaceVars
  BY <1>1 DEF spaceVars
<1>2. CASE TickBegins
  BY <1>2 DEF TickBegins, StoreNext
<1>3. CASE Recomputes
  BY <1>3, OnBrokerType DEF Recomputes, StoreNext
<1>4. CASE FillsFromBroker \/ FillsFromStore \/ TickEnds \/ Keepalive \/ KeepalivePublishes
  BY <1>4 DEF FillsFromBroker, FillsFromStore, TickEnds, Keepalive, KeepalivePublishes
<1>5. ASSUME NEW g \in Setters, Marks(g) \/ Publishes(g) PROVE [StoreNext]_storeVars
  BY <1>5 DEF Marks, Publishes, StoreNext
<1>6. CASE ControllerSets
  BY <1>6, WriterStep, InternalStep, SpaceAssumption DEF ControllerSets
<1>7. ASSUME NEW g \in Setters, SequenceSets(g) PROVE [StoreNext]_storeVars
  BY <1>7, WriterStep DEF SequenceSets
<1>8. CASE AppliesCmd
  BY <1>8, CommandStep
<1>9. CASE BrokerHandles \/ NodeReports \/ OperatorCommands
  BY <1>9 DEF BrokerHandles, NodeReports, OperatorCommands
<1>10. CASE Saves \/ Dies \/ Exits \/ Starts
  BY <1>10 DEF Saves, Dies, Exits, Starts, StoreNext
<1> QED  BY <1>1, <1>2, <1>3, <1>4, <1>5, <1>6, <1>7, <1>8, <1>9, <1>10, SpaceAssumption
         DEF SpaceNext, EngineSteps, StoreSteps, Sequences_

-----------------------------------------------------------------------------
(* What is published are values of channels.                               *)

DataTyped == dataIn \in Seq(Events) /\ shared \in Events
AliveTyped == alive \in {<<>>} \cup [Stored -> Value]

LEMMA PublishType ==
  ASSUME FeedInv, NEW event \in Events, PublishData(event)
  PROVE  DataTyped'
BY DEF PublishData, FeedInv, DataTyped

LEMMA HandleType == FeedInv /\ HandleData => DataTyped'
<1> SUFFICES ASSUME FeedInv, HandleData PROVE DataTyped'
  OBVIOUS
<1>1. dataIn \in Seq(Events) /\ dataIn # <<>> /\ shared \in Events
  BY DEF FeedInv, HandleData
<1>2. Head(dataIn) \in Events /\ Tail(dataIn) \in Seq(Events)
  BY <1>1
<1>3. Over(Head(dataIn), shared) \in Events
  BY <1>1, <1>2, OverType
<1> QED  BY <1>2, <1>3 DEF HandleData, DataTyped

LEMMA InitFeed == SpaceInit => FeedInv
<1> SUFFICES ASSUME SpaceInit PROVE FeedInv
  OBVIOUS
<1>1. StoreTypeOK
  BY InitType DEF SpaceInit
<1> QED  BY <1>1, EventTypes DEF SpaceInit, DataInit, FeedInv

LEMMA NextFeed == FeedInv /\ [SpaceNext]_spaceVars => FeedInv'
<1> SUFFICES ASSUME FeedInv, [SpaceNext]_spaceVars PROVE FeedInv'
  OBVIOUS
<1>1. StoreTypeOK'
  BY StoreStep, NextType DEF FeedInv
<1> SUFFICES DataTyped' /\ AliveTyped'
  BY <1>1 DEF FeedInv, DataTyped, AliveTyped
<1>2. ASSUME UNCHANGED dataVars PROVE DataTyped'
  BY <1>2 DEF dataVars, FeedInv, DataTyped
<1>3. ASSUME UNCHANGED alive PROVE AliveTyped'
  BY <1>3 DEF FeedInv, AliveTyped
<1>4. CASE UNCHANGED spaceVars
  BY <1>2, <1>3, <1>4 DEF spaceVars
<1>5. CASE \/ TickBegins \/ Recomputes \/ FillsFromBroker \/ FillsFromStore \/ TickEnds
           \/ ControllerSets \/ OperatorCommands \/ Saves \/ Starts \/ AppliesCmd
           \/ \E g \in Setters : Marks(g) \/ SequenceSets(g)
  <2>1. UNCHANGED <<dataVars, alive>>
    BY <1>5 DEF TickBegins, Recomputes, FillsFromBroker, FillsFromStore, TickEnds,
                ControllerSets, OperatorCommands, Saves, Starts, AppliesCmd, Marks,
                SequenceSets
  <2> QED  BY <1>2, <1>3, <2>1
<1>6. ASSUME NEW g \in Setters, Publishes(g) PROVE DataTyped' /\ AliveTyped'
  <2>1. job[g].event \in Events
    BY EventTypes DEF FeedInv, StoreTypeOK, Jobs
  <2> QED  BY <1>3, <1>6, <2>1, PublishType DEF Publishes
<1>7. CASE Keepalive
  <2>1. AliveTyped'
    BY <1>7 DEF Keepalive, FeedInv, StoreTypeOK, AliveTyped
  <2> QED  BY <1>2, <1>7, <2>1 DEF Keepalive
<1>8. CASE KeepalivePublishes
  <2>1. alive \in Events
    BY <1>8, EventTypes DEF KeepalivePublishes, FeedInv
  <2> QED  BY <1>8, <2>1, PublishType DEF KeepalivePublishes, AliveTyped
<1>9. CASE BrokerHandles
  <2>1. DataTyped'
    BY <1>2, <1>9, HandleType DEF BrokerHandles
  <2> QED  BY <1>3, <1>9, <2>1 DEF BrokerHandles
<1>10. CASE NodeReports
  <2>1. DataTyped'
    BY <1>10, EventTypes, PublishType DEF NodeReports
  <2> QED  BY <1>3, <1>10, <2>1 DEF NodeReports
<1>11. CASE Dies \/ Exits
  <2>1. dataIn' = <<>> /\ shared' = <<>> /\ alive' = <<>>
    BY <1>11 DEF Dies, Exits, Forgets
  <2> QED  BY <2>1, EventTypes DEF DataTyped, AliveTyped
<1> QED  BY <1>4, <1>5, <1>6, <1>7, <1>8, <1>9, <1>10, <1>11, SpaceAssumption
         DEF SpaceNext, EngineSteps, StoreSteps, Sequences_

LEMMA FeedTyped == SpaceSpec => []FeedInv
<1>1. SpaceInit => FeedInv
  BY InitFeed
<1>2. FeedInv /\ [SpaceNext]_spaceVars => FeedInv'
  BY NextFeed
<1> QED  BY <1>1, <1>2, PTL DEF SpaceSpec

(* The composition implements the store: whatever the broker, the engine's *)
(* loop, the sequences, the operators and the nodes do (main.go), the      *)
(* store sees commands its Set judges, passes and saves, and nothing else. *)
THEOREM SpaceImplementsStore == SpaceSpec => StoreSpec
<1>1. SpaceInit => StoreInit
  BY DEF SpaceInit
<1>2. FeedInv /\ [SpaceNext]_spaceVars => [StoreNext]_storeVars
  BY StoreStep
<1> QED  BY <1>1, <1>2, FeedTyped, PTL DEF SpaceSpec, StoreSpec

(* What is proved of the store alone holds of the channels as the control  *)
(* node composes them: bounds, saving, agreement of computed channels and  *)
(* the promise about the file.                                             *)
THEOREM StoreInComposition ==
  SpaceSpec => /\ []WithinBounds /\ []RestartRestores /\ []ComputedConsistent
               /\ Durability
<1> QED  BY SpaceImplementsStore, BoundsRespected, SavesReachTheFile, ComputedAgree,
         StoreIsDurable, PTL

-----------------------------------------------------------------------------
(* The snapshot of a tick.  Computed values change only while a pass of    *)
(* this very tick is written back, before the snapshot is taken.           *)

SnapInv ==
  /\ ~up => phase = "wait"
  /\ phase = "control" => \A c \in Computed : snap[c] = values[c]

LEMMA AssignComputed ==
  ASSUME StoreTypeOK, NEW g \in Setters, NEW c, NEW v, NEW event,
         \/ Set(g, c, v, event)
         \/ SetInternal(g, c, v)
  PROVE  UNCHANGED up /\ \A d \in Computed : values'[d] = values[d]
<1>1. c \in Named
  BY StoreAssumption DEF Set, Accepts, SetInternal, Named
<1>2. UNCHANGED up /\ values' = [values EXCEPT ![c] = v]
  BY DEF Set, SetInternal, Assign
<1> QED  BY <1>1, <1>2, StoreAssumption DEF StoreTypeOK, Stored

LEMMA NextSnap ==
  FeedInv /\ SnapInv /\ [SpaceNext]_spaceVars => SnapInv'
<1> SUFFICES ASSUME FeedInv, SnapInv, [SpaceNext]_spaceVars PROVE SnapInv'
  OBVIOUS
<1>1. values \in [Stored -> Value] /\ StoreTypeOK
  BY DEF FeedInv, StoreTypeOK
<1>2. ASSUME UNCHANGED <<phase, snap, up>>, \A c \in Computed : values'[c] = values[c]
      PROVE  SnapInv'
  BY <1>2 DEF SnapInv
<1>3. CASE UNCHANGED spaceVars
  BY <1>2, <1>3 DEF spaceVars, storeVars
<1>4. CASE TickBegins \/ Recomputes
  BY <1>4 DEF TickBegins, RecomputeBegins, Recomputes, Evaluate, Abandons, WriteBack, SnapInv
<1>5. CASE FillsFromBroker
  BY <1>5 DEF FillsFromBroker, SnapInv, storeVars
<1>6. CASE FillsFromStore
  <2>1. \A c \in Computed : snap'[c] = values[c]
    BY <1>1, <1>6, Disjoint DEF FillsFromStore, Over
  <2>2. up /\ UNCHANGED <<up, values>>
    BY <1>6 DEF FillsFromStore, SnapInv, storeVars
  <2> QED  BY <2>1, <2>2 DEF SnapInv
<1>7. CASE TickEnds
  BY <1>7 DEF TickEnds, SnapInv, storeVars
<1>8. ASSUME NEW g \in Setters, NEW c, NEW v, WriterSet(g, c, v)
      PROVE  UNCHANGED up /\ \A d \in Computed : values'[d] = values[d]
  BY <1>1, <1>8, AssignComputed DEF WriterSet, storeVars
<1>9. CASE ControllerSets
  BY <1>1, <1>2, <1>8, <1>9, AssignComputed, SpaceAssumption DEF ControllerSets
<1>10. ASSUME NEW g \in Setters, SequenceSets(g) PROVE SnapInv'
  BY <1>2, <1>8, <1>10 DEF SequenceSets
<1>11. ASSUME NEW g \in Setters, Marks(g) \/ Publishes(g) PROVE SnapInv'
  BY <1>2, <1>11 DEF Marks, Publishes, markDirty, Published
<1>12. CASE AppliesCmd
  BY <1>1, <1>2, <1>12, AssignComputed, SpaceAssumption DEF AppliesCmd, storeVars
<1>13. CASE Keepalive \/ KeepalivePublishes \/ BrokerHandles \/ NodeReports
            \/ OperatorCommands
  BY <1>2, <1>13 DEF Keepalive, KeepalivePublishes, BrokerHandles, NodeReports,
                     OperatorCommands, storeVars
<1>14. CASE Saves
  BY <1>2, <1>14 DEF Saves, Flush, FlushBegins, Snapshot, WriteTmp, Rename, FlushFails
<1>15. CASE Dies \/ Exits
  BY <1>15 DEF Dies, Exits, Forgets, SnapInv
<1>16. CASE Starts
  BY <1>16 DEF Starts, Restart, SnapInv
<1> QED  BY <1>3, <1>4, <1>5, <1>6, <1>7, <1>9, <1>10, <1>11, <1>12, <1>13, <1>14, <1>15,
            <1>16, SpaceAssumption
         DEF SpaceNext, EngineSteps, StoreSteps, Sequences_

(* When the controllers of a tick run, the snapshot they see holds the     *)
(* computed values the store holds after that tick's pass (PreTick,        *)
(* FillSnapshot): the store is laid over the broker's older copies, and no *)
(* other goroutine writes a computed channel.                              *)
THEOREM SnapshotsAreCurrent == SpaceSpec => []SnapshotIsCurrent
<1>1. SpaceInit => SnapInv
  BY DEF SpaceInit, StoreInit, SnapInv
<1>2. FeedInv /\ SnapInv /\ [SpaceNext]_spaceVars => SnapInv'
  BY NextSnap
<1>3. SnapInv => SnapshotIsCurrent
  BY DEF SnapInv, SnapshotIsCurrent
<1> QED  BY <1>1, <1>2, <1>3, FeedTyped, PTL DEF SpaceSpec

-----------------------------------------------------------------------------
(* The queues.  None of their writers blocks or asks another for room.     *)

Cmds == [refDes : Stored \cup Hardware \cup RestartCmds, value : Value]
CmdTyped ==
  /\ cmdIn \in Seq(Cmds) /\ Len(cmdIn) <= CmdCap
  /\ queue \in [Links -> Seq(Cmds)] /\ \A l \in Links : Len(queue[l]) <= LinkCap

QueueInv ==
  /\ CmdTyped
  /\ Len(dataIn) <= DataCap
  /\ phase \in {"wait", "compute", "fill", "merge", "control"}

LEMMA SendBound ==
  ASSUME CmdTyped, NEW cmd \in Cmds, SendCmd(cmd)
  PROVE  CmdTyped'
BY CommandAssumption DEF CmdTyped, SendCmd

LEMMA RouteBound == CmdTyped /\ RouteCmd => CmdTyped'
<1> SUFFICES ASSUME CmdTyped, RouteCmd PROVE CmdTyped'
  OBVIOUS
<1> DEFINE cmd == Head(cmdIn)
           l == NodeOf[cmd.refDes]
<1>1. /\ cmdIn # <<>> /\ cmdIn \in Seq(Cmds) /\ cmdIn' = Tail(cmdIn)
      /\ queue' = IF Routable(cmd) THEN [queue EXCEPT ![l] = Append(@, cmd)] ELSE queue
  BY DEF CmdTyped, RouteCmd
<1>2. cmd \in Cmds /\ Tail(cmdIn) \in Seq(Cmds) /\ Len(Tail(cmdIn)) = Len(cmdIn) - 1
      /\ Len(cmdIn) \in Nat
  BY <1>1, TailType
<1>3. cmdIn' \in Seq(Cmds) /\ Len(cmdIn') <= CmdCap
  BY <1>1, <1>2, CommandAssumption DEF CmdTyped
<1>4. CASE Routable(cmd)
  <2>1. l \in Links /\ Len(queue[l]) < LinkCap /\ queue[l] \in Seq(Cmds)
    BY <1>4, CommandAssumption DEF Routable, CmdTyped
  <2>2. Append(queue[l], cmd) \in Seq(Cmds) /\ Len(Append(queue[l], cmd)) <= LinkCap
    BY <1>2, <2>1, CommandAssumption
  <2>3. \A m \in Links : queue'[m] = IF m = l THEN Append(queue[l], cmd) ELSE queue[m]
    BY <1>1, <1>4, <2>1 DEF CmdTyped
  <2>4. queue' \in [Links -> Seq(Cmds)] /\ \A m \in Links : Len(queue'[m]) <= LinkCap
    BY <1>1, <1>4, <2>2, <2>3 DEF CmdTyped
  <2> QED  BY <1>3, <2>4 DEF CmdTyped
<1>5. CASE ~Routable(cmd)
  BY <1>1, <1>3, <1>5 DEF CmdTyped
<1> QED  BY <1>4, <1>5

LEMMA TakeBound ==
  ASSUME CmdTyped, NEW l \in Links, TakeCmd(l)
  PROVE  CmdTyped'
<1>1. queue[l] \in Seq(Cmds) /\ queue[l] # <<>> /\ Len(queue[l]) <= LinkCap
  BY DEF CmdTyped, TakeCmd
<1>2. /\ Tail(queue[l]) \in Seq(Cmds) /\ Len(Tail(queue[l])) = Len(queue[l]) - 1
      /\ Len(queue[l]) \in Nat
  BY <1>1, TailType
<1>3. \A m \in Links : queue'[m] = IF m = l THEN Tail(queue[l]) ELSE queue[m]
  BY DEF CmdTyped, TakeCmd
<1>4. Len(Tail(queue[l])) <= LinkCap
  BY <1>1, <1>2, CommandAssumption
<1>5. queue' \in [Links -> Seq(Cmds)] /\ \A m \in Links : Len(queue'[m]) <= LinkCap
  BY <1>2, <1>3, <1>4 DEF CmdTyped, TakeCmd
<1> QED  BY <1>5 DEF CmdTyped, TakeCmd

LEMMA PublishBound ==
  ASSUME FeedInv, Len(dataIn) <= DataCap, NEW event, PublishData(event)
  PROVE  Len(dataIn') <= DataCap
BY ValuesAssumption DEF FeedInv, PublishData

LEMMA HandleBound ==
  FeedInv /\ Len(dataIn) <= DataCap /\ HandleData => Len(dataIn') <= DataCap
<1> SUFFICES ASSUME FeedInv, Len(dataIn) <= DataCap, HandleData
             PROVE  Len(dataIn') <= DataCap
  OBVIOUS
<1>1. dataIn \in Seq(Events) /\ dataIn # <<>> /\ dataIn' = Tail(dataIn)
  BY DEF FeedInv, HandleData
<1>2. Len(Tail(dataIn)) = Len(dataIn) - 1 /\ Len(dataIn) \in Nat
  BY <1>1, TailType
<1> QED  BY <1>1, <1>2, ValuesAssumption

LEMMA InitQueues == SpaceInit => QueueInv
<1> SUFFICES ASSUME SpaceInit PROVE QueueInv
  OBVIOUS
<1>1. cmdIn = <<>> /\ queue = [l \in Links |-> <<>>] /\ dataIn = <<>> /\ phase = "wait"
  BY DEF SpaceInit, CmdInit, DataInit
<1> QED  BY <1>1, ValuesAssumption, CommandAssumption DEF QueueInv, CmdTyped

LEMMA NextQueues == FeedInv /\ QueueInv /\ [SpaceNext]_spaceVars => QueueInv'
<1> SUFFICES ASSUME FeedInv, QueueInv, [SpaceNext]_spaceVars PROVE QueueInv'
  OBVIOUS
<1> DEFINE DataBound == Len(dataIn) <= DataCap
           PhaseOK == phase \in {"wait", "compute", "fill", "merge", "control"}
<1>1. ASSUME UNCHANGED cmdVars PROVE CmdTyped'
  BY <1>1 DEF cmdVars, QueueInv, CmdTyped
<1>2. ASSUME UNCHANGED dataVars PROVE DataBound'
  BY <1>2 DEF dataVars, QueueInv
<1>3. ASSUME UNCHANGED phase PROVE PhaseOK'
  BY <1>3 DEF QueueInv
<1>4. ASSUME NEW g \in Setters, NEW c \in Named \cup Hardware, NEW v \in Value,
             WriterSet(g, c, v)
      PROVE  CmdTyped'
  <2>1. CASE UNCHANGED cmdVars
    BY <1>1, <2>1
  <2>2. CASE SendCmd(Cmd(c, v))
    <3>1. Cmd(c, v) \in Cmds
      BY DEF Cmd, Cmds, Stored
    <3> QED  BY <2>2, <3>1, SendBound DEF QueueInv
  <2> QED  BY <1>4, <2>1, <2>2 DEF WriterSet
<1>5. CASE UNCHANGED spaceVars
  BY <1>1, <1>2, <1>3, <1>5 DEF spaceVars, QueueInv
<1>6. CASE TickBegins \/ Recomputes \/ FillsFromBroker \/ FillsFromStore \/ TickEnds
  <2>1. UNCHANGED <<dataVars, cmdVars>> /\ PhaseOK'
    BY <1>3, <1>6 DEF TickBegins, Recomputes, FillsFromBroker, FillsFromStore, TickEnds
  <2> QED  BY <1>1, <1>2, <2>1 DEF QueueInv
<1>7. CASE Keepalive \/ Saves \/ Starts \/ \E g \in Setters : Marks(g)
  <2>1. UNCHANGED <<dataVars, cmdVars, phase>>
    BY <1>7 DEF Keepalive, Saves, Starts, Marks
  <2> QED  BY <1>1, <1>2, <1>3, <2>1 DEF QueueInv
<1>8. CASE ControllerSets \/ \E g \in Setters : SequenceSets(g)
  <2>1. UNCHANGED <<dataVars, phase>> /\ CmdTyped'
    BY <1>1, <1>4, <1>8, SpaceAssumption DEF ControllerSets, SequenceSets
  <2> QED  BY <1>2, <1>3, <2>1 DEF QueueInv
<1>9. CASE KeepalivePublishes \/ NodeReports \/ \E g \in Setters : Publishes(g)
  <2>1. UNCHANGED <<cmdVars, phase>> /\ DataBound'
    BY <1>9, PublishBound DEF KeepalivePublishes, NodeReports, Publishes, QueueInv
  <2> QED  BY <1>1, <1>3, <2>1 DEF QueueInv
<1>10. CASE AppliesCmd
  <2>1. UNCHANGED <<dataVars, phase>> /\ CmdTyped'
    BY <1>10, TakeBound, SpaceAssumption DEF AppliesCmd, QueueInv
  <2> QED  BY <1>2, <1>3, <2>1 DEF QueueInv
<1>11. CASE BrokerHandles
  <2>1. UNCHANGED phase
    BY <1>11 DEF BrokerHandles
  <2>2. CASE HandleData /\ UNCHANGED cmdVars
    BY <1>1, <1>3, <2>1, <2>2, HandleBound DEF QueueInv
  <2>3. CASE RouteCmd /\ UNCHANGED dataVars
    BY <1>2, <1>3, <2>1, <2>3, RouteBound DEF QueueInv
  <2> QED  BY <1>11, <2>2, <2>3 DEF BrokerHandles
<1>12. CASE OperatorCommands
  <2>1. \A c \in Settable \cup RestartCmds, v \in Value : Cmd(c, v) \in Cmds
    BY StoreAssumption DEF Cmd, Cmds, Stored
  <2>2. CmdTyped'
    BY <1>12, <2>1, SendBound DEF OperatorCommands, QueueInv
  <2> QED  BY <1>2, <1>3, <1>12, <2>2 DEF OperatorCommands, QueueInv
<1>13. CASE Dies \/ Exits
  <2>1. /\ dataIn' = <<>> /\ cmdIn' = <<>> /\ phase' = "wait"
        /\ queue' = [l \in Links |-> <<>>]
    BY <1>13 DEF Dies, Exits, Forgets
  <2> QED  BY <2>1, ValuesAssumption, CommandAssumption DEF QueueInv, CmdTyped
<1> QED  BY <1>5, <1>6, <1>7, <1>8, <1>9, <1>10, <1>11, <1>12, <1>13, SpaceAssumption
         DEF SpaceNext, EngineSteps, StoreSteps, Sequences_

(* The composition's variables keep their types, and the queues of the     *)
(* broker and of the owners of channels their capacities, under any load   *)
(* (PublishData, SendCmd and Run of the broker drop what does not fit).    *)
THEOREM SpaceTypeCorrect == SpaceSpec => []SpaceTypeOK
<1>1. SpaceInit => QueueInv
  BY InitQueues
<1>2. FeedInv /\ QueueInv /\ [SpaceNext]_spaceVars => QueueInv'
  BY NextQueues
<1>3. FeedInv /\ QueueInv => SpaceTypeOK
  BY DEF FeedInv, QueueInv, CmdTyped, SpaceTypeOK
<1> QED  BY <1>1, <1>2, <1>3, FeedTyped, PTL DEF SpaceSpec
=============================================================================
