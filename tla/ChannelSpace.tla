---------------------------- MODULE ChannelSpace ----------------------------
(***************************************************************************)
(* The channels as the rest of the control node reads and writes them      *)
(* (main.go): a hardware channel lives in the broker, a soft channel in    *)
(* the store, and the broker holds a copy of the soft ones that its        *)
(* publications refresh.  The engine's loop recomputes, takes a snapshot   *)
(* of both and runs the controllers on it; the sequences read and write    *)
(* directly; the store's loop publishes everything once a second and       *)
(* applies commands.  Its queue is taken to be registered from the start:  *)
(* main starts that loop before any goroutine that sets a channel.         *)
(***************************************************************************)
EXTENDS SoftStore, BrokerValues, BrokerCommands

CONSTANTS
  EngineLoop, StoreLoop,  \* the setters that are not sequences
  Targets,                \* the SM-*-TARGET channels
  MaxEvents,              \* bound: sets, commands, readings and crashes
  Scenarios               \* bound: what one behaviour has of ticks, saves,
                          \* crashes, sets, readings and commands

ASSUME SpaceAssumption ==
  /\ EngineLoop \in Setters /\ StoreLoop \in Setters /\ EngineLoop # StoreLoop
  /\ "_SOFTCHAN" \in Links
  /\ Targets \subseteq Registered
  /\ MaxEvents \in Nat
  /\ Scenarios \subseteq SUBSET {"tick", "save", "crash", "set", "reading", "command"}

VARIABLES
  phase,   \* the engine's loop: "wait", "compute", "fill", "merge", "control"
  snap,    \* the tick's snapshot of the channels
  alive,   \* the keepalive's copy of the values, <<>> if none is under way
  events,  \* events from outside so far
  scenario

bounds == <<events, scenario>>
spaceVars == <<storeVars, dataVars, cmdVars, phase, snap, alive, bounds>>
Sequences_ == Setters \ {EngineLoop, StoreLoop}

SpaceInit ==
  /\ StoreInit /\ DataInit /\ CmdInit({"_SOFTCHAN"})
  /\ phase = "wait" /\ snap = <<>> /\ alive = <<>> /\ events = 0
  /\ scenario \in Scenarios

Allowed(kind) == kind \in scenario /\ UNCHANGED scenario
Happens(kind) == Allowed(kind) /\ events < MaxEvents /\ events' = events + 1

-----------------------------------------------------------------------------
(* engineReader and engineWriter.                                          *)

(* Get, on the goroutine of a sequence: the broker's value if it has one.  *)
Get(c) == IF c \in DOMAIN shared THEN shared[c] ELSE values[c]

(* Set: a target goes to the engine and is then shown, a soft channel to   *)
(* the store, which may refuse it, anything else to the broker.            *)
WriterSet(g, c, v) ==
  \/ /\ c \in Targets /\ SetInternal(g, c, v)
     /\ UNCHANGED cmdVars
  \/ /\ c \in Stored \ Targets /\ Set(g, c, v, <<>>)
     /\ UNCHANGED cmdVars
  \/ /\ c \notin Stored /\ up /\ job[g] = Idle /\ SendCmd(Cmd(c, v))
     /\ UNCHANGED storeVars

SequenceSets(g) ==
  /\ Happens("set")
  /\ \E c \in Named \cup Hardware, v \in Value : WriterSet(g, c, v)
  /\ UNCHANGED <<dataVars, phase, snap, alive>>

-----------------------------------------------------------------------------
(* One tick of the engine's loop: Recompute, FillSnapshot (the broker's    *)
(* values, then the store's over them), the controllers.                   *)

OnBroker == [c \in DOMAIN shared \cap Hardware |-> shared[c]]

TickBegins ==
  /\ Allowed("tick")
  /\ phase = "wait" /\ job[EngineLoop] = Idle /\ RecomputeBegins
  /\ phase' = "compute"
  /\ UNCHANGED <<dataVars, cmdVars, snap, alive, events>>

Recomputes ==
  /\ phase = "compute"
  /\ \/ Evaluate(OnBroker) /\ UNCHANGED phase
     \/ (Abandons(OnBroker) \/ WriteBack) /\ phase' = "fill"
  /\ UNCHANGED <<dataVars, cmdVars, snap, alive, bounds>>

FillsFromBroker ==
  /\ phase = "fill" /\ phase' = "merge"
  /\ snap' = shared
  /\ UNCHANGED <<storeVars, dataVars, cmdVars, alive, bounds>>

(* Fault: what the snapshot already has is kept.                           *)
FillsMissing ==
  /\ phase = "merge" /\ phase' = "control"
  /\ snap' = Over(snap, values)
  /\ UNCHANGED <<storeVars, dataVars, cmdVars, alive, bounds>>

FillsFromStore ==
  /\ phase = "merge" /\ phase' = "control"
  /\ snap' = Over(values, snap)
  /\ UNCHANGED <<storeVars, dataVars, cmdVars, alive, bounds>>

(* A controller's assignment, or the report of a state change.             *)
ControllerSets ==
  /\ phase = "control" /\ Happens("set")
  /\ \E c \in Named \cup Hardware, v \in Value :
       \/ WriterSet(EngineLoop, c, v)
       \/ SetInternal(EngineLoop, c, v) /\ UNCHANGED cmdVars
  /\ UNCHANGED <<dataVars, phase, snap, alive>>

TickEnds ==
  /\ phase = "control" /\ job[EngineLoop] = Idle
  /\ phase' = "wait" /\ snap' = <<>>
  /\ UNCHANGED <<storeVars, dataVars, cmdVars, alive, bounds>>

-----------------------------------------------------------------------------
(* What a setter does after the lock.                                      *)
Marks(g) ==
  /\ markDirty(g)
  /\ UNCHANGED <<dataVars, cmdVars, phase, snap, alive, bounds>>

Publishes(g) ==
  /\ Published(g) /\ PublishData(job[g].event)
  /\ UNCHANGED <<cmdVars, phase, snap, alive, bounds>>

(* Store.Run: the keepalive's copy and its publication, and commands.      *)
Free == up /\ job[StoreLoop] = Idle /\ alive = <<>>

Keepalive ==
  /\ Free
  /\ alive' = values
  /\ UNCHANGED <<storeVars, dataVars, cmdVars, phase, snap, bounds>>

(* Fault: the keepalive carries the settable channels only.                *)
KeepaliveDefinedOnly ==
  /\ alive # <<>> /\ PublishData([c \in Settable |-> alive[c]]) /\ alive' = <<>>
  /\ UNCHANGED <<storeVars, cmdVars, phase, snap, bounds>>

KeepalivePublishes ==
  /\ alive # <<>> /\ PublishData(alive) /\ alive' = <<>>
  /\ UNCHANGED <<storeVars, cmdVars, phase, snap, bounds>>

AppliesCmd ==
  /\ Free /\ TakeCmd("_SOFTCHAN")
  /\ LET cmd == Head(queue["_SOFTCHAN"]) IN
     \/ Set(StoreLoop, cmd.refDes, cmd.value, Only(cmd.refDes, cmd.value))
     \/ ~Accepts(cmd.refDes, cmd.value) /\ UNCHANGED storeVars
  /\ UNCHANGED <<dataVars, phase, snap, alive, bounds>>

-----------------------------------------------------------------------------
(* The broker's loop, and what reaches it from outside.                    *)
BrokerHandles ==
  /\ up
  /\ \/ HandleData /\ UNCHANGED cmdVars
     \/ RouteCmd /\ UNCHANGED dataVars
  /\ UNCHANGED <<storeVars, phase, snap, alive, bounds>>

NodeReports ==
  /\ up /\ Happens("reading")
  /\ \E c \in Hardware, v \in Value : PublishData(Only(c, v))
  /\ UNCHANGED <<storeVars, cmdVars, phase, snap, alive>>

OperatorCommands ==
  /\ up /\ Happens("command")
  /\ \E c \in Settable \cup RestartCmds, v \in Value : SendCmd(Cmd(c, v))
  /\ UNCHANGED <<storeVars, dataVars, phase, snap, alive>>

Saves ==
  /\ Allowed("save") /\ (Flush \/ FlushFails)
  /\ UNCHANGED <<dataVars, cmdVars, phase, snap, alive, events>>

(* The end of the process, from outside or by a restart command: os.Exit   *)
(* in the broker's loop, while the other goroutines are anywhere.          *)
Forgets ==
  /\ dataIn' = <<>> /\ shared' = <<>>
  /\ cmdIn' = <<>> /\ daqRegIn' = <<>> /\ registered' = {"_SOFTCHAN"}
  /\ queue' = [l \in Links |-> <<>>]
  /\ phase' = "wait" /\ snap' = <<>> /\ alive' = <<>>

Dies == Happens("crash") /\ Crash /\ Forgets
Exits == RestartCommanded /\ Crash /\ Forgets /\ UNCHANGED bounds

Starts ==
  /\ Restart
  /\ UNCHANGED <<dataVars, cmdVars, phase, snap, alive, bounds>>

EngineSteps == \/ TickBegins \/ Recomputes \/ FillsFromBroker \/ FillsFromStore
               \/ TickEnds \/ Marks(EngineLoop) \/ Publishes(EngineLoop)
StoreSteps == \/ Keepalive \/ KeepalivePublishes \/ AppliesCmd
              \/ Marks(StoreLoop) \/ Publishes(StoreLoop)

SpaceNext ==
  \/ EngineSteps \/ ControllerSets \/ StoreSteps
  \/ \E g \in Sequences_ : SequenceSets(g) \/ Marks(g) \/ Publishes(g)
  \/ BrokerHandles \/ NodeReports \/ OperatorCommands
  \/ Saves \/ Dies \/ Exits \/ Starts

SpaceSpec == SpaceInit /\ [][SpaceNext]_spaceVars

(* Every goroutine keeps running while the process does.                   *)
FairSpace ==
  /\ SpaceSpec
  /\ WF_spaceVars(EngineSteps) /\ WF_spaceVars(StoreSteps)
  /\ WF_spaceVars(BrokerHandles) /\ WF_spaceVars(Starts)
  /\ \A g \in Sequences_ : WF_spaceVars(Marks(g) \/ Publishes(g))

-----------------------------------------------------------------------------
SpaceTypeOK ==
  /\ StoreTypeOK
  /\ Len(dataIn) <= DataCap /\ Len(cmdIn) <= CmdCap
  /\ \A l \in Links : Len(queue[l]) <= LinkCap
  /\ phase \in {"wait", "compute", "fill", "merge", "control"}
  /\ alive \in {<<>>} \cup [Stored -> Value]

(* When the controllers run, the snapshot holds the computed values the    *)
(* store holds, whatever older copy of them a keepalive has left with the  *)
(* broker: those of this tick's pass or, where an expression failed in it, *)
(* of the last pass in which it did not.                                   *)
SnapshotIsCurrent ==
  phase = "control" => \A c \in Computed : snap[c] = values[c]

(* Whenever the live reader of the sequences gives something else than the *)
(* store holds, the two come to agree again or the process ends: no older  *)
(* copy stays with the broker, whatever publication was dropped or         *)
(* overtaken.                                                              *)
ReaderCatchesUp ==
  \A c \in Stored : (up /\ Get(c) # values[c]) ~> (~up \/ Get(c) = values[c])

(* The live reader is live: with no set and no publication under way, it   *)
(* gives what the store holds.                                             *)
SetsSettled == /\ \A g \in Setters : job[g] = Idle
               /\ dataIn = <<>> /\ alive = <<>>
ReadsWhatWasSet ==
  up /\ SetsSettled => \A c \in Declared : Get(c) = values[c]
=============================================================================
