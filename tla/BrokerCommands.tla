--------------------------- MODULE BrokerCommands ---------------------------
(***************************************************************************)
(* The broker's command side: commands from browsers and from the state    *)
(* machines behind one bounded queue, routed to the queue the owner of the *)
(* channel has registered.                                                 *)
(***************************************************************************)
LOCAL INSTANCE Naturals
LOCAL INSTANCE Sequences

CONSTANTS
  Links,       \* the owners of channels: the DAQ nodes and "_SOFTCHAN"
  NodeOf,      \* refDesMap: the owner of each channel
  RestartCmds, \* the channels whose command ends the process
  CmdCap,      \* capacity of Broker.cmdIn (64 in New)
  LinkCap      \* capacity of an owner's queue (64)

ASSUME CommandAssumption ==
  /\ \A c \in DOMAIN NodeOf : NodeOf[c] \in Links
  /\ CmdCap \in Nat \ {0} /\ LinkCap \in Nat \ {0}

VARIABLES
  cmdIn,       \* Broker.cmdIn
  daqRegIn,    \* Broker.daqRegIn, whose senders block (its capacity is 32)
  registered,  \* the owners in daqCmds
  queue        \* per owner: the channel of commands it receives from

cmdVars == <<cmdIn, daqRegIn, registered, queue>>

CmdInit(links) ==
  /\ cmdIn = <<>> /\ daqRegIn = <<>> /\ registered = links
  /\ queue = [l \in Links |-> <<>>]

Cmd(c, v) == [refDes |-> c, value |-> v]

(* Never blocks; the sender is not told of a command that is dropped.      *)
SendCmd(cmd) ==
  /\ cmdIn' = IF Len(cmdIn) < CmdCap THEN Append(cmdIn, cmd) ELSE cmdIn
  /\ UNCHANGED <<daqRegIn, registered, queue>>

Routable(cmd) == /\ cmd.refDes \in DOMAIN NodeOf
                 /\ NodeOf[cmd.refDes] \in registered
                 /\ Len(queue[NodeOf[cmd.refDes]]) < LinkCap

(* One case of the broker's loop: an unknown channel, an owner that is not *)
(* registered and a full queue all drop the command.                       *)
RouteCmd ==
  /\ cmdIn # <<>> /\ Head(cmdIn).refDes \notin RestartCmds
  /\ cmdIn' = Tail(cmdIn)
  /\ queue' = IF Routable(Head(cmdIn))
              THEN [queue EXCEPT ![NodeOf[Head(cmdIn).refDes]] = Append(@, Head(cmdIn))]
              ELSE queue
  /\ UNCHANGED <<daqRegIn, registered>>

RestartCommanded ==
  /\ cmdIn # <<>> /\ Head(cmdIn).refDes \in RestartCmds

(* RegisterDaq; without a channel it deregisters.                          *)
RegisterDaq(l, on) ==
  /\ daqRegIn' = Append(daqRegIn, [link |-> l, on |-> on])
  /\ UNCHANGED <<cmdIn, registered, queue>>

(* A registration that ends leaves what the queue holds.                   *)
HandleRegistration ==
  /\ daqRegIn # <<>> /\ daqRegIn' = Tail(daqRegIn)
  /\ registered' = IF Head(daqRegIn).on THEN registered \cup {Head(daqRegIn).link}
                   ELSE registered \ {Head(daqRegIn).link}
  /\ UNCHANGED <<cmdIn, queue>>

TakeCmd(l) ==
  /\ queue[l] # <<>> /\ queue' = [queue EXCEPT ![l] = Tail(@)]
  /\ UNCHANGED <<cmdIn, daqRegIn, registered>>
=============================================================================
