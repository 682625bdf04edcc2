---------------------------- MODULE NodeCommands ----------------------------
(***************************************************************************)
(* The way of a command to a DAQ node: the broker's routing, the client's  *)
(* queue, which it registers before it dials and keeps across connections, *)
(* and the write loop of each connection, which ends only when a write     *)
(* fails.  The handshake and the states of a node are in DaqClient.        *)
(***************************************************************************)
EXTENDS BrokerCommands, Naturals, Sequences

CONSTANTS
  Node,
  MaxLinks  \* bound: connections of the node

ASSUME NodeAssumption == Node \in Links /\ MaxLinks \in Nat

VARIABLES
  link,      \* Client.Run: "down", "dialing" or "served"
  linkConn,  \* connections so far
  loops,     \* the connections whose write loop lives
  delivered  \* the commands written to the node

nodeVars == <<cmdVars, link, linkConn, loops, delivered>>

NodeInit ==
  /\ CmdInit({})
  /\ link = "down" /\ linkConn = 0 /\ loops = {} /\ delivered = <<>>

Dials ==
  /\ link = "down" /\ linkConn < MaxLinks
  /\ RegisterDaq(Node, TRUE)
  /\ link' = "dialing" /\ linkConn' = linkConn + 1
  /\ UNCHANGED <<loops, delivered>>

Serves ==
  /\ link = "dialing" /\ link' = "served"
  /\ loops' = loops \cup {linkConn}
  /\ UNCHANGED <<cmdVars, linkConn, delivered>>

(* A dial that fails, or the end of a connection.                          *)
LinkFails ==
  /\ link \in {"dialing", "served"} /\ link' = "down"
  /\ RegisterDaq(Node, FALSE)
  /\ UNCHANGED <<linkConn, loops, delivered>>

Writable(n) == link = "served" /\ n = linkConn

(* Fault: a payload whose write failed goes back to the queue.             *)
RequeuesFailed(n) ==
  /\ n \in loops /\ queue[Node] # <<>>
  /\ IF Writable(n)
     THEN /\ TakeCmd(Node)
          /\ delivered' = Append(delivered, Head(queue[Node])) /\ UNCHANGED loops
     ELSE /\ queue' = [queue EXCEPT ![Node] = Append(Tail(@), Head(@))]
          /\ UNCHANGED <<cmdIn, daqRegIn, registered>>
          /\ loops' = loops \ {n} /\ UNCHANGED delivered
  /\ UNCHANGED <<link, linkConn>>

(* The loop of a dead connection takes a command too, and loses it.        *)
WriteLoop(n) ==
  /\ n \in loops /\ TakeCmd(Node)
  /\ IF Writable(n)
     THEN delivered' = Append(delivered, Head(queue[Node])) /\ UNCHANGED loops
     ELSE loops' = loops \ {n} /\ UNCHANGED delivered
  /\ UNCHANGED <<link, linkConn>>

NodeSteps == \/ Dials \/ Serves \/ LinkFails
             \/ \E n \in 1 .. MaxLinks : WriteLoop(n)
=============================================================================
