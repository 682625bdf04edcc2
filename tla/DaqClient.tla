------------------------------ MODULE DaqClient ------------------------------
(***************************************************************************)
(* The control node's client of one DAQ node (package daqnode): the        *)
(* goroutine that dials, reconnects and decides what a new connection      *)
(* means for a machine that was running on the node; the read loop and the *)
(* write loop it starts for each connection; and SendStateUpdate, called   *)
(* from the engine's loop and from the read loop.  It calls the engine of  *)
(* module Engine, whose report handlers are these goroutines.              *)
(*                                                                         *)
(* Timing assumption: between a disconnect and the next dial (2 s) the     *)
(* read loop of the old connection ends and no goroutine stays inside      *)
(* SendStateUpdate.  A write loop, which blocks on its channels and not on *)
(* the connection, may outlive any number of reconnects.                   *)
(***************************************************************************)
EXTENDS Engine, DaqWire, Functions

CONSTANTS
  Node,            \* Client.refDes
  Linker, Reader,  \* the reporters: the connecting goroutine, the read loop
  EngineLoop,      \* the engine's goroutine, as a caller of SendStateUpdate
  OutCap           \* capacity of outCh (64 in New)

ASSUME ClientAssumption ==
  /\ Node \in Nodes
  /\ Linker \in Reporters /\ Reader \in Reporters /\ Linker # Reader
  /\ EngineLoop \notin Reporters
  /\ OutCap \in Nat \ {0}

VARIABLES
  phase,      \* Run/connect: "down", "hello", "notify", "drain" or "serve"
  connected,  \* Client.connected
  todo,       \* machines the post-connect loop has still to look at
  out,        \* Client.outCh
  writers,    \* the connections that have a live write loop
  failed,     \* errCh of this connection holds an error
  reading,    \* the read loop lives
  handling,   \* the message it handles, and the machines still to tell
  checked,    \* callers of SendStateUpdate between its check and its send
  atConnect,  \* the epochs at the last handshake
  lost        \* state_updates accepted and never written, or dropped loudly

clientVars == <<phase, connected, todo, out, writers, failed, reading, handling,
                checked, atConnect, lost>>

NoMessage == [kind |-> "none"]

ClientInit ==
  /\ phase = "down" /\ connected = FALSE /\ todo = <<>>
  /\ out = <<>> /\ writers = {} /\ failed = FALSE
  /\ reading = FALSE /\ handling = NoMessage
  /\ checked = {} /\ atConnect = epoch /\ lost = {}

(* MachinesForNode is the machines of Order that satisfy OnNode.           *)
OnNode(m) == \E s \in StatesOf(m) : Program[m][s].node = Node
IsRunningOnNode(m) == Def(m).node = Node

Loss(p, how, w) == [update |-> p, how |-> how, on |-> w]

-----------------------------------------------------------------------------
(* SendStateUpdate: refuse if the node is down, else queue without         *)
(* blocking.  Either way the caller has handed its payload over.           *)
Senders == {EngineLoop, Reader}

Payload(s) ==
  IF s = EngineLoop
  THEN StateUpdate(pend.machine, pend.runId, epoch[pend.machine])
  ELSE StateUpdate(caller[Reader].req.machine, caller[Reader].runId,
                   caller[Reader].req.epoch)

Holds(s) == IF s = EngineLoop
            THEN pend # NoPayload /\ Program[pend.machine][cur[pend.machine]].node = Node
            ELSE caller[Reader].at = "hand"
Handed(s) == IF s = EngineLoop THEN HandOver ELSE HandPayload(Reader)

SendCheck(s) ==
  /\ Holds(s) /\ s \notin checked /\ connected
  /\ checked' = checked \cup {s}
  /\ UNCHANGED <<vars, wireVars, phase, connected, todo, out, writers, failed,
                 reading, handling, atConnect, lost>>

SendRefused(s) ==
  /\ Holds(s) /\ s \notin checked /\ ~connected
  /\ Handed(s)
  /\ lost' = lost \cup {Loss(Payload(s), "refused", conn)}
  /\ UNCHANGED <<wireVars, phase, connected, todo, out, writers, failed, reading,
                 handling, checked, atConnect>>

(* Fault: the send does not look at the capacity.                          *)
SendUnbounded(s) ==
  /\ s \in checked
  /\ checked' = checked \ {s}
  /\ Handed(s)
  /\ out' = Append(out, Payload(s))
  /\ UNCHANGED <<wireVars, phase, connected, todo, writers, failed, reading,
                 handling, atConnect, lost>>

SendQueued(s) ==
  /\ s \in checked
  /\ checked' = checked \ {s}
  /\ Handed(s)
  /\ IF Len(out) < OutCap
     THEN out' = Append(out, Payload(s)) /\ UNCHANGED lost
     ELSE lost' = lost \cup {Loss(Payload(s), "full", conn)} /\ UNCHANGED out
  /\ UNCHANGED <<wireVars, phase, connected, todo, writers, failed, reading,
                 handling, atConnect>>

-----------------------------------------------------------------------------
(* Run and connect.                                                        *)

(* The retry delay has passed (the timing assumption).                     *)
Settled == ~reading /\ handling = NoMessage /\ checked = {} /\ caller[Reader] = Idle

(* The wire's side of a dial; the node's is an action of DaqNode's link.   *)
Dial ==
  /\ phase = "down" /\ Settled /\ conn < MaxConns
  /\ conn' = conn + 1 /\ broken' = FALSE
  /\ toNode' = <<>> /\ toControl' = <<>>
  /\ phase' = "hello" /\ failed' = FALSE
  /\ UNCHANGED <<vars, connected, todo, out, writers, reading, handling, checked,
                 atConnect, lost>>

(* The handshake: any message but config_req drops the connection.         *)
HandshakeDone ==
  /\ phase = "hello" /\ toControl # <<>> /\ Head(toControl) = ConfigReq
  /\ toControl' = Tail(toControl)
  /\ toNode' = Carried(toNode, Config)
  /\ phase' = "notify" /\ connected' = TRUE
  /\ todo' = Order
  /\ atConnect' = epoch
  /\ UNCHANGED <<vars, conn, broken, out, writers, failed, reading, handling,
                 checked, lost>>

HandshakeFails ==
  /\ phase = "hello"
  /\ broken \/ (toControl # <<>> /\ Head(toControl) # ConfigReq)
  /\ phase' = "down" /\ broken' = TRUE
  /\ UNCHANGED <<vars, conn, toNode, toControl, connected, todo, out, writers,
                 failed, reading, handling, checked, atConnect, lost>>

postConnectStable ==
  <<wireVars, connected, out, writers, failed, reading, handling, checked,
    atConnect, lost>>

(* handleFirstConnectState and handleReconnectState differ in what they    *)
(* report: both fire the abort destination of a machine that is running.   *)
(* Fault: the first connection takes no action.                            *)
NotifyLaterOnly ==
  /\ phase = "notify" /\ caller[Linker] = Idle
  /\ IF todo = <<>>
     THEN phase' = "drain" /\ UNCHANGED <<vars, todo>>
     ELSE /\ todo' = Tail(todo)
          /\ UNCHANGED phase
          /\ IF conn > 1 /\ IsRunningOnNode(Head(todo)) /\ Def(Head(todo)).abortTo # NoState
             THEN NotifyUncertain(Linker, Head(todo), Node)
             ELSE UNCHANGED vars
  /\ UNCHANGED postConnectStable

(* Fault: no connection takes any action.                                  *)
NotifyNever ==
  /\ phase = "notify"
  /\ phase' = "drain" /\ todo' = <<>>
  /\ UNCHANGED <<vars, postConnectStable>>

NotifyMachines ==
  /\ phase = "notify" /\ caller[Linker] = Idle
  /\ IF todo = <<>>
     THEN phase' = "drain" /\ UNCHANGED <<vars, todo>>
     ELSE /\ todo' = Tail(todo)
          /\ UNCHANGED phase
          /\ IF IsRunningOnNode(Head(todo)) /\ Def(Head(todo)).abortTo # NoState
             THEN NotifyUncertain(Linker, Head(todo), Node)
             ELSE UNCHANGED vars
  /\ UNCHANGED postConnectStable

(* The drain of outCh, one receive at a time; then the loops are started.  *)
DrainOne ==
  /\ phase = "drain" /\ out # <<>>
  /\ out' = Tail(out)
  /\ lost' = lost \cup {Loss(Head(out), "drained", conn)}
  /\ UNCHANGED <<vars, wireVars, phase, connected, todo, writers, failed, reading,
                 handling, checked, atConnect>>

(* Fault: what is queued is kept.                                          *)
ServeUndrained ==
  /\ phase = "drain"
  /\ phase' = "serve" /\ reading' = TRUE /\ writers' = writers \cup {conn}
  /\ UNCHANGED <<vars, wireVars, connected, todo, out, failed, handling, checked,
                 atConnect, lost>>

Serve ==
  /\ phase = "drain" /\ out = <<>>
  /\ phase' = "serve" /\ reading' = TRUE /\ writers' = writers \cup {conn}
  /\ UNCHANGED <<vars, wireVars, connected, todo, out, failed, handling, checked,
                 atConnect, lost>>

Disconnect ==
  /\ phase = "serve" /\ failed
  /\ phase' = "down" /\ connected' = FALSE /\ broken' = TRUE
  /\ UNCHANGED <<vars, conn, toNode, toControl, todo, out, writers, failed, reading,
                 handling, checked, atConnect, lost>>

-----------------------------------------------------------------------------
(* writeLoop, one per connection: it ends on a write error only.           *)
Write(w) ==
  /\ w \in writers /\ out # <<>>
  /\ out' = Tail(out)
  /\ \/ /\ w = conn /\ ~broken
        /\ toNode' = Append(toNode, Head(out))
        /\ UNCHANGED <<writers, failed, lost>>
     \/ /\ w = conn /\ broken         \* buffered by a dead socket, or refused
        /\ lost' = lost \cup {Loss(Head(out), "broken", w)}
        /\ \/ phase = "serve" /\ UNCHANGED <<writers, failed>>
           \/ writers' = writers \ {w} /\ failed' = TRUE
        /\ UNCHANGED toNode
     \/ /\ w # conn                   \* the connection it writes to is closed
        /\ lost' = lost \cup {Loss(Head(out), "stolen", w)}
        /\ writers' = writers \ {w}
        /\ UNCHANGED <<toNode, failed>>
  /\ UNCHANGED <<vars, conn, broken, toControl, phase, connected, todo, reading,
                 handling, checked, atConnect>>

-----------------------------------------------------------------------------
(* readLoop and the handlers it calls.                                     *)
Read ==
  /\ reading /\ handling = NoMessage /\ toControl # <<>>
  /\ toControl' = Tail(toControl)
  /\ handling' = [msg |-> Head(toControl), left |-> Order]
  /\ UNCHANGED <<vars, conn, broken, toNode, phase, connected, todo, out, writers,
                 failed, reading, checked, atConnect, lost>>

ReadError ==
  /\ reading /\ handling = NoMessage /\ broken
  /\ reading' = FALSE /\ failed' = TRUE
  /\ UNCHANGED <<vars, wireVars, phase, connected, todo, out, writers, handling,
                 checked, atConnect, lost>>

(* What the message asks of a machine, and whether the engine takes it.    *)
Tell(m, msg) ==
  \/ msg.kind = "sequence_complete" /\ NotifySequenceComplete(Reader, m, msg.runId)
  \/ msg.kind = "abort_triggered" /\ NotifyAbortTriggered(Reader, m)
  \/ msg.kind = "state_req" /\ CurrentDaqPayload(Reader, m, Node)

Taken(m, msg) ==
  /\ OnNode(m)
  /\ \/ msg.kind = "sequence_complete" /\ Correlates(m, msg.runId)
     \/ msg.kind = "abort_triggered" /\ ArmedAbort(m) # NoState
     \/ msg.kind = "state_req" /\ IsRunningOnNode(m)

Handle ==
  /\ handling # NoMessage /\ caller[Reader] = Idle
  /\ IF handling.left = <<>>
     THEN handling' = NoMessage /\ UNCHANGED vars
     ELSE /\ handling' = [handling EXCEPT !.left = Tail(@)]
          /\ IF Taken(Head(handling.left), handling.msg)
             THEN Tell(Head(handling.left), handling.msg)
             ELSE UNCHANGED vars
  /\ UNCHANGED <<wireVars, phase, connected, todo, out, writers, failed, reading,
                 checked, atConnect, lost>>

ClientNext ==
  \/ \E s \in Senders : SendCheck(s) \/ SendRefused(s) \/ SendQueued(s)
  \/ HandshakeDone \/ HandshakeFails \/ NotifyMachines \/ DrainOne \/ Serve
  \/ Disconnect
  \/ \E w \in writers : Write(w)
  \/ Read \/ ReadError \/ Handle
=============================================================================
