------------------------------- MODULE DaqWire -------------------------------
(***************************************************************************)
(* The WebSocket between a control node's client and a DAQ node: what a    *)
(* connection delivers.  Each direction delivers a prefix of what was      *)
(* sent, in order; a connection that breaks delivers nothing more of what  *)
(* is sent on it, and either side may find out late.  Connections are      *)
(* numbered in the order they are dialled.                                 *)
(***************************************************************************)
EXTENDS Integers, Sequences

CONSTANT MaxConns       \* bound: connections dialled

ASSUME WireAssumption == MaxConns \in Nat

VARIABLES
  conn,       \* number of the last connection dialled, 0 before the first
  broken,     \* it is closed or dead
  toNode,     \* in flight to the DAQ node
  toControl   \* in flight to the control node

wireVars == <<conn, broken, toNode, toControl>>

WireInit == conn = 0 /\ broken = TRUE /\ toNode = <<>> /\ toControl = <<>>

ConfigReq == [kind |-> "config_req"]
Config == [kind |-> "config"]
StateReq == [kind |-> "state_req"]
AbortTriggered == [kind |-> "abort_triggered"]
SequenceComplete(id) == [kind |-> "sequence_complete", runId |-> id]

(* state_update.  epoch and conn are not on the wire: the entry the run    *)
(* belongs to and the connection it was accepted on, recorded to state     *)
(* properties about them.                                                  *)
StateUpdate(m, id, e) ==
  [kind |-> "state_update", machine |-> m, runId |-> id, epoch |-> e, conn |-> conn]

Carried(pipe, msg) == IF broken THEN pipe ELSE Append(pipe, msg)

(* A read error at either end loses what the connection still held.        *)
LinkBreaks ==
  /\ ~broken
  /\ broken' = TRUE
  /\ UNCHANGED <<conn, toNode, toControl>>
=============================================================================
