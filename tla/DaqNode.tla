------------------------------- MODULE DaqNode -------------------------------
(***************************************************************************)
(* The DAQ node, as the simulator implements it (package daqsim): it       *)
(* accepts the control node's connection, starts a goroutine for every     *)
(* state_update, and reports how each run ended.  A newer state_update     *)
(* supersedes a run by changing the generation the run compares with its   *)
(* own.  A run outlives the connection it was commanded on.                *)
(***************************************************************************)
EXTENDS DaqWire

CONSTANTS
  EntryLength, ExitLength,  \* set-points of an entry and of an exit sequence
  MaxRequests             \* bound: state_req messages

ASSUME NodeAssumption == /\ EntryLength \in Nat /\ ExitLength \in Nat
                         /\ MaxRequests \in Nat

VARIABLES
  nodeAt,     \* handleConn: "none" (no connection), "hello", "config", "serving"
  gen,        \* Simulator.activeGen
  nodeRuns,   \* the live runEntry goroutines
  setBy,      \* generation whose run applied the last set-point
  started,    \* entries [machine, epoch] the node has begun to run
  completed,  \* and those it has run to the end
  requests    \* state_req sent so far

nodeVars == <<nodeAt, gen, nodeRuns, setBy, started, completed, requests>>

NodeInit ==
  /\ nodeAt = "none"
  /\ gen = 0 /\ nodeRuns = {} /\ setBy = 0
  /\ started = {} /\ completed = {} /\ requests = 0

EntryOf(p) == [machine |-> p.machine, epoch |-> p.epoch]

(* send: on the active connection, if there is one.                        *)
Reply(msg) == toControl' = IF nodeAt = "none" THEN toControl ELSE Carried(toControl, msg)

-----------------------------------------------------------------------------
(* handleConn.                                                             *)
Greet ==
  /\ nodeAt = "hello"
  /\ Reply(ConfigReq)
  /\ nodeAt' = "config"
  /\ UNCHANGED <<conn, broken, toNode, gen, nodeRuns, setBy, started, completed, requests>>

Configure ==
  /\ nodeAt = "config" /\ toNode # <<>>
  /\ toNode' = Tail(toNode)
  /\ nodeAt' = "serving"
  /\ UNCHANGED <<conn, broken, toControl, gen, nodeRuns, setBy, started, completed, requests>>

NodeDisconnected ==
  /\ nodeAt # "none" /\ broken
  /\ nodeAt' = "none" /\ toNode' = <<>>
  /\ UNCHANGED <<conn, broken, toControl, gen, nodeRuns, setBy, started, completed, requests>>

RequestState ==
  /\ nodeAt = "serving" /\ requests < MaxRequests
  /\ Reply(StateReq)
  /\ requests' = requests + 1
  /\ UNCHANGED <<conn, broken, toNode, nodeAt, gen, nodeRuns, setBy, started, completed>>

NodeRun(p) == [gen |-> gen + 1, update |-> p, at |-> "head", step |-> 0]

handleStateUpdate ==
  /\ nodeAt = "serving" /\ toNode # <<>>
  /\ toNode' = Tail(toNode)
  /\ gen' = gen + 1
  /\ nodeRuns' = nodeRuns \cup {NodeRun(Head(toNode))}
  /\ started' = started \cup {EntryOf(Head(toNode))}
  /\ UNCHANGED <<conn, broken, toControl, nodeAt, setBy, completed, requests>>

-----------------------------------------------------------------------------
(* runEntry.                                                               *)
NodeRunAt(r, s) == nodeRuns' = (nodeRuns \ {r}) \cup {[r EXCEPT !.at = s]}
NodeRunEnds(r) == nodeRuns' = nodeRuns \ {r}
stillCurrent(r) == r.gen = gen

nodeStable == <<conn, broken, toNode, nodeAt, gen, started, requests>>

EntryHead(r) ==
  /\ r.at = "head"
  /\ IF stillCurrent(r) THEN NodeRunAt(r, "scan") ELSE NodeRunEnds(r)
  /\ UNCHANGED <<nodeStable, toControl, setBy, completed>>

(* One scan: apply the steps that are due, then look at the abort rules.   *)
EntryScan(r) ==
  /\ r.at = "scan"
  /\ \E k \in r.step..EntryLength :
       /\ setBy' = IF k > r.step THEN r.gen ELSE setBy
       /\ \E s \in {"exit", IF k = EntryLength THEN "finish" ELSE "head"} :
            nodeRuns' = (nodeRuns \ {r}) \cup
                        {[r EXCEPT !.at = s, !.step = IF s = "exit" THEN 0 ELSE k]}
  /\ UNCHANGED <<nodeStable, toControl, completed>>

(* The last step is done: only a run still current is reported.            *)
EntryFinish(r) ==
  /\ r.at = "finish"
  /\ IF stillCurrent(r)
     THEN NodeRunAt(r, "complete") /\ completed' = completed \cup {EntryOf(r.update)}
     ELSE NodeRunEnds(r) /\ UNCHANGED completed
  /\ UNCHANGED <<nodeStable, toControl, setBy>>

completeRun(r) ==
  /\ r.at = "complete"
  /\ Reply(SequenceComplete(r.update.runId))
  /\ NodeRunEnds(r)
  /\ UNCHANGED <<nodeStable, setBy, completed>>

(* doAbort: the exit sequence does not look whether the run is current.    *)
ExitStep(r) ==
  /\ r.at = "exit" /\ r.step < ExitLength
  /\ setBy' = r.gen
  /\ nodeRuns' = (nodeRuns \ {r}) \cup {[r EXCEPT !.step = @ + 1]}
  /\ UNCHANGED <<nodeStable, toControl, completed>>

ExitFinish(r) ==
  /\ r.at = "exit" /\ r.step = ExitLength
  /\ IF stillCurrent(r) THEN NodeRunAt(r, "abort") ELSE NodeRunEnds(r)
  /\ UNCHANGED <<nodeStable, toControl, setBy, completed>>

reportAbort(r) ==
  /\ r.at = "abort"
  /\ Reply(AbortTriggered)
  /\ NodeRunEnds(r)
  /\ UNCHANGED <<nodeStable, setBy, completed>>

NodeNext ==
  \/ Greet \/ Configure \/ NodeDisconnected \/ RequestState \/ handleStateUpdate
  \/ \E r \in nodeRuns : \/ EntryHead(r) \/ EntryScan(r) \/ EntryFinish(r)
                         \/ completeRun(r) \/ ExitStep(r) \/ ExitFinish(r)
                         \/ reportAbort(r)
=============================================================================
