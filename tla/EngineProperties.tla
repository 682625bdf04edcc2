-------------------------- MODULE EngineProperties --------------------------
(***************************************************************************)
(* What the engine must guarantee.                                         *)
(***************************************************************************)
EXTENDS Engine

Nodeless(s, m) == Program[m][s].node = NoNode

(* Every transition request somewhere between its issuer and the loop.     *)
ToRange(s) == {s[i] : i \in DOMAIN s}
InHand == {caller[c].req : c \in {d \in Callers : caller[d].at \in {"offer", "append"}}}
Queued == ToRange(prio) \cup ToRange(batch) \cup ToRange(transitions)
Requests == Queued \cup InHand

-----------------------------------------------------------------------------
(* Types.  A request names a state of its machine; a run executes a        *)
(* sequence of its machine and is at a statement of it wherever it is not  *)
(* between statements.                                                     *)

RequestSet ==
  {q \in [machine : Machines, target : States, epoch : Nat] :
     q.target \in StatesOf(q.machine)}
PayloadSet == {NoPayload} \cup [machine : Machines, runId : Nat]
RecordSet == [state : States \cup {NoState}, epoch : Nat, runId : Nat]

AtStatement(r) ==
  /\ r.at # "check" => r.pc \in DOMAIN Block(r)
  /\ r.at \in {"poll", "await"} =>
       /\ Stmt(r).op \in Poking
       /\ Stmt(r).ticks = NoTimeout => r.left = NoTimeout
  /\ r.at = "send" => Moves(Stmt(r))
RunSet ==
  {r \in [machine : Machines, state : States, epoch : Nat \ {0}, pc : Nat,
          at : {"check", "exec", "poll", "await", "send", "signal"},
          left : Int, poked : BOOLEAN, cancelled : BOOLEAN] :
     /\ r.state \in StatesOf(r.machine)
     /\ Nodeless(r.state, r.machine)
     /\ AtStatement(r)}

CallSet == {Idle, [at |-> "signal"]}
             \cup [at : {"offer", "append", "resolve"}, req : RequestSet]
             \cup [at : {"stamp", "hand"}, req : RequestSet, runId : Nat]

MachineTypeOK ==
  /\ cur \in [Machines -> States] /\ \A m \in Machines : cur[m] \in StatesOf(m)
  /\ epoch \in [Machines -> Nat] /\ run \in [Machines -> Nat]
  /\ rec \in [Machines -> RecordSet]
  /\ \A m \in Machines : rec[m].state \in StatesOf(m) \cup {NoState}
  /\ runs \subseteq RunSet
  /\ runId \in Nat /\ pend \in PayloadSet

QueueTypeOK ==
  /\ prio \in Seq(RequestSet) /\ prioSig \in BOOLEAN
  /\ transitions \in Seq(RequestSet) /\ Len(transitions) <= TransitionsCap

LoopTypeOK ==
  /\ loop \in {"start", "select", "drain", "transitions", "controllers", "stopped"}
  /\ back \in {"select", "tick"}
  /\ batch \in Seq(RequestSet)
  /\ at \in Nat \ {0} /\ pc \in Nat
  /\ loop = "start" => at <= Len(Order)

EnvTypeOK ==
  /\ caller \in [Callers -> CallSet]
  /\ handed \in [Machines -> Nat]
  /\ stopping \in BOOLEAN /\ stimuli \in Nat

TypeOK == MachineTypeOK /\ QueueTypeOK /\ LoopTypeOK /\ EnvTypeOK

-----------------------------------------------------------------------------
(* Safety.                                                                 *)

(* At most one sequence of a machine is not cancelled, and it is the one   *)
(* the state the machine is in started: enterState cancels the old run     *)
(* before it starts another.  This does not keep the channels apart: the   *)
(* context is looked at before a statement and not under its write, so a   *)
(* cancelled run still carries out the assignment it had begun, perhaps    *)
(* after its successor's.                                                  *)
OneLiveRun ==
  /\ \A r \in runs : ~r.cancelled => /\ r.epoch = epoch[r.machine]
                                     /\ r.state = cur[r.machine]
  /\ \A r, s \in runs : r.machine = s.machine /\ r.epoch = s.epoch => r = s

Graph == INSTANCE StateGraph

(* An epoch-tagged request that the loop would still honour names a state  *)
(* the current state itself declares as a way out: neither a late sequence *)
(* goroutine nor a late DAQ report can bring a dead state back to life     *)
(* (requestTransition, NotifySequenceCompleteRun, applyTransition).        *)
FreshRequestsBelong ==
  \A q \in Requests :
    /\ q.epoch <= epoch[q.machine]
    /\ q.epoch # 0 /\ ~Stale(q) => Graph!Edge(q.machine, cur[q.machine], q.target)

(* The correlation record describes the state the machine is in or an      *)
(* earlier one, never a later one; and while a payload waits to be handed  *)
(* over it is already armed, so a completion cannot overtake its record.   *)
RecordCorrelates ==
  /\ \A m \in Machines :
       /\ rec[m].epoch <= epoch[m]
       /\ rec[m].epoch = epoch[m] /\ epoch[m] # 0 =>
            /\ rec[m].state = cur[m]
            /\ Def(m).node # NoNode
  /\ pend # NoPayload => /\ rec[pend.machine].epoch = epoch[pend.machine]
                         /\ rec[pend.machine].runId >= pend.runId

(* No two machines' payloads share a run id, armed or handed over: the    *)
(* loop and the report handlers take ids from one atomic counter, and a    *)
(* completion is matched to its machine by its id alone.                   *)
RunIdsUnique ==
  \A m, n \in Machines :
    /\ rec[m].runId <= runId /\ handed[m] <= runId
    /\ m # n /\ rec[m].runId = rec[n].runId => rec[m].runId = 0
    /\ m # n /\ handed[m] = handed[n] => handed[m] = 0

(* A queued priority request is never left without a wake-up: the signal   *)
(* is pending, or its sender is about to signal, or a drain is under way   *)
(* that looks at the slice again (enqueuePriority, drainPriority).         *)
NoLostWakeup ==
  prio # <<>> => \/ prioSig
                 \/ loop = "drain"
                 \/ \E c \in Reporters : caller[c].at = "signal"
                 \/ \E r \in runs : r.at = "signal"

(* Every state entry follows the program's graph: this is the abstract     *)
(* specification of the engine.                                            *)
FollowsGraph == Graph!Spec

-----------------------------------------------------------------------------
(* The inductive invariant that the safety properties follow from.         *)

(* The loop holds the run of the current state; every other is cancelled.  *)
RunFollows(r) ==
  /\ r.epoch <= epoch[r.machine]
  /\ r.epoch = epoch[r.machine] => r.state = cur[r.machine]
  /\ ~r.cancelled => /\ r.epoch = epoch[r.machine]
                     /\ loop # "stopped" => run[r.machine] = r.epoch
RunsInv ==
  /\ \A r \in runs : RunFollows(r)
  /\ \A r, s \in runs : r.machine = s.machine /\ r.epoch = s.epoch => r = s

(* A tagged request is an edge out of the state it was issued in; an       *)
(* untagged one may interrupt any state.                                   *)
Justified(q) ==
  /\ q.epoch <= epoch[q.machine]
  /\ q.epoch # 0 /\ q.epoch = epoch[q.machine] =>
       Graph!Edge(q.machine, cur[q.machine], q.target)
RequestsInv == \A q \in Requests : Justified(q)
InterruptsInv == \A q \in Requests : q.epoch = 0 => Graph!Interrupt(q.machine, q.target)

(* A report handler between reading a state and stamping its record.       *)
Stamping(c) ==
  LET q == caller[c].req IN
  /\ q.epoch <= epoch[q.machine]
  /\ q.epoch = epoch[q.machine] => /\ q.target = cur[q.machine]
                                   /\ Def(q.machine).node # NoNode
  /\ /\ caller[c].at = "stamp" /\ pend # NoPayload
     /\ q.machine = pend.machine /\ q.epoch = epoch[q.machine]
     => pend.runId <= caller[c].runId
RecordInv ==
  /\ RecordCorrelates
  /\ pend # NoPayload => pend.runId <= runId
  /\ \A c \in Callers : caller[c].at \in {"resolve", "stamp"} => Stamping(c)

(* A machine the loop has not entered yet.                                 *)
StartInv ==
  /\ loop = "start" => \A i \in DOMAIN Order : i >= at => epoch[Order[i]] = 0
  /\ \A m \in Machines : epoch[m] = 0 => cur[m] = Initial[m] /\ rec[m].state = NoState

(* The machines' run ids, wherever they are, are at most the counter.      *)
Holders ==
  {[machine |-> m, id |-> rec[m].runId] : m \in Machines}
    \cup {[machine |-> m, id |-> handed[m]] : m \in Machines}
    \cup (IF pend = NoPayload THEN {} ELSE {[machine |-> pend.machine, id |-> pend.runId]})
    \cup {[machine |-> caller[c].req.machine, id |-> caller[c].runId] :
             c \in {d \in Callers : caller[d].at \in {"stamp", "hand"}}}
IdsInv ==
  /\ \A h \in Holders : h.id <= runId
  /\ \A g, h \in Holders : g.id = h.id /\ g.id # 0 => g.machine = h.machine

IInv == /\ TypeOK /\ RunsInv /\ RequestsInv /\ RecordInv
        /\ InterruptsInv /\ StartInv /\ IdsInv /\ NoLostWakeup

=============================================================================
