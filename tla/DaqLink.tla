------------------------------- MODULE DaqLink -------------------------------
(***************************************************************************)
(* The engine, its client of one DAQ node, the connection and the node,    *)
(* composed: what becomes of a daq_local state when the link drops, comes  *)
(* back late, or carries reports that cross a transition.                  *)
(***************************************************************************)
EXTENDS DaqClient, DaqNode

linkVars == <<vars, wireVars, clientVars, nodeVars>>

LinkInit == Init /\ WireInit /\ ClientInit /\ NodeInit

(* The engine on its own: all it does but handing a payload over, which is *)
(* a call of SendStateUpdate.                                              *)
EngineStep ==
  /\ \/ Loop /\ ~Holds(EngineLoop)
     \/ \E r \in runs : Run(r)
     \/ \E c \in Consoles : Console(c)
     \/ \E c \in {Linker, Reader} : AppendPriority(c) \/ SignalPriority(c)
     \/ ResolvePayload(Reader) \/ StampPayload(Reader)
     \/ Shutdown
  /\ UNCHANGED <<wireVars, clientVars, nodeVars>>

(* The node's handleConn takes the new connection as its active one.       *)
Connect ==
  /\ Dial
  /\ nodeAt' = "hello"
  /\ UNCHANGED <<gen, nodeRuns, setBy, started, completed, requests>>

LinkNext ==
  \/ EngineStep
  \/ Connect
  \/ ClientNext /\ UNCHANGED nodeVars
  \/ NodeNext /\ UNCHANGED <<vars, clientVars>>
  \/ LinkBreaks /\ UNCHANGED <<vars, clientVars, nodeVars>>

LinkSpec == LinkInit /\ [][LinkNext]_linkVars

-----------------------------------------------------------------------------
Updates(s) == {m \in Range(s) : m.kind = "state_update"}
Running(m) == loop # "start" /\ IsRunningOnNode(m)
Current(m) == [machine |-> m, epoch |-> epoch[m]]

(* A request that will move m whatever it does meanwhile.                  *)
AbortPending(m) ==
  \/ \E q \in Range(prio) \cup Range(batch) : q.machine = m /\ q.epoch = 0
  \/ \E c \in Reporters : /\ caller[c].at = "append"
                          /\ caller[c].req.machine = m /\ caller[c].req.epoch = 0

(* Types.  The phases of a connection that is up, the frames each way, and  *)
(* the goroutines of the node.                                             *)
Up == {"notify", "drain", "serve"}
StateUpdates == [kind : {"state_update"}, machine : Machines, runId : Nat,
                 epoch : Nat, conn : Nat]
Reports == {StateReq, AbortTriggered} \cup [kind : {"sequence_complete"}, runId : Nat]
Exiting == {"exit", "abort"}
NodeRunSet ==
  {r \in [gen : 1..gen, update : StateUpdates, step : Nat,
          at : {"head", "scan", "finish", "complete"} \cup Exiting] :
     r.step <= IF r.at \in Exiting THEN ExitLength ELSE EntryLength}

WireTypeOK ==
  /\ conn \in 0..MaxConns /\ broken \in BOOLEAN
  /\ toNode \in Seq({Config} \cup StateUpdates)
  /\ toControl \in Seq({ConfigReq} \cup Reports)

ClientTypeOK ==
  /\ phase \in {"down", "hello"} \cup Up
  /\ connected \in BOOLEAN /\ (connected <=> phase \in Up)
  /\ todo \in Seq(Machines)
  /\ out \in Seq(StateUpdates) /\ Len(out) <= OutCap
  /\ writers \subseteq 1..conn
  /\ failed \in BOOLEAN /\ reading \in BOOLEAN
  /\ handling = NoMessage \/ handling \in [msg : Reports, left : Seq(Machines)]
  /\ checked \subseteq Senders
  /\ atConnect \in [Machines -> Nat]

NodeTypeOK ==
  /\ nodeAt \in {"none", "hello", "config", "serving"}
  /\ gen \in Nat /\ setBy \in 0..gen
  /\ nodeRuns \subseteq NodeRunSet
  /\ requests \in 0..MaxRequests

LinkTypeOK == WireTypeOK /\ ClientTypeOK /\ NodeTypeOK

(* A state_update goes to the node on the connection it was accepted on:   *)
(* what a drop leaves in outCh never starts a sequence on the next         *)
(* connection (connect's drain).                                           *)
NeverForwardsLeftover == \A p \in Updates(toNode) : p.conn = conn

(* A machine that was in a daq_local state when the link came up is being  *)
(* sent to the state's abort destination before the first message of the   *)
(* connection is read or written (handleReconnectState,                    *)
(* handleFirstConnectState).                                               *)
UncertainIsAborted ==
  \A m \in Machines :
    (phase = "serve" /\ Running(m) /\ epoch[m] = atConnect[m] /\ Def(m).abortTo # NoState)
      => AbortPending(m)

(* A completion the engine would still honour is of an entry the node ran  *)
(* to the end: reports of superseded, aborted or earlier runs, and of the  *)
(* other machines on the node, never complete a state.                     *)
CompletionTruthful ==
  \A q \in Range(prio) \cup Range(batch) :
    (q.epoch # 0 /\ q.epoch = epoch[q.machine])
      => [machine |-> q.machine, epoch |-> q.epoch] \in completed

(* While the link is up, a machine in a daq_local state whose payload was  *)
(* resolved is accounted for: its payload is on its way, the node has      *)
(* begun it, an abort is on its way, or the payload is one of those in     *)
(* lost, whose causes the runs that follow tell apart.  Not covered is a   *)
(* machine that was in the state when the link came up and whose state has *)
(* no abort destination: nothing can be done for it but report it.         *)
Tracked(m) ==
  \/ Current(m) \in started
  \/ pend # NoPayload /\ pend.machine = m
  \/ /\ caller[Reader].at = "hand"
     /\ caller[Reader].req.machine = m /\ caller[Reader].req.epoch = epoch[m]
  \/ \E p \in Updates(out) \cup Updates(toNode) : EntryOf(p) = Current(m)
  \/ \E l \in lost : EntryOf(l.update) = Current(m) /\ l.on = conn /\ l.how # "refused"
  \/ \E l \in lost : EntryOf(l.update) = Current(m) /\ l.how = "stolen"

Accounted ==
  \A m \in Machines :
    (phase = "serve" /\ ~broken /\ Running(m) /\ rec[m].epoch = epoch[m]) =>
      \/ AbortPending(m)
      \/ Tracked(m)
      \/ epoch[m] = atConnect[m] /\ Def(m).abortTo = NoState

(* A payload is in one place only: in the hands of the engine's loop or of *)
(* a report handler, in the client's queue, on the wire, or run by the     *)
(* node.  So no run id is begun twice, whatever is refused, drained, taken *)
(* by the write loop of a dead connection, or sent to answer a state_req.  *)
Handlers == {c \in Callers : caller[c].at \in {"stamp", "hand"}}
PendIds == IF pend = NoPayload THEN {} ELSE {pend.runId}
HandIds == {caller[c].runId : c \in Handlers}
IdsIn(s) == {p.runId : p \in Updates(s)}
IdsAtNode == {r.update.runId : r \in nodeRuns}
HeldIds == PendIds \cup HandIds
SentIds == IdsIn(out) \cup IdsIn(toNode) \cup IdsAtNode

Once(s) ==
  \A i, j \in DOMAIN s :
    (s[i].kind = "state_update" /\ s[j].kind = "state_update" /\ s[i].runId = s[j].runId)
      => i = j
HeldOnce ==
  /\ \A c, d \in Handlers : caller[c].runId = caller[d].runId => c = d
  /\ PendIds \cap HandIds = {}
SentOnce ==
  /\ Once(out) /\ Once(toNode)
  /\ \A r, q \in nodeRuns : r.update.runId = q.update.runId => r = q
  /\ IdsIn(out) \cap IdsIn(toNode) = {}
  /\ IdsAtNode \cap (IdsIn(out) \cup IdsIn(toNode)) = {}
InOnePlace == HeldOnce /\ SentOnce /\ HeldIds \cap SentIds = {}

-----------------------------------------------------------------------------
(* The inductive invariants that these follow from.                        *)

(* One config_req a connection, answered before anything else is read; and *)
(* no connection is up before it was.                                      *)
HandshakeInv ==
  /\ phase = "down" \/ nodeAt = "none" => broken
  /\ phase # "down" => conn # 0
  /\ phase = "hello" => nodeAt # "serving"
  /\ phase \in Up => nodeAt # "hello"
  /\ phase \in {"hello", "notify", "drain"} => ~reading
  /\ \A i \in DOMAIN toControl : toControl[i] = ConfigReq =>
       /\ nodeAt # "hello" /\ phase \in {"down", "hello"} /\ ~reading
       /\ \A j \in DOMAIN toControl : toControl[j] = ConfigReq => i = j

(* The configuration is the first frame to the node, and the only one that *)
(* is not a state_update.                                                  *)
ConfigInv ==
  /\ phase = "hello" \/ nodeAt \in {"none", "hello"} => toNode = <<>>
  /\ nodeAt = "config" /\ connected /\ ~broken => toNode # <<>>
  /\ nodeAt = "config" /\ toNode # <<>> => /\ Head(toNode) = Config
                                           /\ Tail(toNode) \in Seq(StateUpdates)
  /\ nodeAt = "serving" => toNode \in Seq(StateUpdates)

(* A machine the post-connect loop has passed is being aborted, or was not *)
(* running, or has moved since.                                            *)
Uncertain(m) == Def(m).node = Node /\ epoch[m] = atConnect[m] /\ Def(m).abortTo # NoState
UncertainInv ==
  /\ \A m \in Machines : atConnect[m] <= epoch[m]
  /\ phase \in {"drain", "serve"} => todo = <<>>
  /\ phase \in Up => \A m \in Machines \ Range(todo) : Uncertain(m) => AbortPending(m)

(* A payload wherever it is, from the run id it was given to the node's    *)
(* run: the entry it is of goes with the id.                               *)
Ticket(id, m, e) == [id |-> id, machine |-> m, epoch |-> e]
Payloads == Updates(out) \cup Updates(toNode) \cup {r.update : r \in nodeRuns}
EngineTickets ==
  {Ticket(rec[m].runId, m, rec[m].epoch) : m \in {n \in Machines : rec[n].runId # 0}}
  \cup (IF pend = NoPayload THEN {}
        ELSE {Ticket(pend.runId, pend.machine, epoch[pend.machine])})
  \cup {Ticket(caller[c].runId, caller[c].req.machine, caller[c].req.epoch) :
           c \in {d \in Callers : caller[d].at \in {"stamp", "hand"}}}
Tickets == EngineTickets \cup {Ticket(p.runId, p.machine, p.epoch) : p \in Payloads}
TicketsInv ==
  /\ \A t \in Tickets : t.id \in 1..runId
  /\ \A s, t \in Tickets : s.id = t.id => s = t

(* A completion, from the node's run to the request it makes: of an entry  *)
(* run to the end, and no payload bears its id for another.                *)
Reported == Range(toControl) \cup (IF handling = NoMessage THEN {} ELSE {handling.msg})
Truthful(id) ==
  /\ id \in 1..runId
  /\ \E e \in completed : \A t \in Tickets :
       t.id = id => e = [machine |-> t.machine, epoch |-> t.epoch]
Reporting == Range(prio) \cup Range(batch) \cup
             {caller[c].req : c \in {d \in Callers : caller[d].at = "append"}}
ReportsInv ==
  /\ \A r \in nodeRuns : r.at = "complete" => EntryOf(r.update) \in completed
  /\ \A x \in Reported : x.kind = "sequence_complete" => Truthful(x.runId)
  /\ \A q \in Reporting :
       q.epoch # 0 => [machine |-> q.machine, epoch |-> q.epoch] \in completed

(* A machine that entered its state since the link came up is tracked.     *)
AccountedInv ==
  \A m \in Machines :
    (phase \in Up /\ ~broken /\ Def(m).node = Node
       /\ rec[m].epoch = epoch[m] /\ epoch[m] # atConnect[m]) => Tracked(m)

-----------------------------------------------------------------------------
(* What the documents and comments say, and the code does not do.          *)

(* Draining outCh discards only what an earlier connection left.           *)
DrainsOnlyLeftovers ==
  \A l \in lost : l.how = "drained" => l.update.conn < l.on
=============================================================================
