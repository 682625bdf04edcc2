------------------------ MODULE EngineRequestProofs ------------------------
(***************************************************************************)
(* Requests, the correlation record, the refinement of StateGraph, the     *)
(* wake-ups and the run ids, for every program and every number of         *)
(* goroutines.  Two facts about a step carry the first three: why a state  *)
(* is entered (Entry) and why a request is issued (Issue).                 *)
(***************************************************************************)
EXTENDS EngineProofs

(* Why a step may enter state s of machine m.                              *)
Why(m, s) ==
  \/ loop = "start" /\ at \in DOMAIN Order /\ m = Order[at] /\ s = Initial[m]
  \/ \E q \in Requests : q.machine = m /\ q.target = s /\ ~Stale(q)
  \/ s \in TargetsOf(Def(m).controller)
Entry == \E m \in Machines : \E s \in StatesOf(m) :
           /\ enterState(m, s) /\ Why(m, s)
           /\ pend = NoPayload /\ UNCHANGED envVars

(* A step that touches nothing the record and the run ids depend on.       *)
Quiet == UNCHANGED <<cur, epoch, rec, runId, pend, caller, handed>>

(* Why a step may issue request x.                                         *)
Commanded(x, block) ==
  \E i \in DOMAIN block : block[i].op = "command" /\ x = Command(block[i])
Asked(x) ==
  \E m \in Machines :
    \/ \E t \in StatesOf(m) : x = Request(m, t, 0) /\ Program[m][t].operator
    \/ \E s \in StatesOf(m) : x = Request(m, Program[m][s].abortTo, 0)
    \/ Commanded(x, Def(m).controller)
Completed(x) ==
  \E m \in Machines :
    /\ x = Request(m, Def(m).doneTo, epoch[m])
    /\ rec[m].state = cur[m] /\ rec[m].epoch = epoch[m]
Sent(x) ==
  \E r \in runs : \/ Commanded(x, Block(r))
                  \/ /\ x = Request(r.machine, Stmt(r).to, r.epoch)
                     /\ r.pc \in DOMAIN Block(r) /\ Moves(Stmt(r))
Issued(x) == Asked(x) \/ Completed(x) \/ Sent(x)
Issue == \E x \in RequestSet : /\ Requests' \subseteq Requests \cup {x} /\ Issued(x)
                               /\ UNCHANGED <<cur, epoch>>

LEMMA RequestsTyped ==
  ASSUME TypeOK
  PROVE  Requests \subseteq RequestSet
<1>1. ToRange(prio) \subseteq RequestSet
  BY RangeOf DEF TypeOK, QueueTypeOK
<1>2. ToRange(batch) \subseteq RequestSet
  BY RangeOf DEF TypeOK, LoopTypeOK
<1>3. ToRange(transitions) \subseteq RequestSet
  BY RangeOf DEF TypeOK, QueueTypeOK
<1>4. InHand \subseteq RequestSet
  BY CallType DEF TypeOK, EnvTypeOK, InHand
<1> QED  BY <1>1, <1>2, <1>3, <1>4 DEF Requests, Queued

LEMMA RequestsTypedNext == (TypeOK => Requests \subseteq RequestSet)'
<1>1. TypeOK => Requests \subseteq RequestSet
  BY RequestsTyped
<1> QED  BY <1>1, PTL

(* The graph's operators are this module's.                                *)
LEMMA GraphEdge ==
  ASSUME NEW m, NEW s, NEW t
  PROVE  Graph!Edge(m, s, t) <=>
           \/ t \in TargetsOf(Program[m][s].controller)
           \/ t \in TargetsOf(Program[m][s].sequence) /\ Program[m][s].node = NoNode
           \/ t = Program[m][s].doneTo /\ Program[m][s].node # NoNode
<1>1. \A block : Graph!TargetsOf(block) = TargetsOf(block)
  BY DEF TargetsOf, Moves, NoTimeout, Graph!TargetsOf, Graph!Moves, Graph!NoTimeout
<1> QED  BY <1>1 DEF Graph!Edge

LEMMA GraphInterrupt ==
  ASSUME NEW m, NEW t
  PROVE  Graph!Interrupt(m, t) <=>
           \/ Program[m][t].operator
           \/ \E s \in StatesOf(m) : t = Program[m][s].abortTo
           \/ \E n \in Machines \ {m} : \E s \in StatesOf(n) :
                \/ t \in CommandsOf(Program[n][s].controller, m)
                \/ t \in CommandsOf(Program[n][s].sequence, m)
BY DEF Graph!Interrupt, StatesOf, Graph!StatesOf, CommandsOf, Graph!CommandsOf

LEMMA RangeEmpty == ToRange(<<>>) = {}
<1> DEFINE Empty == <<>>
<1>1. DOMAIN Empty = {}
  OBVIOUS
<1> QED  BY <1>1 DEF ToRange

(* One loop step.                                                          *)
LEMMA LoopSteps ==
  ASSUME TypeOK, Loop
  PROVE  /\ Entry \/ HandOver \/ Quiet
         /\ Requests' \subseteq Requests \/ Issue
<1>t. /\ prio \in Seq(RequestSet) /\ transitions \in Seq(RequestSet)
      /\ batch \in Seq(RequestSet) /\ at \in Nat \ {0} /\ (loop = "start" => at <= Len(Order))
      /\ \A m \in Machines : cur[m] \in StatesOf(m) /\ epoch[m] \in Nat
  BY DEF TypeOK, MachineTypeOK, QueueTypeOK, LoopTypeOK
<1>k. UNCHANGED <<prio, batch, transitions, caller>> => Requests' = Requests
  BY DEF Requests, Queued, InHand
<1>1. CASE HandOver \/ SelectPriority \/ DrainDone \/ DrainTransitionsDone \/ SelectTick
           \/ SelectDone \/ ControllerAssign \/ ControllerIf \/ ControllerDone \/ PokeRuns
  <2>1. UNCHANGED <<prio, batch, transitions, caller>> /\ (HandOver \/ Quiet)
    BY <1>1 DEF Quiet, HandOver, SelectPriority, DrainDone, DrainTransitionsDone, SelectTick,
       SelectDone, ControllerAssign, ControllerIf, ControllerDone, PokeRuns,
       machineVars, queueVars, loopVars, envVars
  <2> QED  BY <1>k, <2>1
<1>2. CASE TakeBatch
  <2>1. Quiet /\ UNCHANGED <<transitions, caller>> /\ batch' = prio /\ prio' = <<>>
    BY <1>2 DEF Quiet, TakeBatch, machineVars, envVars
  <2> QED  BY <2>1, RangeEmpty DEF Requests, Queued, InHand
<1>3. CASE Start
  <2>1. at \in DOMAIN Order /\ Order[at] \in Machines /\ Initial[Order[at]] \in StatesOf(Order[at])
    BY <1>t, <1>3, EngineAssumption, ProgramAssumption DEF ProgramOK, Start, LoopAt
  <2>2. Entry
    BY <1>3, <2>1 DEF Start, LoopAt, Entry, Why
  <2> QED  BY <1>3, <1>k, <2>2 DEF Start, queueVars, envVars
<1>a. ASSUME NEW q \in Requests, q \in RequestSet, applyTransition(q), pend = NoPayload,
             UNCHANGED envVars
      PROVE  Entry \/ Quiet
  BY <1>a, ApplyEnters DEF Entry, Why, Quiet, machineVars, envVars
<1>4. CASE SelectTransition \/ DrainTransition
  <2>1. /\ transitions # <<>> /\ transitions' = Tail(transitions) /\ pend = NoPayload
        /\ applyTransition(Head(transitions)) /\ UNCHANGED <<prio, batch, caller, envVars>>
    BY <1>4 DEF SelectTransition, DrainTransition, LoopAt, loopVars, envVars
  <2>2. /\ Head(transitions) \in RequestSet /\ Head(transitions) \in ToRange(transitions)
        /\ ToRange(transitions') \subseteq ToRange(transitions)
    BY <1>t, <2>1, RangeTail
  <2> QED  BY <2>1, <2>2, <1>a DEF Requests, Queued, InHand
<1>5. CASE ApplyBatch
  <2>1. /\ batch # <<>> /\ batch' = Tail(batch) /\ pend = NoPayload
        /\ applyTransition(Head(batch)) /\ UNCHANGED <<prio, transitions, caller, envVars>>
    BY <1>5 DEF ApplyBatch, LoopAt, queueVars, envVars
  <2>2. /\ Head(batch) \in RequestSet /\ Head(batch) \in ToRange(batch)
        /\ ToRange(batch') \subseteq ToRange(batch)
    BY <1>t, <2>1, RangeTail
  <2> QED  BY <2>1, <2>2, <1>a DEF Requests, Queued, InHand
<1>c. ASSUME ControllerCommand \/ ControllerTransition
      PROVE  /\ at \in DOMAIN Order /\ Order[at] \in Machines
             /\ cur[Order[at]] \in StatesOf(Order[at]) /\ epoch[Order[at]] \in Nat
             /\ pc \in DOMAIN ControllerStmts /\ ControllerStmts = Def(Order[at]).controller
             /\ ControllerStmts \in Seq(Stmts) /\ BlockOK(Order[at], ControllerStmts)
  <2>1. at \in DOMAIN Order /\ Order[at] \in Machines
    BY <1>c, <1>t, EngineAssumption
       DEF ControllerCommand, ControllerTransition, AtStmt, InController
  <2> QED  BY <1>c, <1>t, <2>1, DefType
           DEF ControllerCommand, ControllerTransition, AtStmt, ControllerStmts, Def
<1>6. CASE ControllerCommand
  <2> DEFINE x == Command(ControllerStmts[pc])
  <2>1. /\ ControllerStmts[pc].op = "command" /\ prio' = Append(prio, x)
        /\ UNCHANGED <<cur, epoch, batch, transitions, caller>> /\ Quiet
    BY <1>6 DEF Quiet, ControllerCommand, AtStmt, enqueuePriority, machineVars, envVars
  <2>2. x \in RequestSet
    BY <1>c, <1>6, <2>1, CommandType
  <2>3. ToRange(prio') = ToRange(prio) \cup {x}
    BY <1>t, <2>1, <2>2, RangeAppend
  <2>4. Requests' \subseteq Requests \cup {x}
    BY <2>1, <2>3 DEF Requests, Queued, InHand
  <2>5. Asked(x)
    BY <1>c, <1>6, <2>1 DEF Asked, Commanded
  <2> QED  BY <2>1, <2>2, <2>4, <2>5 DEF Issue, Issued
<1>7. CASE ControllerTransition
  <2>1. /\ ControllerStmts[pc].op = "transition" /\ enterState(Order[at], ControllerStmts[pc].to)
        /\ UNCHANGED <<prio, batch, transitions, caller, envVars>> /\ pend = NoPayload
    BY <1>7 DEF ControllerTransition, AtStmt, InController, LoopAt, queueVars, envVars
  <2>2. /\ ControllerStmts[pc].to \in StatesOf(Order[at])
        /\ ControllerStmts[pc].to \in TargetsOf(Def(Order[at]).controller)
    BY <1>c, <1>7, <2>1, StmtType DEF Moves, TargetsOf
  <2> QED  BY <1>c, <1>7, <1>k, <2>1, <2>2 DEF Entry, Why
<1> QED  BY <1>1, <1>2, <1>3, <1>4, <1>5, <1>6, <1>7 DEF Loop

(* One step of a sequence goroutine, or of a caller: nothing is entered.   *)
LEMMA RunSteps ==
  ASSUME TypeOK, NEW r \in runs, Run(r)
  PROVE  Quiet /\ (Requests' \subseteq Requests \/ Issue)
<1>r. r \in RunSet
  BY DEF TypeOK, MachineTypeOK
<1>t. prio \in Seq(RequestSet) /\ transitions \in Seq(RequestSet)
  BY DEF TypeOK, QueueTypeOK
<1>u. Quiet /\ UNCHANGED <<cur, epoch, batch, caller>>
  BY DEF Quiet, Run, RunEnd, RunFetch, RunError, RunAssign, RunIf, RunCommand, RunSignal, RunPoll,
     RunAwait, RunSend, runStable, loopVars
<1>1. CASE UNCHANGED <<prio, transitions>>
  BY <1>1, <1>u DEF Requests, Queued, InHand
<1>2. CASE RunCommand(r)
  <2> DEFINE x == Command(Stmt(r))
  <2>1. /\ r.pc \in DOMAIN Block(r) /\ Block(r)[r.pc].op = "command"
        /\ prio' = Append(prio, x) /\ UNCHANGED transitions
    BY <1>2 DEF RunCommand, AtRunStmt, Stmt
  <2>2. x \in RequestSet
    BY <1>r, <2>1, RunType, CommandType DEF Stmt
  <2>3. ToRange(prio') = ToRange(prio) \cup {x}
    BY <1>t, <2>1, <2>2, RangeAppend
  <2>4. Requests' \subseteq Requests \cup {x}
    BY <1>u, <2>1, <2>3 DEF Requests, Queued, InHand
  <2>5. Sent(x)
    BY <2>1 DEF Sent, Commanded, Stmt
  <2> QED  BY <1>u, <2>2, <2>4, <2>5 DEF Issue, Issued
<1>3. CASE /\ r.at = "send" /\ UNCHANGED prio
           /\ transitions' = Append(transitions, Request(r.machine, Stmt(r).to, r.epoch))
  <2> DEFINE x == Request(r.machine, Stmt(r).to, r.epoch)
  <2>1. /\ r.pc \in DOMAIN Block(r) /\ Moves(Stmt(r)) /\ Stmt(r).to \in StatesOf(r.machine)
        /\ r.machine \in Machines /\ r.epoch \in Nat
    BY <1>r, <1>3, RunType, StmtType DEF RunSet, AtStatement, Stmt
  <2>2. x \in RequestSet
    BY <2>1, RequestType
  <2>3. ToRange(transitions') = ToRange(transitions) \cup {x}
    BY <1>t, <1>3, <2>2, RangeAppend
  <2>4. Requests' \subseteq Requests \cup {x}
    BY <1>u, <1>3, <2>3 DEF Requests, Queued, InHand
  <2>5. Sent(x)
    BY <2>1 DEF Sent
  <2> QED  BY <1>u, <2>2, <2>4, <2>5 DEF Issue, Issued
<1> QED  BY <1>u, <1>1, <1>2, <1>3 DEF Run, RunEnd, RunFetch, RunError, RunAssign, RunIf,
            RunSignal, RunPoll, RunAwait, RunSend, queueVars

LEMMA CallSteps ==
  ASSUME TypeOK, NEW c \in Callers, Console(c) \/ Reporter(c)
  PROVE  /\ UNCHANGED <<cur, epoch>>
         /\ Requests' \subseteq Requests \/ Issue
<1>c. caller \in [Callers -> CallSet] /\ caller[c] \in CallSet
  BY DEF TypeOK, EnvTypeOK
<1>t. /\ prio \in Seq(RequestSet) /\ transitions \in Seq(RequestSet)
      /\ \A m \in Machines : /\ cur[m] \in StatesOf(m) /\ epoch[m] \in Nat
                             /\ rec[m].state \in StatesOf(m) \cup {NoState}
  BY DEF TypeOK, QueueTypeOK, MachineTypeOK
<1>u. UNCHANGED <<cur, epoch, batch>>
  BY DEF Console, Reporter, RequestTarget, Begins, OfferTransition,
     NotifyAbortTriggered, NotifySequenceComplete, NotifyUncertain, CurrentDaqPayload,
     AppendPriority, SignalPriority, ResolvePayload, StampPayload, HandPayload,
     callerStable, loopVars
<1>m. ASSUME NEW m \in Machines, NEW s \in StatesOf(m)
      PROVE  Program[m][s].abortTo \in StatesOf(m) \cup {NoState}
             /\ Program[m][s].doneTo \in StatesOf(m) \cup {NoState}
  BY DefType
<1>1. ASSUME NEW q \in RequestSet, NEW a \in {"offer", "append", "resolve"},
             Begins(c, [at |-> a, req |-> q]), a = "resolve" \/ Issued(q)
      PROVE  Requests' \subseteq Requests \/ Issue
  <2>1. caller' = [caller EXCEPT ![c] = [at |-> a, req |-> q]] /\ UNCHANGED <<prio, transitions>>
    BY <1>1 DEF Begins, queueVars
  <2>2. \A d \in Callers \ {c} : caller'[d] = caller[d]
    BY <1>c, <2>1
  <2>3. caller'[c] = [at |-> a, req |-> q]
    BY <1>c, <2>1
  <2>4. InHand' \subseteq InHand \cup {q} /\ (a = "resolve" => InHand' \subseteq InHand)
    BY <2>2, <2>3 DEF InHand
  <2>5. Requests' \subseteq Requests \cup {q} /\ (a = "resolve" => Requests' \subseteq Requests)
    BY <1>u, <2>1, <2>4 DEF Requests, Queued
  <2> QED  BY <1>1, <1>u, <2>5 DEF Issue
<1>2. ASSUME NEW m \in Machines, NEW t \in StatesOf(m), RequestTarget(c, m, t)
      PROVE  Requests' \subseteq Requests \/ Issue
  <2>1. Request(m, t, 0) \in RequestSet
    BY RequestType
  <2>2. Issued(Request(m, t, 0))
    BY <1>2 DEF RequestTarget, Commandable, Issued, Asked
  <2> QED  BY <1>1, <1>2, <2>1, <2>2 DEF RequestTarget
<1>3. ASSUME NEW m \in Machines, NEW s \in StatesOf(m), Program[m][s].abortTo # NoState,
             Begins(c, [at |-> "append", req |-> Request(m, Program[m][s].abortTo, 0)])
      PROVE  Requests' \subseteq Requests \/ Issue
  <2>1. Request(m, Program[m][s].abortTo, 0) \in RequestSet
    BY <1>m, <1>3, RequestType
  <2>2. Issued(Request(m, Program[m][s].abortTo, 0))
    BY DEF Issued, Asked
  <2> QED  BY <1>1, <1>3, <2>1, <2>2
<1>4. ASSUME NEW m \in Machines, NotifyAbortTriggered(c, m)
      PROVE  Requests' \subseteq Requests \/ Issue
  <2>1. PICK s \in StatesOf(m) : ArmedAbort(m) = Program[m][s].abortTo
    BY <1>t, <1>4 DEF NotifyAbortTriggered, ArmedAbort, Def
  <2> QED  BY <1>3, <1>4, <2>1 DEF NotifyAbortTriggered
<1>5. ASSUME NEW m \in Machines, NEW k, NotifySequenceComplete(c, m, k)
      PROVE  Requests' \subseteq Requests \/ Issue
  <2>1. Request(m, Def(m).doneTo, epoch[m]) \in RequestSet
    BY <1>t, <1>m, <1>5, RequestType DEF NotifySequenceComplete, Correlates, Def
  <2>2. Issued(Request(m, Def(m).doneTo, epoch[m]))
    BY <1>5 DEF NotifySequenceComplete, Correlates, Issued, Completed
  <2> QED  BY <1>1, <1>5, <2>1, <2>2 DEF NotifySequenceComplete, Correlates
<1>6. ASSUME NEW m \in Machines, NEW n, NotifyUncertain(c, m, n)
      PROVE  Requests' \subseteq Requests \/ Issue
  BY <1>t, <1>3, <1>6 DEF NotifyUncertain, Def
<1>7. ASSUME NEW m \in Machines, NEW n, CurrentDaqPayload(c, m, n)
      PROVE  Requests' \subseteq Requests \/ Issue
  <2>1. Request(m, cur[m], epoch[m]) \in RequestSet
    BY <1>t, RequestType
  <2> QED  BY <1>1, <1>7, <2>1 DEF CurrentDaqPayload
<1>8. ASSUME NEW k, caller' = [caller EXCEPT ![c] = k], k.at \notin {"offer", "append"}
      PROVE  InHand' \subseteq InHand
  <2>1. caller'[c] = k /\ \A d \in Callers \ {c} : caller'[d] = caller[d]
    BY <1>c, <1>8
  <2> QED  BY <1>8, <2>1 DEF InHand
<1>9. CASE OfferTransition(c) \/ AppendPriority(c)
  <2>1. caller[c].req \in RequestSet /\ caller[c].req \in InHand
    BY <1>c, <1>9, CallType DEF OfferTransition, AppendPriority, InHand
  <2>2. InHand' \subseteq InHand
    BY <1>8, <1>9 DEF OfferTransition, AppendPriority, Idle
  <2>3. /\ ToRange(prio') \subseteq ToRange(prio) \cup {caller[c].req}
        /\ ToRange(transitions') \subseteq ToRange(transitions) \cup {caller[c].req}
    <3>1. /\ ToRange(Append(prio, caller[c].req)) = ToRange(prio) \cup {caller[c].req}
          /\ ToRange(Append(transitions, caller[c].req))
               = ToRange(transitions) \cup {caller[c].req}
      BY <1>t, <2>1, RangeAppend
    <3>2. /\ prio' = prio \/ prio' = Append(prio, caller[c].req)
          /\ transitions' = transitions \/ transitions' = Append(transitions, caller[c].req)
      BY <1>9 DEF OfferTransition, AppendPriority
    <3> QED  BY <3>1, <3>2
  <2> QED  BY <1>u, <2>1, <2>2, <2>3 DEF Requests, Queued
<1>10. CASE SignalPriority(c) \/ ResolvePayload(c) \/ StampPayload(c) \/ HandPayload(c)
  <2>1. UNCHANGED <<prio, transitions>>
    BY <1>10 DEF SignalPriority, ResolvePayload, StampPayload, HandPayload, queueVars
  <2>2. InHand' \subseteq InHand
    <3>1. CASE StampPayload(c)
      <4>1. caller' = [caller EXCEPT ![c] = [caller[c] EXCEPT !.at = "hand"]]
        BY <3>1 DEF StampPayload
      <4>2. caller[c] = [at |-> caller[c].at, req |-> caller[c].req, runId |-> caller[c].runId]
        BY <1>c, <3>1, CallType DEF StampPayload
      <4>3. [caller[c] EXCEPT !.at = "hand"].at \notin {"offer", "append"}
        BY <4>2
      <4> QED  BY <1>8, <4>1, <4>3
    <3>2. CASE SignalPriority(c) \/ ResolvePayload(c) \/ HandPayload(c)
      BY <1>8, <3>2 DEF SignalPriority, ResolvePayload, HandPayload, Idle
    <3> QED  BY <1>10, <3>1, <3>2
  <2> QED  BY <1>u, <2>1, <2>2 DEF Requests, Queued
<1> QED
  <2>1. CASE Console(c)
    BY <1>u, <1>2, <1>9, <2>1 DEF Console
  <2>2. CASE Reporter(c)
    BY <1>u, <1>4, <1>5, <1>6, <1>7, <1>9, <1>10, <2>2 DEF Reporter
  <2> QED  BY <2>1, <2>2

LEMMA Steps ==
  ASSUME TypeOK, [Next]_vars
  PROVE  /\ \/ Entry \/ HandOver \/ Quiet
            \/ \E c \in Callers : (Console(c) \/ Reporter(c)) /\ UNCHANGED <<cur, epoch>>
         /\ Requests' \subseteq Requests \/ Issue
<1>1. CASE Shutdown \/ UNCHANGED vars
  BY <1>1 DEF Quiet, Shutdown, vars, machineVars, queueVars, loopVars, envVars, Requests,
     Queued, InHand
<1>2. ASSUME NEW c \in Callers, Console(c) \/ Reporter(c)
      PROVE  UNCHANGED <<cur, epoch>> /\ (Requests' \subseteq Requests \/ Issue)
  BY <1>2, CallSteps
<1> QED  BY <1>1, <1>2, LoopSteps, RunSteps DEF Next, Callers

(* A state is entered, or no machine moves.                                *)
LEMMA EntrySteps ==
  ASSUME TypeOK, [Next]_vars
  PROVE  Entry \/ UNCHANGED <<cur, epoch>>
BY Steps DEF HandOver, Quiet

-----------------------------------------------------------------------------
(* The correlation record.                                                 *)

LEMMA EnterFields ==
  ASSUME TypeOK, NEW m \in Machines, NEW s \in StatesOf(m), enterState(m, s)
  PROVE  /\ cur'[m] = s /\ epoch'[m] = epoch[m] + 1 /\ epoch[m] \in Nat
         /\ \A n \in Machines \ {m} : /\ cur'[n] = cur[n] /\ epoch'[n] = epoch[n]
                                      /\ rec'[n] = rec[n]
         /\ \/ UNCHANGED <<rec, runId, pend>>
            \/ /\ Program[m][s].node # NoNode
               /\ runId' = runId + 1
               /\ rec'[m] = [state |-> s, epoch |-> epoch[m] + 1, runId |-> runId + 1]
               /\ pend' = [machine |-> m, runId |-> runId + 1]
<1>t. /\ epoch \in [Machines -> Nat] /\ cur \in [Machines -> States]
      /\ rec \in [Machines -> RecordSet]
  BY DEF TypeOK, MachineTypeOK
<1>1. cur' = [cur EXCEPT ![m] = s] /\ epoch' = [epoch EXCEPT ![m] = epoch[m] + 1]
  BY DEF enterState, EnterLocal, EnterDaqLocal, Publish
<1>2. CASE UNCHANGED <<rec, runId, pend>>
  BY <1>t, <1>1, <1>2
<1>3. CASE /\ Program[m][s].node # NoNode
           /\ runId' = runId + 1
           /\ rec' = [rec EXCEPT ![m] = [state |-> s, epoch |-> epoch[m] + 1,
                                         runId |-> runId + 1]]
           /\ pend' = [machine |-> m, runId |-> runId + 1]
  BY <1>t, <1>1, <1>3
<1> QED  BY <1>2, <1>3 DEF enterState, EnterLocal, EnterDaqLocal

LEMMA JustifiedEnter ==
  ASSUME TypeOK, Entry, NEW q \in RequestSet, Justified(q)
  PROVE  Justified(q)'
<1>0. PICK m \in Machines : \E s \in StatesOf(m) : enterState(m, s)
  BY DEF Entry
<1>1. PICK s \in StatesOf(m) : enterState(m, s)
  BY <1>0
<1>2. q.machine \in Machines /\ q.epoch \in Nat /\ epoch \in [Machines -> Nat]
  BY DEF RequestSet, TypeOK, MachineTypeOK
<1>3. CASE q.machine = m
  <2>1. epoch'[q.machine] = epoch[q.machine] + 1 /\ epoch[q.machine] \in Nat
    BY <1>1, <1>3, EnterFields
  <2>2. q.epoch <= epoch[q.machine]
    BY DEF Justified
  <2>3. q.epoch <= epoch'[q.machine] /\ q.epoch # epoch'[q.machine]
    BY <1>2, <2>1, <2>2
  <2> QED  BY <2>3 DEF Justified
<1>4. CASE q.machine # m
  <2>0. \A n \in Machines \ {m} : cur'[n] = cur[n] /\ epoch'[n] = epoch[n]
    BY <1>1, EnterFields
  <2>1. cur'[q.machine] = cur[q.machine] /\ epoch'[q.machine] = epoch[q.machine]
    BY <1>2, <1>4, <2>0
  <2> QED  BY <2>1 DEF Justified, Graph!Edge
<1> QED  BY <1>3, <1>4

LEMMA IssuedJustified ==
  ASSUME TypeOK, RunsInv, RecordInv, NEW x \in RequestSet, Issued(x)
  PROVE  Justified(x)
<1>t. /\ epoch \in [Machines -> Nat] /\ \A m \in Machines : cur[m] \in StatesOf(m)
      /\ runs \subseteq RunSet
  BY DEF TypeOK, MachineTypeOK
<1>1. ASSUME x.epoch = 0 PROVE Justified(x)
  BY <1>1, <1>t DEF Justified, RequestSet
<1>2. CASE Completed(x)
  <2>1. PICK m \in Machines : /\ x = Request(m, Def(m).doneTo, epoch[m])
                              /\ rec[m].state = cur[m] /\ rec[m].epoch = epoch[m]
    BY <1>2 DEF Completed
  <2>2. x.machine = m /\ x.target = Def(m).doneTo /\ x.epoch = epoch[m]
    BY <2>1 DEF Request
  <2>3. epoch[m] # 0 => Def(m).node # NoNode
    BY <2>1 DEF RecordInv, RecordCorrelates
  <2> QED  BY <1>t, <2>2, <2>3, GraphEdge DEF Justified, Def
<1>3. ASSUME NEW r \in runs, x = Request(r.machine, Stmt(r).to, r.epoch),
             r.pc \in DOMAIN Block(r), Moves(Stmt(r))
      PROVE  Justified(x)
  <2>1. x.machine = r.machine /\ x.target = Stmt(r).to /\ x.epoch = r.epoch
    BY <1>3 DEF Request
  <2>2. /\ r.epoch <= epoch[r.machine] /\ (r.epoch = epoch[r.machine] => r.state = cur[r.machine])
        /\ Program[r.machine][r.state].node = NoNode
    BY <1>t DEF RunsInv, RunFollows, RunSet, Nodeless
  <2>3. Stmt(r).to \in TargetsOf(Program[r.machine][r.state].sequence)
    BY <1>3 DEF TargetsOf, Stmt, Block
  <2> QED  BY <2>1, <2>2, <2>3, GraphEdge DEF Justified
<1>4. CASE Asked(x)
  BY <1>1, <1>4 DEF Asked, Commanded, Request, Command
<1>5. ASSUME NEW b, Commanded(x, b)
      PROVE  Justified(x)
  BY <1>1, <1>5 DEF Commanded, Command, Request
<1> QED  BY <1>2, <1>3, <1>4, <1>5 DEF Issued, Sent

LEMMA RequestsNext ==
  ASSUME TypeOK, RunsInv, RecordInv, RequestsInv, [Next]_vars
  PROVE  RequestsInv'
<1>0. TypeOK'
  BY NextType
<1>1. Requests' \subseteq RequestSet
  BY <1>0, RequestsTypedNext
<1>k. ASSUME NEW q, Justified(q), UNCHANGED <<cur, epoch>>
      PROVE  Justified(q)'
  BY <1>k DEF Justified, Graph!Edge, TargetsOf
<1>2. ASSUME NEW q \in Requests'
      PROVE  Justified(q)'
  <2>1. q \in RequestSet
    BY <1>1
  <2>2. CASE q \in Requests
    <3>1. Justified(q)
      BY <2>2 DEF RequestsInv
    <3> QED  BY <1>k, <2>1, <3>1, JustifiedEnter, EntrySteps
  <2>3. CASE q \notin Requests
    <3>1. PICK x \in RequestSet : /\ Requests' \subseteq Requests \cup {x} /\ Issued(x)
                                  /\ UNCHANGED <<cur, epoch>>
      BY <1>2, <2>3, Steps DEF Issue
    <3>2. x = q /\ Justified(x)
      BY <1>2, <2>3, <3>1, IssuedJustified
    <3> QED  BY <1>k, <3>1, <3>2
  <2> QED  BY <2>2, <2>3
<1> QED  BY <1>2 DEF RequestsInv

(* What a call may do to the record and the run ids.                       *)
LEMMA CallFields ==
  ASSUME TypeOK, NEW c \in Callers, Console(c) \/ Reporter(c)
  PROVE  /\ UNCHANGED <<cur, epoch, pend>> /\ runId' \in {runId, runId + 1}
         /\ \A d \in Callers \ {c} : caller'[d] = caller[d]
         /\ \/ /\ caller'[c].at = "resolve" /\ UNCHANGED <<rec, runId, handed>>
               /\ \E m \in Machines : \E n \in Nodes :
                    /\ Def(m).node = n /\ caller'[c].req = Request(m, cur[m], epoch[m])
            \/ /\ caller[c].at = "resolve" /\ UNCHANGED <<rec, handed>>
               /\ runId' = runId + 1
               /\ caller'[c] = [at |-> "stamp", req |-> caller[c].req, runId |-> runId + 1]
            \/ StampPayload(c)
            \/ HandPayload(c)
            \/ /\ caller'[c].at \notin {"resolve", "stamp", "hand"}
               /\ UNCHANGED <<rec, runId, handed>>
<1>c. caller \in [Callers -> CallSet] /\ caller[c] \in CallSet
  BY DEF TypeOK, EnvTypeOK
<1>u. UNCHANGED <<cur, epoch, pend>>
  BY DEF Console, Reporter, RequestTarget, Begins, OfferTransition,
     NotifyAbortTriggered, NotifySequenceComplete, NotifyUncertain, CurrentDaqPayload,
     AppendPriority, SignalPriority, ResolvePayload, StampPayload, HandPayload,
     callerStable
<1>k. ASSUME NEW k, caller' = [caller EXCEPT ![c] = k]
      PROVE  caller'[c] = k /\ \A d \in Callers \ {c} : caller'[d] = caller[d]
  BY <1>c, <1>k
<1>i. /\ Idle.at \notin {"resolve", "stamp", "hand"}
      /\ [at |-> "signal"].at \notin {"resolve", "stamp", "hand"}
  BY DEF Idle
<1>1. ASSUME NEW k, Begins(c, k)
      PROVE  /\ caller'[c] = k /\ \A d \in Callers \ {c} : caller'[d] = caller[d]
             /\ UNCHANGED <<rec, runId, handed>>
  BY <1>k, <1>1 DEF Begins
<1>2. ASSUME NEW m \in Machines, NEW n \in Nodes, CurrentDaqPayload(c, m, n)
      PROVE  /\ caller'[c].at = "resolve" /\ Def(m).node = n
             /\ caller'[c].req = Request(m, cur[m], epoch[m])
             /\ \A d \in Callers \ {c} : caller'[d] = caller[d]
             /\ UNCHANGED <<rec, runId, handed>>
  BY <1>1, <1>2 DEF CurrentDaqPayload
<1>3. ASSUME NEW q, NEW a \in {"offer", "append"}, Begins(c, [at |-> a, req |-> q])
      PROVE  /\ caller'[c].at \notin {"resolve", "stamp", "hand"}
             /\ \A d \in Callers \ {c} : caller'[d] = caller[d]
             /\ UNCHANGED <<rec, runId, handed>>
  BY <1>1, <1>3
<1>4. CASE OfferTransition(c) \/ AppendPriority(c) \/ SignalPriority(c)
  <2>1. PICK k : caller' = [caller EXCEPT ![c] = k] /\ (k = Idle \/ k = [at |-> "signal"])
    BY <1>4 DEF OfferTransition, AppendPriority, SignalPriority
  <2>2. caller'[c].at \notin {"resolve", "stamp", "hand"}
    BY <1>i, <1>k, <2>1
  <2> QED  BY <1>u, <1>k, <1>4, <2>1, <2>2 DEF OfferTransition, AppendPriority, SignalPriority
<1>5. CASE ResolvePayload(c)
  <2>1. CASE caller' = [caller EXCEPT ![c] = Idle] /\ UNCHANGED runId
    <3>1. caller'[c] = Idle /\ \A d \in Callers \ {c} : caller'[d] = caller[d]
      BY <1>k, <2>1
    <3> QED  BY <1>i, <1>u, <1>5, <2>1, <3>1 DEF ResolvePayload
  <2>2. CASE /\ runId' = runId + 1
             /\ caller' = [caller EXCEPT ![c] = [at |-> "stamp", req |-> caller[c].req,
                                                 runId |-> runId + 1]]
    BY <1>u, <1>k, <1>5, <2>2 DEF ResolvePayload
  <2> QED  BY <1>5, <2>1, <2>2 DEF ResolvePayload
<1>6. CASE StampPayload(c)
  BY <1>u, <1>k, <1>6 DEF StampPayload
<1>7. CASE HandPayload(c)
  BY <1>u, <1>k, <1>7 DEF HandPayload
<1> QED
  <2>1. CASE Console(c)
    BY <1>u, <1>3, <1>4, <2>1 DEF Console, RequestTarget
  <2>2. CASE Reporter(c)
    BY <1>u, <1>2, <1>3, <1>4, <1>5, <1>6, <1>7, <2>2
       DEF Reporter, NotifyAbortTriggered, NotifySequenceComplete, Correlates, NotifyUncertain
  <2> QED  BY <2>1, <2>2

LEMMA StampFields ==
  ASSUME TypeOK, NEW c \in Callers, StampPayload(c)
  PROVE  /\ caller[c].at = "stamp" /\ caller'[c].at = "hand"
         /\ caller'[c].req = caller[c].req /\ caller'[c].runId = caller[c].runId
         /\ caller[c].req \in RequestSet /\ caller[c].req.machine \in Machines
         /\ caller[c].runId \in Nat
         /\ UNCHANGED <<runId, handed, cur, epoch, pend>>
         /\ \A n \in Machines \ {caller[c].req.machine} : rec'[n] = rec[n]
         /\ \/ UNCHANGED rec
            \/ /\ epoch[caller[c].req.machine] = caller[c].req.epoch
               /\ rec'[caller[c].req.machine] =
                    [state |-> caller[c].req.target, epoch |-> caller[c].req.epoch,
                     runId |-> caller[c].runId]
<1>c. caller \in [Callers -> CallSet] /\ caller[c] \in CallSet /\ rec \in [Machines -> RecordSet]
  BY DEF TypeOK, EnvTypeOK, MachineTypeOK
<1>1. /\ caller[c].req \in RequestSet /\ caller[c].runId \in Nat
      /\ caller[c] = [at |-> caller[c].at, req |-> caller[c].req, runId |-> caller[c].runId]
  BY <1>c, CallType DEF StampPayload
<1>2. caller[c].req.machine \in Machines
  BY <1>1 DEF RequestSet
<1>3. caller' = [caller EXCEPT ![c] = [caller[c] EXCEPT !.at = "hand"]]
  BY DEF StampPayload
<1>4. /\ [caller[c] EXCEPT !.at = "hand"].at = "hand"
      /\ [caller[c] EXCEPT !.at = "hand"].req = caller[c].req
      /\ [caller[c] EXCEPT !.at = "hand"].runId = caller[c].runId
  BY <1>1
<1>5. /\ caller'[c].at = "hand" /\ caller'[c].req = caller[c].req
      /\ caller'[c].runId = caller[c].runId
  BY <1>c, <1>3, <1>4
<1> QED  BY <1>c, <1>1, <1>2, <1>5 DEF StampPayload, callerStable

LEMMA RecordEntry ==
  ASSUME TypeOK, RecordInv, Entry
  PROVE  RecordInv'
<1>0. PICK m \in Machines : \E s \in StatesOf(m) :
        enterState(m, s) /\ pend = NoPayload /\ UNCHANGED envVars
  BY DEF Entry
<1>1. PICK s \in StatesOf(m) : enterState(m, s) /\ pend = NoPayload /\ UNCHANGED envVars
  BY <1>0
<1>2. /\ cur'[m] = s /\ epoch'[m] = epoch[m] + 1 /\ epoch[m] \in Nat
      /\ \A n \in Machines \ {m} : /\ cur'[n] = cur[n] /\ epoch'[n] = epoch[n]
                                   /\ rec'[n] = rec[n]
  BY <1>1, EnterFields
<1>3. \/ UNCHANGED <<rec, runId, pend>>
      \/ /\ Program[m][s].node # NoNode
         /\ runId' = runId + 1
         /\ rec'[m] = [state |-> s, epoch |-> epoch[m] + 1, runId |-> runId + 1]
         /\ pend' = [machine |-> m, runId |-> runId + 1]
  BY <1>1, EnterFields
<1>t. /\ rec \in [Machines -> RecordSet] /\ epoch \in [Machines -> Nat] /\ runId \in Nat
      /\ rec[m].epoch \in Nat /\ caller \in [Callers -> CallSet]
  BY DEF TypeOK, MachineTypeOK, EnvTypeOK, RecordSet
<1>i. RecordCorrelates
  BY DEF RecordInv
<1>4. ASSUME NEW n \in Machines
      PROVE  /\ rec'[n].epoch <= epoch'[n]
             /\ rec'[n].epoch = epoch'[n] /\ epoch'[n] # 0 =>
                  /\ rec'[n].state = cur'[n]
                  /\ Program[n][cur'[n]].node # NoNode
  <2>1. CASE n # m
    BY <1>2, <1>i, <2>1 DEF RecordCorrelates, Def
  <2>2. CASE n = m /\ UNCHANGED rec
    <3>1. rec[m].epoch <= epoch[m]
      BY <1>i DEF RecordCorrelates
    <3> QED  BY <1>t, <1>2, <2>2, <3>1
  <2>3. CASE n = m /\ ~UNCHANGED rec
    BY <1>2, <1>3, <2>3
  <2> QED  BY <2>1, <2>2, <2>3
<1>5. pend' # NoPayload => /\ rec'[pend'.machine].epoch = epoch'[pend'.machine]
                           /\ rec'[pend'.machine].runId >= pend'.runId
                           /\ pend'.runId <= runId'
  BY <1>1, <1>2, <1>3, <1>t
<1>6. ASSUME NEW c \in Callers, caller'[c].at \in {"resolve", "stamp"}
      PROVE  Stamping(c)'
  <2> DEFINE q == caller[c].req
  <2>1. caller' = caller
    BY <1>1 DEF envVars
  <2>2. Stamping(c)
    BY <1>6, <2>1 DEF RecordInv
  <2>3. q \in RequestSet
    BY <1>t, <1>6, <2>1, CallType
  <2>4. q.machine \in Machines /\ q.epoch \in Nat /\ q.epoch <= epoch[q.machine]
    BY <2>2, <2>3 DEF RequestSet, Stamping
  <2>5. CASE q.machine = m
    <3>1. q.epoch <= epoch'[q.machine] /\ q.epoch # epoch'[q.machine]
      BY <1>2, <2>4, <2>5
    <3> QED  BY <2>1, <3>1 DEF Stamping
  <2>6. CASE q.machine # m
    <3>1. /\ cur'[q.machine] = cur[q.machine] /\ epoch'[q.machine] = epoch[q.machine]
          /\ pend' # NoPayload => pend'.machine # q.machine
      BY <1>1, <1>2, <1>3, <2>4, <2>6
    <3> QED  BY <2>1, <2>2, <3>1 DEF Stamping, Def
  <2> QED  BY <2>5, <2>6
<1> QED  BY <1>4, <1>5, <1>6 DEF RecordInv, RecordCorrelates, Def

(* A step that leaves the machines alone.                                  *)
LEMMA RecordQuiet ==
  ASSUME RecordInv, UNCHANGED <<cur, epoch, rec, runId, caller>>,
         pend' = pend \/ pend' = NoPayload
  PROVE  RecordInv'
<1>1. ASSUME NEW c \in Callers, caller'[c].at \in {"resolve", "stamp"}
      PROVE  Stamping(c)'
  BY <1>1 DEF RecordInv, Stamping, Def
<1> QED  BY <1>1 DEF RecordInv, RecordCorrelates, Def

LEMMA RecordCall ==
  ASSUME TypeOK, RecordInv, NEW c \in Callers, Console(c) \/ Reporter(c)
  PROVE  RecordInv'
<1>1. /\ UNCHANGED <<cur, epoch, pend>> /\ runId' \in {runId, runId + 1}
      /\ \A d \in Callers \ {c} : caller'[d] = caller[d]
  BY CallFields
<1>t. /\ epoch \in [Machines -> Nat] /\ \A m \in Machines : cur[m] \in StatesOf(m)
      /\ runId \in Nat /\ pend \in PayloadSet
  BY DEF TypeOK, MachineTypeOK
<1>p. pend # NoPayload => pend.runId \in Nat /\ pend.runId <= runId /\ pend.runId <= runId'
  BY <1>1, <1>t DEF RecordInv, PayloadSet
<1>2. ASSUME NEW d \in Callers, d # c, caller'[d].at \in {"resolve", "stamp"}
      PROVE  Stamping(d)'
  <2>1. caller'[d] = caller[d]
    BY <1>1, <1>2
  <2>2. Stamping(d)
    BY <1>2, <2>1 DEF RecordInv
  <2> QED  BY <1>1, <2>1, <2>2 DEF Stamping, Def
<1>3. ASSUME UNCHANGED rec, caller'[c].at \in {"resolve", "stamp"} => Stamping(c)'
      PROVE  RecordInv'
  <2>1. \A d \in Callers : caller'[d].at \in {"resolve", "stamp"} => Stamping(d)'
    BY <1>2, <1>3
  <2>2. RecordCorrelates'
    BY <1>1, <1>3 DEF RecordInv, RecordCorrelates, Def
  <2> QED  BY <1>1, <1>p, <2>1, <2>2 DEF RecordInv
<1>4. ASSUME UNCHANGED rec, caller'[c].at = "resolve", NEW m \in Machines, NEW n \in Nodes,
             Def(m).node = n, caller'[c].req = Request(m, cur[m], epoch[m])
      PROVE  RecordInv'
  <2>1. /\ caller'[c].req.machine = m /\ caller'[c].req.target = cur[m]
        /\ caller'[c].req.epoch = epoch[m]
    BY <1>4 DEF Request
  <2>2. Program[m][cur'[m]].node # NoNode
    BY <1>1, <1>4, ProgramAssumption DEF ProgramOK, Def
  <2>3. Stamping(c)'
    BY <1>1, <1>t, <1>4, <2>1, <2>2 DEF Stamping, Def
  <2> QED  BY <1>3, <1>4, <2>3
<1>5. ASSUME UNCHANGED rec, caller[c].at = "resolve", runId' = runId + 1,
             caller'[c] = [at |-> "stamp", req |-> caller[c].req, runId |-> runId + 1]
      PROVE  RecordInv'
  <2>1. Stamping(c)
    BY <1>5 DEF RecordInv
  <2>2. caller'[c].req = caller[c].req /\ caller'[c].runId = runId + 1
    BY <1>5
  <2>3. Stamping(c)'
    BY <1>1, <1>t, <1>p, <1>5, <2>1, <2>2 DEF Stamping, Def
  <2> QED  BY <1>3, <1>5, <2>3
<1>6. CASE StampPayload(c)
  <2> DEFINE q == caller[c].req
  <2>1. /\ caller[c].at = "stamp" /\ caller'[c].at = "hand"
        /\ q \in RequestSet /\ q.machine \in Machines /\ caller[c].runId \in Nat
        /\ \A n \in Machines \ {q.machine} : rec'[n] = rec[n]
        /\ \/ UNCHANGED rec
           \/ /\ epoch[q.machine] = q.epoch
              /\ rec'[q.machine] = [state |-> q.target, epoch |-> q.epoch,
                                    runId |-> caller[c].runId]
    BY <1>6, StampFields
  <2>2. CASE UNCHANGED rec
    BY <1>3, <2>1, <2>2
  <2>3. CASE /\ epoch[q.machine] = q.epoch
             /\ rec'[q.machine] = [state |-> q.target, epoch |-> q.epoch,
                                   runId |-> caller[c].runId]
    <3>1. Stamping(c)
      BY <2>1 DEF RecordInv
    <3>2. /\ rec'[q.machine].epoch = epoch[q.machine] /\ rec'[q.machine].state = cur[q.machine]
          /\ Def(q.machine).node # NoNode /\ rec'[q.machine].runId = caller[c].runId
          /\ pend # NoPayload /\ q.machine = pend.machine => pend.runId <= caller[c].runId
      BY <2>1, <2>3, <3>1 DEF Stamping
    <3>3. ASSUME NEW n \in Machines
          PROVE  /\ rec'[n].epoch <= epoch[n]
                 /\ rec'[n].epoch = epoch[n] /\ epoch[n] # 0 =>
                      /\ rec'[n].state = cur[n]
                      /\ Def(n).node # NoNode
      <4>1. CASE n = q.machine
        BY <1>t, <3>2, <4>1
      <4>2. CASE n # q.machine
        BY <2>1, <4>2 DEF RecordInv, RecordCorrelates
      <4> QED  BY <4>1, <4>2
    <3>4. pend # NoPayload => /\ rec'[pend.machine].epoch = epoch[pend.machine]
                              /\ rec'[pend.machine].runId >= pend.runId
      <4>1. CASE pend # NoPayload /\ pend.machine = q.machine
        BY <1>p, <2>1, <3>2, <4>1
      <4>2. CASE pend # NoPayload /\ pend.machine # q.machine
        <5>1. pend.machine \in Machines
          BY <1>t, <4>2 DEF PayloadSet
        <5> QED  BY <2>1, <4>2, <5>1 DEF RecordInv, RecordCorrelates
      <4> QED  BY <4>1, <4>2
    <3>5. RecordCorrelates'
      BY <1>1, <3>3, <3>4 DEF RecordCorrelates, Def
    <3>6. \A d \in Callers : caller'[d].at \in {"resolve", "stamp"} => Stamping(d)'
      BY <1>2, <2>1
    <3> QED  BY <1>1, <1>p, <3>5, <3>6 DEF RecordInv
  <2> QED  BY <2>1, <2>2, <2>3
<1>7. CASE HandPayload(c)
  <2>1. UNCHANGED rec /\ caller' = [caller EXCEPT ![c] = Idle] /\ Idle.at = "idle"
    BY <1>7 DEF HandPayload, Idle
  <2>2. caller \in [Callers -> CallSet]
    BY DEF TypeOK, EnvTypeOK
  <2>3. caller'[c].at = "idle"
    BY <2>1, <2>2
  <2> QED  BY <1>3, <2>1, <2>3
<1>8. CASE caller'[c].at \notin {"resolve", "stamp", "hand"} /\ UNCHANGED rec
  BY <1>3, <1>8
<1> QED  BY <1>4, <1>5, <1>6, <1>7, <1>8, CallFields

LEMMA RecordNext ==
  ASSUME TypeOK, RecordInv, [Next]_vars
  PROVE  RecordInv'
BY Steps, RecordEntry, RecordQuiet, RecordCall DEF HandOver, Quiet

LEMMA RequestsInit == Init => TypeOK /\ RunsInv /\ RecordInv /\ RequestsInv
<1> SUFFICES ASSUME Init PROVE TypeOK /\ RunsInv /\ RecordInv /\ RequestsInv
  OBVIOUS
<1>1. TypeOK
  BY InitType
<1>2. RunsInv
  BY DEF Init, RunsInv
<1>3. \A c \in Callers : caller[c].at = "idle"
  BY DEF Init, Idle
<1>4. Requests = {}
  <2>1. InHand = {}
    BY <1>3 DEF InHand
  <2> QED  BY <2>1, RangeEmpty DEF Init, Requests, Queued
<1>5. RecordInv
  BY <1>3 DEF Init, RecordInv, RecordCorrelates, NoRecord
<1> QED  BY <1>1, <1>2, <1>4, <1>5 DEF RequestsInv

Core == TypeOK /\ RunsInv /\ RecordInv /\ RequestsInv

LEMMA CoreHolds == Spec => []Core
<1>1. Init => Core
  BY RequestsInit DEF Core
<1>2. Core /\ [Next]_vars => Core'
  BY NextType, RunsNext, RecordNext, RequestsNext DEF Core
<1> QED  BY <1>1, <1>2, PTL DEF Spec

(* A request of a late sequence goroutine, or of a late DAQ report, never  *)
(* moves a machine to a state its current state does not name, whatever    *)
(* the program and however many goroutines race.                           *)
THEOREM FreshRequests == Spec => []FreshRequestsBelong
<1>1. Core => FreshRequestsBelong
  BY DEF Core, RequestsInv, Justified, FreshRequestsBelong, Stale
<1> QED  BY <1>1, CoreHolds, PTL

(* A completion is judged against the record of the state the machine is   *)
(* in, never of a later one, and no record is armed after its payload.     *)
THEOREM RecordHolds == Spec => []RecordCorrelates
<1>1. Core => RecordCorrelates
  BY DEF Core, RecordInv
<1> QED  BY <1>1, CoreHolds, PTL

-----------------------------------------------------------------------------
(* Every entry follows the program's graph.  A completion reported for a   *)
(* machine the loop has not entered yet would carry epoch 0, which the     *)
(* loop takes for an operator's: the theorem is about programs whose       *)
(* machines do not start in a daq_local state.                             *)

StartsHere == \A m \in Machines : Nodeless(Initial[m], m)

LEMMA IssuedInterrupts ==
  ASSUME TypeOK, StartInv, NEW x \in RequestSet, Issued(x), x.epoch = 0
  PROVE  Graph!Interrupt(x.machine, x.target)
<1>t. /\ \A m \in Machines : cur[m] \in StatesOf(m) /\ epoch[m] \in Nat
      /\ runs \subseteq RunSet
  BY DEF TypeOK, MachineTypeOK
<1>1. ASSUME NEW m \in Machines, NEW t \in StatesOf(m), x = Request(m, t, 0),
             Program[m][t].operator
      PROVE  Graph!Interrupt(x.machine, x.target)
  BY <1>1, GraphInterrupt DEF Request
<1>2. ASSUME NEW m \in Machines, NEW s \in StatesOf(m), x = Request(m, Program[m][s].abortTo, 0)
      PROVE  Graph!Interrupt(x.machine, x.target)
  BY <1>2, GraphInterrupt DEF Request
<1>3. ASSUME NEW m \in Machines, NEW s \in StatesOf(m), NEW b, Commanded(x, b),
             b = Program[m][s].controller \/ b = Program[m][s].sequence
      PROVE  Graph!Interrupt(x.machine, x.target)
  <2>1. PICK i \in DOMAIN b : b[i].op = "command" /\ x = Command(b[i])
    BY <1>3 DEF Commanded
  <2>2. b[i].machine \in Machines \ {m}
    BY <1>3, <2>1, DefType, StmtType
  <2>3. x.machine = b[i].machine /\ x.target = b[i].to
    BY <2>1 DEF Command, Request
  <2>4. x.target \in CommandsOf(b, x.machine)
    BY <2>1, <2>3 DEF CommandsOf
  <2> QED  BY <1>3, <2>2, <2>3, <2>4, GraphInterrupt
<1>4. CASE Asked(x)
  BY <1>t, <1>1, <1>2, <1>3, <1>4 DEF Asked, Def
<1>5. ~Completed(x)
  <2> SUFFICES ASSUME Completed(x) PROVE FALSE
    OBVIOUS
  <2>1. PICK m \in Machines : /\ x = Request(m, Def(m).doneTo, epoch[m])
                              /\ rec[m].state = cur[m]
    BY DEF Completed
  <2>2. epoch[m] = 0
    BY <2>1 DEF Request
  <2> QED  BY <1>t, <2>1, <2>2, StatesAreStates DEF StartInv
<1>6. ASSUME NEW r \in runs, x = Request(r.machine, Stmt(r).to, r.epoch)
      PROVE  FALSE
  BY <1>t, <1>6 DEF Request, RunSet
<1>7. ASSUME NEW r \in runs, Commanded(x, Block(r))
      PROVE  Graph!Interrupt(x.machine, x.target)
  BY <1>t, <1>3, <1>7 DEF RunSet, Block
<1> QED  BY <1>4, <1>5, <1>6, <1>7 DEF Issued, Sent

LEMMA InterruptsNext ==
  ASSUME TypeOK, StartInv, InterruptsInv, [Next]_vars
  PROVE  InterruptsInv'
<1>0. TypeOK'
  BY NextType
<1>1. ASSUME NEW q \in Requests', q.epoch = 0
      PROVE  Graph!Interrupt(q.machine, q.target)
  <2>1. CASE q \in Requests
    BY <1>1, <2>1 DEF InterruptsInv
  <2>2. CASE q \notin Requests
    <3>1. PICK x \in RequestSet : Requests' \subseteq Requests \cup {x} /\ Issued(x)
      BY <1>1, <2>2, Steps DEF Issue
    <3>2. x = q
      BY <1>1, <2>2, <3>1
    <3> QED  BY <1>1, <3>1, <3>2, IssuedInterrupts
  <2> QED  BY <2>1, <2>2
<1> QED  BY <1>1 DEF InterruptsInv, Graph!Interrupt

(* The loop enters the machines in order, each once, before it selects.    *)
LEMMA StartNext ==
  ASSUME TypeOK, RecordInv, StartInv, StartsHere, [Next]_vars
  PROVE  StartInv'
<1>t. /\ epoch \in [Machines -> Nat] /\ at \in Nat /\ Order \in Seq(Machines)
      /\ \A i, j \in DOMAIN Order : Order[i] = Order[j] => i = j
      /\ caller \in [Callers -> CallSet]
  BY EngineAssumption DEF TypeOK, MachineTypeOK, LoopTypeOK, EnvTypeOK
<1>1. ASSUME loop' = "start", NEW i \in DOMAIN Order, i >= at'
      PROVE  epoch'[Order[i]] = 0
  <2>1. loop = "start" /\ (Start \/ UNCHANGED <<at, epoch>>)
    <3>1. CASE UNCHANGED <<loop, at, epoch>>
      BY <1>1, <3>1
    <3>6. CASE HandOver
      BY <1>1, <3>6 DEF HandOver, loopVars
    <3>7. CASE Start
      BY <3>7 DEF Start, LoopAt
    <3>8. CASE \/ SelectPriority \/ SelectTransition \/ SelectTick \/ SelectDone
               \/ TakeBatch \/ ApplyBatch \/ DrainDone \/ DrainTransition
               \/ DrainTransitionsDone
      <4>1. loop' # "start"
        BY <3>8 DEF SelectPriority, SelectTransition, SelectTick, SelectDone, TakeBatch,
           ApplyBatch, DrainDone, DrainTransition, DrainTransitionsDone, LoopAt, loopVars
      <4> QED  BY <1>1, <4>1
    <3>9. CASE \/ ControllerAssign \/ ControllerIf \/ ControllerCommand
               \/ ControllerTransition \/ ControllerDone \/ PokeRuns
      <4>1. loop' # "start"
        BY <3>9 DEF ControllerAssign, ControllerIf, ControllerCommand, ControllerTransition,
           ControllerDone, PokeRuns, AtStmt, InController, LoopAt
      <4> QED  BY <1>1, <4>1
    <3>2. CASE Loop
      BY <3>2, <3>6, <3>7, <3>8, <3>9 DEF Loop
    <3>3. ASSUME NEW r \in runs, Run(r)
          PROVE  UNCHANGED <<loop, at, epoch>>
      BY <3>3 DEF Run, RunEnd, RunFetch, RunError, RunAssign, RunIf, RunCommand, RunSignal,
         RunPoll, RunAwait, RunSend, runStable, loopVars
    <3>4. ASSUME NEW c, Console(c) \/ Reporter(c)
          PROVE  UNCHANGED <<loop, at, epoch>>
      BY <3>4 DEF Console, Reporter, RequestTarget, Begins, OfferTransition,
         NotifyAbortTriggered, NotifySequenceComplete, NotifyUncertain, CurrentDaqPayload,
         AppendPriority, SignalPriority, ResolvePayload, StampPayload, HandPayload,
         callerStable, loopVars
    <3>5. CASE Shutdown \/ UNCHANGED vars
      BY <1>1, <3>5 DEF Shutdown, vars, machineVars, loopVars
    <3> QED  BY <3>1, <3>2, <3>3, <3>4, <3>5, <3>6 DEF Next
  <2>2. CASE UNCHANGED <<at, epoch>>
    BY <1>1, <2>1, <2>2 DEF StartInv
  <2>3. CASE Start
    <3>1. at' = at + 1 /\ i >= at /\ at \in DOMAIN Order /\ i # at
      BY <1>t, <1>1, <2>1, <2>3 DEF Start, TypeOK, LoopTypeOK
    <3>2. Order[i] # Order[at] /\ Order[i] \in Machines
      BY <1>t, <3>1
    <3>3. epoch' = [epoch EXCEPT ![Order[at]] = @ + 1]
      BY <2>3 DEF Start, enterState, EnterLocal, EnterDaqLocal, Publish
    <3>4. epoch[Order[i]] = 0
      BY <2>1, <3>1 DEF StartInv
    <3> QED  BY <1>t, <3>2, <3>3, <3>4
  <2> QED  BY <2>1, <2>2, <2>3
<1>2. ASSUME NEW m \in Machines, epoch'[m] = 0
      PROVE  cur'[m] = Initial[m] /\ rec'[m].state = NoState
  <2>1. CASE UNCHANGED <<cur, epoch, rec>>
    BY <1>2, <2>1 DEF StartInv
  <2>2. CASE Entry
    <3>0. PICK n \in Machines : \E s \in StatesOf(n) : enterState(n, s)
      BY <2>2 DEF Entry
    <3>1. PICK s \in StatesOf(n) : enterState(n, s)
      BY <3>0
    <3>4. epoch'[n] = epoch[n] + 1 /\ epoch[n] \in Nat
      BY <3>1, EnterFields
    <3>2. n # m
      BY <1>2, <3>4
    <3>3. cur'[m] = cur[m] /\ epoch'[m] = epoch[m] /\ rec'[m] = rec[m]
      BY <3>1, <3>2, EnterFields
    <3> QED  BY <1>2, <3>3 DEF StartInv
  <2>3. ASSUME NEW c \in Callers, StampPayload(c), UNCHANGED <<cur, epoch>>
        PROVE  cur'[m] = Initial[m] /\ rec'[m].state = NoState
    <3>1. Stamping(c)
      BY <2>3, StampFields DEF RecordInv
    <3>2. cur[m] = Initial[m] /\ rec[m].state = NoState /\ epoch[m] = 0
      BY <1>2, <2>3 DEF StartInv
    <3>3. caller[c].req.machine = m => epoch[m] # caller[c].req.epoch
      BY <3>1, <3>2 DEF Stamping, StartsHere, Nodeless, Def
    <3> QED  BY <2>3, <3>2, <3>3, StampFields
  <2>4. ASSUME NEW c \in Callers, Console(c) \/ Reporter(c), UNCHANGED <<cur, epoch>>
        PROVE  UNCHANGED <<cur, epoch, rec>> \/ StampPayload(c)
    BY <2>4, CallFields DEF HandPayload
  <2> QED  BY <2>1, <2>2, <2>3, <2>4, Steps DEF HandOver, Quiet
<1> QED  BY <1>1, <1>2 DEF StartInv

(* A step follows an edge of the program or leaves the machines alone.     *)
LEMMA GraphStep ==
  ASSUME TypeOK, RequestsInv, InterruptsInv, StartInv, [Next]_vars
  PROVE  [Graph!Next]_(Graph!vars)
<1>1. CASE UNCHANGED <<cur, epoch>>
  BY <1>1 DEF Graph!vars
<1>2. CASE Entry
  <2>0. PICK m \in Machines : \E s \in StatesOf(m) : enterState(m, s) /\ Why(m, s)
    BY <1>2 DEF Entry
  <2>1. PICK s \in StatesOf(m) : enterState(m, s) /\ Why(m, s)
    BY <2>0
  <2>2. cur' = [cur EXCEPT ![m] = s] /\ epoch' = [epoch EXCEPT ![m] = @ + 1]
    BY <2>1 DEF enterState, EnterLocal, EnterDaqLocal, Publish
  <2>3. ASSUME loop = "start", at \in DOMAIN Order, m = Order[at], s = Initial[m]
        PROVE  Graph!Enter(m, s)
    <3>1. at >= at
      BY DEF TypeOK, LoopTypeOK
    <3> QED  BY <2>2, <2>3, <3>1 DEF StartInv, Graph!Enter
  <2>4. ASSUME NEW q \in Requests, q.machine = m, q.target = s, ~Stale(q)
        PROVE  Graph!Enter(m, s)
    <3>1. Graph!Edge(m, cur[m], s) \/ Graph!Interrupt(m, s)
      BY <2>4 DEF RequestsInv, Justified, InterruptsInv, Stale
    <3> QED  BY <2>2, <3>1 DEF Graph!Enter
  <2>5. ASSUME s \in TargetsOf(Def(m).controller)
        PROVE  Graph!Enter(m, s)
    <3>1. Graph!Edge(m, cur[m], s)
      BY <2>5, GraphEdge DEF Def
    <3> QED  BY <2>2, <3>1 DEF Graph!Enter
  <2>6. Graph!Enter(m, s)
    BY <2>1, <2>3, <2>4, <2>5 DEF Why
  <2>7. s \in Graph!StatesOf(m)
    BY DEF StatesOf, Graph!StatesOf
  <2> QED  BY <2>6, <2>7 DEF Graph!Next
<1> QED  BY <1>1, <1>2, EntrySteps

GraphInv == StartsHere /\ Core /\ InterruptsInv /\ StartInv

(* The engine implements the program's graph: every entry follows an edge  *)
(* declared by the state being left, or is an operator's, a command's or   *)
(* an abort's, whatever the program and however many goroutines race.      *)
THEOREM Implements == StartsHere /\ Spec => FollowsGraph
<1>1. StartsHere /\ Init => GraphInv
  <2> SUFFICES ASSUME StartsHere, Init PROVE GraphInv
    OBVIOUS
  <2>1. Core
    BY RequestsInit DEF Core
  <2>2. StartInv
    BY EngineAssumption DEF Init, StartInv, NoRecord
  <2>3. InterruptsInv
    <3>1. InHand = {}
      BY DEF Init, InHand, Idle
    <3> QED  BY <3>1, RangeEmpty DEF Init, InterruptsInv, Requests, Queued
  <2> QED  BY <2>1, <2>2, <2>3 DEF GraphInv
<1>2. GraphInv /\ [Next]_vars => GraphInv'
  BY NextType, RunsNext, RecordNext, RequestsNext, InterruptsNext, StartNext
     DEF GraphInv, Core, StartsHere, Nodeless
<1>3. Init => Graph!Init
  BY DEF Init, Graph!Init
<1>4. GraphInv /\ [Next]_vars => [Graph!Next]_(Graph!vars)
  BY GraphStep DEF GraphInv, Core
<1> QED  BY <1>1, <1>2, <1>3, <1>4, PTL DEF Spec, FollowsGraph, Graph!Spec

-----------------------------------------------------------------------------
(* No wake-up is lost.                                                     *)

Signalling == \/ \E c \in Reporters : caller[c].at = "signal"
              \/ \E r \in runs : r.at = "signal"

LEMMA WakeupKept ==
  ASSUME NoLostWakeup, prio' = prio, prioSig => prioSig',
         loop = "drain" => loop' = "drain", Signalling => Signalling' \/ prioSig'
  PROVE  NoLostWakeup'
BY DEF NoLostWakeup, Signalling

LEMMA MarkedAt ==
  ASSUME NEW r \in RunSet, NEW m
  PROVE  Marked(r, m).at = r.at
<1>1. [r EXCEPT !.cancelled = TRUE].at = r.at
  BY DEF RunSet
<1> QED  BY <1>1 DEF Marked

LEMMA EnterSignalling ==
  ASSUME TypeOK, NEW m, NEW s, enterState(m, s), UNCHANGED caller, Signalling
  PROVE  Signalling'
<1>1. CASE \E c \in Reporters : caller[c].at = "signal"
  BY <1>1 DEF Signalling
<1>2. ASSUME NEW r \in runs, r.at = "signal"
      PROVE  Signalling'
  <2>1. Marked(r, m) \in Cancelled(m)
    BY DEF Cancelled, Marked
  <2>2. Cancelled(m) \subseteq runs'
    BY DEF enterState, EnterLocal, EnterDaqLocal
  <2>3. Marked(r, m).at = "signal"
    BY <1>2, MarkedAt DEF TypeOK, MachineTypeOK
  <2> QED  BY <2>1, <2>2, <2>3 DEF Signalling
<1> QED  BY <1>1, <1>2 DEF Signalling

LEMMA ApplySignalling ==
  ASSUME TypeOK, NEW q, applyTransition(q), UNCHANGED caller, Signalling
  PROVE  Signalling'
<1>1. CASE UNCHANGED machineVars
  BY <1>1 DEF machineVars, Signalling
<1>2. CASE enterState(q.machine, q.target)
  BY <1>2, EnterSignalling
<1> QED  BY <1>1, <1>2 DEF applyTransition

LEMMA WakeupLoop ==
  ASSUME TypeOK, NoLostWakeup, Loop
  PROVE  NoLostWakeup'
<1>r. runs \subseteq RunSet
  BY DEF TypeOK, MachineTypeOK
<1>1. CASE HandOver \/ SelectDone \/ DrainTransitionsDone \/ ControllerAssign \/ ControllerIf
           \/ ControllerDone
  <2>1. UNCHANGED <<prio, prioSig, runs, caller>> /\ (loop = "drain" => loop' = "drain")
    BY <1>1 DEF HandOver, SelectDone, DrainTransitionsDone, ControllerAssign, ControllerIf,
       ControllerDone, AtStmt, InController, LoopAt, machineVars, queueVars, loopVars, envVars
  <2> QED  BY <2>1, WakeupKept DEF Signalling
<1>2. CASE SelectPriority \/ SelectTick \/ TakeBatch \/ ApplyBatch
  BY <1>2 DEF SelectPriority, SelectTick, TakeBatch, ApplyBatch, LoopAt, NoLostWakeup
<1>3. CASE DrainDone
  BY <1>3 DEF DrainDone, NoLostWakeup, queueVars
<1>4. CASE SelectTransition \/ DrainTransition
  <2>1. /\ applyTransition(Head(transitions)) /\ UNCHANGED <<prio, prioSig, caller>>
        /\ loop # "drain"
    BY <1>4 DEF SelectTransition, DrainTransition, LoopAt, envVars
  <2> QED  BY <2>1, ApplySignalling, WakeupKept
<1>5. CASE Start \/ ControllerTransition
  <2>1. /\ \E m, s : enterState(m, s)
        /\ UNCHANGED <<prio, prioSig, caller>> /\ loop # "drain"
    BY <1>5 DEF Start, ControllerTransition, AtStmt, InController, LoopAt, queueVars, envVars
  <2> QED  BY <2>1, EnterSignalling, WakeupKept
<1>6. CASE ControllerCommand
  BY <1>6 DEF ControllerCommand, enqueuePriority, NoLostWakeup
<1>7. CASE PokeRuns
  <2>1. UNCHANGED <<prio, prioSig, caller>> /\ loop # "drain"
    BY <1>7 DEF PokeRuns, LoopAt, queueVars, envVars
  <2>2. ASSUME NEW r \in runs, r.at = "signal"
        PROVE  \E q \in runs' : q.at = "signal"
    <3>1. [r EXCEPT !.poked = r.poked \/ r.epoch = run[r.machine]].at = "signal"
      BY <1>r, <2>2 DEF RunSet
    <3>2. [r EXCEPT !.poked = r.poked \/ r.epoch = run[r.machine]] \in runs'
      BY <1>7 DEF PokeRuns
    <3> QED  BY <3>1, <3>2
  <2> QED  BY <2>1, <2>2, WakeupKept DEF Signalling
<1> QED  BY <1>1, <1>2, <1>3, <1>4, <1>5, <1>6, <1>7 DEF Loop

LEMMA WakeupRun ==
  ASSUME TypeOK, NoLostWakeup, NEW r \in runs, Run(r)
  PROVE  NoLostWakeup'
<1>r. r \in RunSet
  BY DEF TypeOK, MachineTypeOK
<1>1. CASE RunCommand(r)
  <2>1. [r EXCEPT !.at = "signal"].at = "signal"
    BY <1>r DEF RunSet
  <2> QED  BY <1>1, <2>1 DEF RunCommand, Become, NoLostWakeup
<1>2. CASE RunSignal(r)
  BY <1>2 DEF RunSignal, NoLostWakeup
<1>3. CASE ~RunCommand(r) /\ ~RunSignal(r)
  <2>1. /\ UNCHANGED <<prio, prioSig, loop, caller>> /\ r.at # "signal"
        /\ runs \ {r} \subseteq runs'
    BY <1>3 DEF Run, RunEnd, RunFetch, RunError, RunAssign, RunIf, RunPoll, RunAwait, RunSend,
       AtRunStmt, Step, Become, Exit, runStable, queueVars, loopVars
  <2> QED  BY <2>1, WakeupKept DEF Signalling
<1> QED  BY <1>1, <1>2, <1>3

LEMMA WakeupCall ==
  ASSUME TypeOK, NoLostWakeup, NEW c \in Callers,
         Console(c) \/ (c \in Reporters /\ Reporter(c))
  PROVE  NoLostWakeup'
<1>c. caller \in [Callers -> CallSet]
  BY DEF TypeOK, EnvTypeOK
<1>1. CASE AppendPriority(c) /\ c \in Reporters
  <2>1. caller'[c].at = "signal"
    BY <1>c, <1>1 DEF AppendPriority
  <2> QED  BY <1>1, <2>1 DEF NoLostWakeup
<1>2. CASE SignalPriority(c)
  BY <1>2 DEF SignalPriority, NoLostWakeup
<1>3. ASSUME UNCHANGED <<prio, prioSig, loop, runs>>, caller[c].at # "signal",
             \A d \in Callers \ {c} : caller'[d] = caller[d]
      PROVE  NoLostWakeup'
  BY <1>3, WakeupKept DEF Signalling, Callers
<1>4. Idle.at # "signal"
  BY DEF Idle
<1>5. ASSUME ~(AppendPriority(c) /\ c \in Reporters), ~SignalPriority(c)
      PROVE  UNCHANGED <<prio, prioSig, loop, runs>> /\ caller[c].at # "signal"
  BY <1>4, <1>5 DEF Console, Reporter, RequestTarget, Begins, OfferTransition,
     NotifyAbortTriggered, NotifySequenceComplete, NotifyUncertain, CurrentDaqPayload,
     ResolvePayload, StampPayload, HandPayload, callerStable, loopVars, queueVars
<1>6. \A d \in Callers \ {c} : caller'[d] = caller[d]
  BY CallFields
<1> QED  BY <1>1, <1>2, <1>3, <1>5, <1>6

LEMMA WakeupNext == TypeOK /\ NoLostWakeup /\ [Next]_vars => NoLostWakeup'
<1> SUFFICES ASSUME TypeOK, NoLostWakeup, [Next]_vars PROVE NoLostWakeup'
  OBVIOUS
<1>1. CASE Shutdown \/ UNCHANGED vars
  <2>1. UNCHANGED <<prio, prioSig, loop, runs, caller>>
    BY <1>1 DEF Shutdown, vars, machineVars, queueVars, loopVars, envVars
  <2> QED  BY <2>1, WakeupKept DEF Signalling
<1>2. ASSUME NEW c \in Consoles, Console(c)
      PROVE  NoLostWakeup'
  BY <1>2, WakeupCall DEF Callers
<1>3. ASSUME NEW c \in Reporters, Reporter(c)
      PROVE  NoLostWakeup'
  BY <1>3, WakeupCall DEF Callers
<1> QED  BY <1>1, <1>2, <1>3, WakeupLoop, WakeupRun DEF Next

(* A priority request (an abort, a completion, a command) is never left in *)
(* the queue with nobody to look at it, however many senders race.         *)
THEOREM Wakeups == Spec => []NoLostWakeup
<1>1. Init => TypeOK /\ NoLostWakeup
  BY InitType DEF Init, NoLostWakeup
<1>2. TypeOK /\ NoLostWakeup /\ [Next]_vars => (TypeOK /\ NoLostWakeup)'
  BY NextType, WakeupNext
<1> QED  BY <1>1, <1>2, PTL DEF Spec

-----------------------------------------------------------------------------
(* Run ids are unique.                                                     *)

LEMMA IdsKept ==
  ASSUME IdsInv, Holders' \subseteq Holders, runId' = runId
  PROVE  IdsInv'
BY DEF IdsInv

(* A new id may be given to one machine, wherever it is held.              *)
LEMMA IdsFresh ==
  ASSUME TypeOK, IdsInv, NEW m, runId' = runId + 1,
         Holders' \subseteq Holders \cup {[machine |-> m, id |-> runId + 1]}
  PROVE  IdsInv'
<1>1. \A h \in Holders : h.id <= runId /\ h.id \in Nat
  <2>1. \A n \in Machines : rec[n].runId \in Nat /\ handed[n] \in Nat
    BY DEF TypeOK, MachineTypeOK, EnvTypeOK, RecordSet
  <2>2. pend # NoPayload => pend.runId \in Nat
    BY DEF TypeOK, MachineTypeOK, PayloadSet
  <2>3. \A c \in Callers : caller[c].at \in {"stamp", "hand"} => caller[c].runId \in Nat
    BY CallType DEF TypeOK, EnvTypeOK
  <2> QED  BY <2>1, <2>2, <2>3 DEF IdsInv, Holders
<1>2. runId \in Nat
  BY DEF TypeOK, MachineTypeOK
<1>3. ASSUME NEW h \in Holders'
      PROVE  h.id <= runId + 1 /\ (h \in Holders \/ (h.id = runId + 1 /\ h.machine = m))
  BY <1>1, <1>2
<1>4. \A g, h \in Holders' : g.id = h.id /\ g.id # 0 => g.machine = h.machine
  BY <1>1, <1>2, <1>3 DEF IdsInv
<1> QED  BY <1>3, <1>4 DEF IdsInv

LEMMA IdsEntry ==
  ASSUME TypeOK, IdsInv, Entry
  PROVE  IdsInv'
<1>0. PICK m \in Machines : \E s \in StatesOf(m) :
        enterState(m, s) /\ pend = NoPayload /\ UNCHANGED envVars
  BY DEF Entry
<1>1. PICK s \in StatesOf(m) : enterState(m, s) /\ pend = NoPayload /\ UNCHANGED envVars
  BY <1>0
<1>2. \A n \in Machines \ {m} : rec'[n] = rec[n]
  BY <1>1, EnterFields
<1>e. UNCHANGED <<caller, handed>>
  BY <1>1 DEF envVars
<1>3. CASE UNCHANGED <<rec, runId, pend>>
  <2>1. Holders' \subseteq Holders
    BY <1>e, <1>3 DEF Holders
  <2> QED  BY <1>3, <2>1, IdsKept
<1>4. CASE /\ runId' = runId + 1
           /\ rec'[m] = [state |-> s, epoch |-> epoch[m] + 1, runId |-> runId + 1]
           /\ pend' = [machine |-> m, runId |-> runId + 1]
  <2>1. rec'[m].runId = runId + 1 /\ pend'.machine = m /\ pend'.runId = runId + 1
    BY <1>4
  <2>2. Holders' \subseteq Holders \cup {[machine |-> m, id |-> runId + 1]}
    BY <1>e, <1>2, <2>1 DEF Holders
  <2> QED  BY <1>4, <2>2, IdsFresh
<1> QED  BY <1>1, <1>3, <1>4, EnterFields

LEMMA IdsHandOver ==
  ASSUME TypeOK, IdsInv, HandOver
  PROVE  IdsInv'
<1>1. /\ UNCHANGED <<rec, runId, caller>> /\ pend' = NoPayload /\ pend # NoPayload
      /\ handed \in [Machines -> Nat]
      /\ handed' = [handed EXCEPT ![pend.machine] = pend.runId]
  BY DEF HandOver, TypeOK, EnvTypeOK
<1>2. \A n \in Machines : handed'[n] = handed[n] \/ (n = pend.machine /\ handed'[n] = pend.runId)
  BY <1>1
<1>3. Holders' \subseteq Holders
  BY <1>1, <1>2 DEF Holders
<1> QED  BY <1>1, <1>3, IdsKept

LEMMA IdsCall ==
  ASSUME TypeOK, IdsInv, NEW c \in Callers, Console(c) \/ Reporter(c)
  PROVE  IdsInv'
<1>1. /\ UNCHANGED pend /\ \A d \in Callers \ {c} : caller'[d] = caller[d]
  BY CallFields
<1>2. ASSUME caller'[c].at \notin {"stamp", "hand"}, UNCHANGED <<rec, runId, handed>>
      PROVE  IdsInv'
  <2>1. Holders' \subseteq Holders
    BY <1>1, <1>2 DEF Holders
  <2> QED  BY <1>2, <2>1, IdsKept
<1>3. ASSUME UNCHANGED <<rec, handed>>, runId' = runId + 1,
             caller'[c] = [at |-> "stamp", req |-> caller[c].req, runId |-> runId + 1]
      PROVE  IdsInv'
  <2>1. caller'[c].req = caller[c].req /\ caller'[c].runId = runId + 1
    BY <1>3
  <2>2. Holders' \subseteq Holders \cup {[machine |-> caller[c].req.machine, id |-> runId + 1]}
    BY <1>1, <1>3, <2>1 DEF Holders
  <2> QED  BY <1>3, <2>2, IdsFresh
<1>4. CASE StampPayload(c)
  <2>1. /\ caller[c].at = "stamp" /\ caller'[c].req = caller[c].req
        /\ caller'[c].runId = caller[c].runId /\ UNCHANGED <<runId, handed>>
        /\ \A n \in Machines \ {caller[c].req.machine} : rec'[n] = rec[n]
    BY <1>4, StampFields
  <2>4. \/ UNCHANGED rec
        \/ rec'[caller[c].req.machine].runId = caller[c].runId
    <3>1. \/ UNCHANGED rec
          \/ rec'[caller[c].req.machine] =
               [state |-> caller[c].req.target, epoch |-> caller[c].req.epoch,
                runId |-> caller[c].runId]
      BY <1>4, StampFields
    <3> QED  BY <3>1
  <2>2. \A n \in Machines : \/ rec'[n].runId = rec[n].runId
                            \/ n = caller[c].req.machine /\ rec'[n].runId = caller[c].runId
    BY <2>1, <2>4
  <2>3. Holders' \subseteq Holders
    BY <1>1, <2>1, <2>2 DEF Holders
  <2> QED  BY <2>1, <2>3, IdsKept
<1>5. CASE HandPayload(c)
  <2>1. /\ caller[c].at = "hand" /\ UNCHANGED <<rec, runId>>
        /\ caller' = [caller EXCEPT ![c] = Idle]
        /\ handed' = [handed EXCEPT ![caller[c].req.machine] = caller[c].runId]
    BY <1>5 DEF HandPayload
  <2>2. /\ caller \in [Callers -> CallSet] /\ handed \in [Machines -> Nat]
        /\ Idle.at = "idle"
    BY DEF TypeOK, EnvTypeOK, Idle
  <2>3. \A n \in Machines : \/ handed'[n] = handed[n]
                            \/ n = caller[c].req.machine /\ handed'[n] = caller[c].runId
    BY <2>1, <2>2
  <2>4. caller'[c].at = "idle"
    BY <2>1, <2>2
  <2>5. Holders' \subseteq Holders
    BY <1>1, <2>1, <2>3, <2>4 DEF Holders
  <2> QED  BY <2>1, <2>5, IdsKept
<1> QED  BY <1>2, <1>3, <1>4, <1>5, CallFields

LEMMA IdsNext == TypeOK /\ IdsInv /\ [Next]_vars => IdsInv'
<1> SUFFICES ASSUME TypeOK, IdsInv, [Next]_vars PROVE IdsInv'
  OBVIOUS
<1>1. CASE Quiet
  <2>1. Holders' \subseteq Holders
    BY <1>1 DEF Quiet, Holders
  <2> QED  BY <1>1, <2>1, IdsKept DEF Quiet
<1> QED  BY <1>1, IdsEntry, IdsHandOver, IdsCall, Steps

LEMMA IdsInit == Init => IdsInv
<1> SUFFICES ASSUME Init PROVE IdsInv
  OBVIOUS
<1>1. \A c \in Callers : caller[c].at = "idle"
  BY DEF Init, Idle
<1>2. \A h \in Holders : h.id = 0
  BY <1>1 DEF Init, Holders, NoRecord
<1> QED  BY <1>2 DEF IdsInv, Init

(* No two machines' payloads ever carry the same run id, so a completion   *)
(* can never be credited to another machine's run.                         *)
THEOREM RunIds == Spec => []RunIdsUnique
<1>1. Init => TypeOK /\ IdsInv
  BY InitType, IdsInit
<1>2. TypeOK /\ IdsInv /\ [Next]_vars => (TypeOK /\ IdsInv)'
  BY NextType, IdsNext
<1>3. IdsInv => RunIdsUnique
  <2> SUFFICES ASSUME IdsInv, NEW m \in Machines, NEW n \in Machines
               PROVE  /\ rec[m].runId <= runId /\ handed[m] <= runId
                      /\ m # n /\ rec[m].runId = rec[n].runId => rec[m].runId = 0
                      /\ m # n /\ handed[m] = handed[n] => handed[m] = 0
    BY DEF RunIdsUnique
  <2> DEFINE R(k) == [machine |-> k, id |-> rec[k].runId]
             H(k) == [machine |-> k, id |-> handed[k]]
  <2>1. R(m) \in Holders /\ R(n) \in Holders /\ H(m) \in Holders /\ H(n) \in Holders
    BY DEF Holders
  <2>2. \A g, h \in Holders : g.id <= runId /\ (g.id = h.id /\ g.id # 0 => g.machine = h.machine)
    BY DEF IdsInv
  <2>3. R(m).id <= runId /\ H(m).id <= runId
    BY <2>1, <2>2
  <2>4. R(m).id = R(n).id /\ R(m).id # 0 => R(m).machine = R(n).machine
    BY <2>1, <2>2
  <2>5. H(m).id = H(n).id /\ H(m).id # 0 => H(m).machine = H(n).machine
    BY <2>1, <2>2
  <2> QED  BY <2>3, <2>4, <2>5
<1> QED  BY <1>1, <1>2, <1>3, PTL DEF Spec
=============================================================================
