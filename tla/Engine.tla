------------------------------- MODULE Engine -------------------------------
(***************************************************************************)
(* The state-machine engine: one loop goroutine that owns every state      *)
(* change, the sequence goroutines it starts and cancels, and the          *)
(* goroutines that ask it for changes (operator consoles and the DAQ       *)
(* clients' report handlers).  Everything a goroutine does between two     *)
(* accesses to state another goroutine can touch is one action.            *)
(***************************************************************************)
EXTENDS MachineProgram, FiniteSets

CONSTANTS
  Order,           \* Engine.order: the machines in program order
  Consoles,        \* goroutines that call RequestTarget
  Reporters,       \* goroutines that call Notify* and CurrentDaqPayload
  TransitionsCap,  \* capacity of the transitions channel (64 in New)
  MaxStimuli,      \* bound: calls made by consoles and reporters
  MayStop          \* bound: whether the engine's context may be cancelled

(* main starts an engine only for a program with machines, and Compile     *)
(* refuses two machines of one name.                                       *)
ASSUME EngineAssumption ==
  /\ Order \in Seq(Machines) /\ Order # <<>>
  /\ \A i, j \in DOMAIN Order : Order[i] = Order[j] => i = j
  /\ \A m \in Machines : \E i \in DOMAIN Order : Order[i] = m
  /\ TransitionsCap \in Nat \ {0}
  /\ MaxStimuli \in Nat
  /\ MayStop \in BOOLEAN

VARIABLES
  cur, epoch,     \* machineRT.cur, machineRT.epoch
  rec,            \* machineRT.{daqState, daqEpoch, daqRunID}
  run,            \* machineRT.run: epoch of the run the loop holds, 0 if nil
  runs,           \* the live sequence goroutines
  runId,          \* Engine.runID
  prio, prioSig,  \* Engine.prio, and whether a wake-up is in prioSig
  transitions,    \* Engine.transitions
  loop, back,     \* where the loop is, and where a drain returns to
  batch,          \* drainPriority's batch, the requests still to apply
  at, pc,         \* machine and controller statement the loop is at
  pend,           \* payload enterState resolved and has not handed over yet
  caller,         \* what each console or reporter is in the middle of
  handed,         \* run id of the last payload handed to the DAQ client
  stopping,       \* the context passed to Run is cancelled
  stimuli         \* calls made so far, bounded by MaxStimuli

machineVars == <<cur, epoch, rec, run, runs, runId, pend>>
queueVars == <<prio, prioSig, transitions>>
loopVars == <<loop, back, batch, at, pc>>
envVars == <<caller, handed, stopping, stimuli>>
vars == <<machineVars, queueVars, loopVars, envVars>>

Callers == Consoles \cup Reporters

(* transitionReq.                                                          *)
Request(m, t, e) == [machine |-> m, target |-> t, epoch |-> e]
Command(st) == Request(st.machine, st.to, 0)

Idle == [at |-> "idle"]
NoPayload == [runId |-> 0]
NoRecord == [state |-> NoState, epoch |-> 0, runId |-> 0]

Def(m) == Program[m][cur[m]]
Poking == {"sleep", "wait"}

-----------------------------------------------------------------------------
(* enterState: cancel the run, resolve the payload (which may fail),       *)
(* publish state, epoch and correlation record in one mutex hold, then     *)
(* start the sequence or leave the payload to hand over.                   *)

(* Fault: the old run is forgotten, not cancelled.                         *)
CancelledNone(m) == runs

Cancelled(m) ==
  {IF r.machine = m /\ r.epoch = run[m] THEN [r EXCEPT !.cancelled = TRUE] ELSE r
     : r \in runs}

NewRun(m, s, e) ==
  [machine |-> m, state |-> s, epoch |-> e, pc |-> 1, at |-> "check",
   left |-> 0, poked |-> FALSE, cancelled |-> FALSE]

Publish(m, s) ==
  /\ cur' = [cur EXCEPT ![m] = s]
  /\ epoch' = [epoch EXCEPT ![m] = @ + 1]

EnterLocal(m, s) ==
  /\ Program[m][s].node = NoNode
  /\ Publish(m, s)
  /\ IF Program[m][s].sequence = <<>>
     THEN run' = [run EXCEPT ![m] = 0] /\ runs' = Cancelled(m)
     ELSE /\ run' = [run EXCEPT ![m] = epoch[m] + 1]
          /\ runs' = Cancelled(m) \cup {NewRun(m, s, epoch[m] + 1)}
  /\ UNCHANGED <<rec, runId, pend>>

(* Fault: the loop does not take its run ids from the shared counter.      *)
EnterDaqReused(m, s) ==
  /\ Program[m][s].node # NoNode
  /\ Publish(m, s)
  /\ run' = [run EXCEPT ![m] = 0]
  /\ runs' = Cancelled(m)
  /\ runId' = 1
  /\ rec' = [rec EXCEPT ![m] = [state |-> s, epoch |-> epoch[m] + 1, runId |-> 1]]
  /\ pend' = [machine |-> m, runId |-> 1]

EnterDaqLocal(m, s) ==
  /\ Program[m][s].node # NoNode
  /\ Publish(m, s)
  /\ run' = [run EXCEPT ![m] = 0]
  /\ runs' = Cancelled(m)
  /\ \/ /\ runId' = runId + 1
        /\ rec' = [rec EXCEPT ![m] = [state |-> s, epoch |-> epoch[m] + 1,
                                      runId |-> runId + 1]]
        /\ pend' = [machine |-> m, runId |-> runId + 1]
     \/ UNCHANGED <<rec, runId, pend>>       \* unresolvable: onError only

enterState(m, s) == EnterLocal(m, s) \/ EnterDaqLocal(m, s)

(* The end of enterState: onDaqEnter hands the payload to the client.      *)
HandOver ==
  /\ pend # NoPayload
  /\ handed' = [handed EXCEPT ![pend.machine] = pend.runId]
  /\ pend' = NoPayload
  /\ UNCHANGED <<cur, epoch, rec, run, runs, runId, queueVars, loopVars,
                 caller, stopping, stimuli>>

(* Fault: the epoch of a request is not compared.                          *)
StaleNever(q) == FALSE

(* Fault: epoch 0 is compared too.                                         *)
StaleUnexempted(q) == q.epoch # epoch[q.machine]

Stale(q) == q.epoch # 0 /\ q.epoch # epoch[q.machine]

applyTransition(q) ==
  IF Stale(q) \/ q.target \notin StatesOf(q.machine)
  THEN UNCHANGED machineVars
  ELSE enterState(q.machine, q.target)

enqueuePriority(q) == prio' = Append(prio, q) /\ prioSig' = TRUE

-----------------------------------------------------------------------------
(* The loop goroutine.                                                     *)

LoopAt(l) == loop = l /\ pend = NoPayload

(* Run: every machine enters its initial state.                            *)
Start ==
  /\ LoopAt("start")
  /\ enterState(Order[at], Initial[Order[at]])
  /\ at' = at + 1
  /\ loop' = IF at = Len(Order) THEN "select" ELSE "start"
  /\ UNCHANGED <<queueVars, back, batch, pc, envVars>>

(* Run: the select.  A wake-up, a queued transition, or the clock.         *)
SelectPriority ==
  /\ LoopAt("select") /\ prioSig
  /\ prioSig' = FALSE
  /\ loop' = "drain" /\ back' = "select"
  /\ UNCHANGED <<machineVars, prio, transitions, batch, at, pc, envVars>>

SelectTransition ==
  /\ LoopAt("select") /\ transitions # <<>>
  /\ transitions' = Tail(transitions)
  /\ applyTransition(Head(transitions))
  /\ UNCHANGED <<prio, prioSig, loopVars, envVars>>

SelectTick ==
  /\ LoopAt("select")
  /\ runs' = {[r EXCEPT !.left = IF @ > 0 THEN @ - 1 ELSE @] : r \in runs}
  /\ loop' = "drain" /\ back' = "tick"
  /\ UNCHANGED <<cur, epoch, rec, run, runId, pend, queueVars, batch, at, pc, envVars>>

SelectDone ==
  /\ LoopAt("select") /\ stopping
  /\ loop' = "stopped"
  /\ run' = [m \in Machines |-> 0]
  /\ UNCHANGED <<cur, epoch, rec, runs, runId, pend, queueVars, back, batch, at, pc,
                 envVars>>

(* drainPriority: take the whole slice, apply it, until it is empty.       *)
TakeBatch ==
  /\ LoopAt("drain") /\ batch = <<>> /\ prio # <<>>
  /\ batch' = prio
  /\ prio' = <<>>
  /\ UNCHANGED <<machineVars, prioSig, transitions, loop, back, at, pc, envVars>>

ApplyBatch ==
  /\ LoopAt("drain") /\ batch # <<>>
  /\ batch' = Tail(batch)
  /\ applyTransition(Head(batch))
  /\ UNCHANGED <<queueVars, loop, back, at, pc, envVars>>

DrainDone ==
  /\ LoopAt("drain") /\ batch = <<>> /\ prio = <<>>
  /\ loop' = IF back = "tick" THEN "transitions" ELSE "select"
  /\ UNCHANGED <<machineVars, queueVars, back, batch, at, pc, envVars>>

(* drainTransitions.                                                       *)
DrainTransition ==
  /\ LoopAt("transitions") /\ transitions # <<>>
  /\ transitions' = Tail(transitions)
  /\ applyTransition(Head(transitions))
  /\ UNCHANGED <<prio, prioSig, loopVars, envVars>>

DrainTransitionsDone ==
  /\ LoopAt("transitions") /\ transitions = <<>>
  /\ loop' = "controllers" /\ at' = 1 /\ pc' = 1
  /\ UNCHANGED <<machineVars, queueVars, back, batch, envVars>>

(* tick: each machine's controller, one statement at a time.               *)
InController == LoopAt("controllers") /\ at <= Len(Order)
ControllerStmts == Def(Order[at]).controller
AtStmt(op) == /\ InController
              /\ pc \in DOMAIN ControllerStmts
              /\ ControllerStmts[pc].op = op
NextMachine == at' = at + 1 /\ pc' = 1
NextStmt == pc' \in ControllerStmts[pc].next /\ UNCHANGED at

ControllerAssign ==
  /\ AtStmt("assign")
  /\ NextStmt
  /\ UNCHANGED <<machineVars, queueVars, loop, back, batch, caller, handed,
                 stopping, stimuli>>

ControllerIf ==
  /\ AtStmt("if") /\ NextStmt
  /\ UNCHANGED <<machineVars, queueVars, loop, back, batch, envVars>>

ControllerCommand ==
  /\ AtStmt("command")
  /\ enqueuePriority(Command(ControllerStmts[pc]))
  /\ NextStmt
  /\ UNCHANGED <<machineVars, transitions, loop, back, batch, envVars>>

ControllerTransition ==
  /\ AtStmt("transition")
  /\ enterState(Order[at], ControllerStmts[pc].to)
  /\ NextMachine
  /\ UNCHANGED <<queueVars, loop, back, batch, envVars>>

(* The end of the block, or an evaluation or write error that abandons it. *)
ControllerDone ==
  /\ InController
  /\ \/ pc \notin DOMAIN ControllerStmts
     \/ AtStmt("assign") \/ AtStmt("if")
  /\ NextMachine
  /\ UNCHANGED <<machineVars, queueVars, loop, back, batch, envVars>>

(* The end of tick: poke every run the loop holds.                         *)
(* Fault: the runs are not woken.                                          *)
PokeRunsNone ==
  /\ LoopAt("controllers") /\ at > Len(Order)
  /\ loop' = "select"
  /\ UNCHANGED <<machineVars, queueVars, back, batch, at, pc, envVars>>

PokeRuns ==
  /\ LoopAt("controllers") /\ at > Len(Order)
  /\ runs' = {[r EXCEPT !.poked = @ \/ r.epoch = run[r.machine]] : r \in runs}
  /\ loop' = "select"
  /\ UNCHANGED <<cur, epoch, rec, run, runId, pend, queueVars, back, batch, at, pc,
                 envVars>>

Loop == \/ HandOver \/ Start
        \/ SelectPriority \/ SelectTransition \/ SelectTick \/ SelectDone
        \/ TakeBatch \/ ApplyBatch \/ DrainDone
        \/ DrainTransition \/ DrainTransitionsDone
        \/ ControllerAssign \/ ControllerIf \/ ControllerCommand
        \/ ControllerTransition \/ ControllerDone \/ PokeRuns

-----------------------------------------------------------------------------
(* A sequence goroutine: execSequence and the waits it calls.              *)

Block(r) == Program[r.machine][r.state].sequence
Stmt(r) == Block(r)[r.pc]
Done(r) == r.cancelled \/ stopping            \* r.ctx.Err() # nil
AtRunStmt(r, a, op) == r.at = a /\ r.pc \in DOMAIN Block(r) /\ Stmt(r).op = op

Become(r, s) == runs' = (runs \ {r}) \cup {s}
Exit(r) == runs' = runs \ {r}
Step(r) == \E n \in Stmt(r).next : Become(r, [r EXCEPT !.pc = n, !.at = "check"])

runStable == <<cur, epoch, rec, run, runId, pend, loopVars, caller, handed,
               stopping, stimuli>>

(* The head of the loop: no statement left, or the context is done.        *)
RunEnd(r) ==
  /\ r.at = "check"
  /\ r.pc \notin DOMAIN Block(r) \/ Done(r)
  /\ Exit(r)
  /\ UNCHANGED <<runStable, queueVars>>

(* The head of the loop with the context alive: the statement is chosen.   *)
RunFetch(r) ==
  /\ r.at = "check" /\ r.pc \in DOMAIN Block(r) /\ ~Done(r)
  /\ LET s == Stmt(r) IN
     \/ s.op \in {"assign", "if", "command"} /\ Become(r, [r EXCEPT !.at = "exec"])
     \/ s.op = "transition" /\ Become(r, [r EXCEPT !.at = "send"])
     \/ s.op \in Poking /\ Become(r, [r EXCEPT !.at = "poll", !.left = s.ticks])
  /\ UNCHANGED <<runStable, queueVars>>

(* An evaluation or write error ends the sequence through onError: of an   *)
(* assignment, a condition, or (once, as it begins) a sleep's duration.    *)
RunError(r) ==
  /\ \/ AtRunStmt(r, "exec", "assign") \/ AtRunStmt(r, "exec", "if")
     \/ AtRunStmt(r, "check", "sleep") /\ ~Done(r)
     \/ AtRunStmt(r, "poll", "wait")
  /\ Exit(r)
  /\ UNCHANGED <<runStable, queueVars>>

RunAssign(r) ==
  /\ AtRunStmt(r, "exec", "assign")
  /\ Step(r)
  /\ UNCHANGED <<runStable, queueVars>>

RunIf(r) ==
  /\ AtRunStmt(r, "exec", "if")
  /\ Step(r)
  /\ UNCHANGED <<runStable, queueVars>>

(* CommandMachine, and enqueuePriority's append and wake-up.               *)
RunCommand(r) ==
  /\ AtRunStmt(r, "exec", "command")
  /\ prio' = Append(prio, Command(Stmt(r)))
  /\ Become(r, [r EXCEPT !.at = "signal"])
  /\ UNCHANGED <<runStable, prioSig, transitions>>

(* Fault: the wake-up is forgotten.                                        *)
RunSignalNone(r) ==
  /\ AtRunStmt(r, "signal", "command")
  /\ Step(r)
  /\ UNCHANGED <<runStable, queueVars>>

RunSignal(r) ==
  /\ AtRunStmt(r, "signal", "command")
  /\ prioSig' = TRUE
  /\ Step(r)
  /\ UNCHANGED <<runStable, prio, transitions>>

(* execSleep and execWaitUntil: one evaluation of the loop's condition.    *)
RunPoll(r) ==
  /\ \/ /\ AtRunStmt(r, "poll", "sleep")
        /\ IF r.left <= 0 THEN Step(r) ELSE Become(r, [r EXCEPT !.at = "await"])
     \/ /\ AtRunStmt(r, "poll", "wait")
        /\ \/ Step(r)
           \/ IF r.left = 0
              THEN Become(r, [r EXCEPT !.at = "send"])
              ELSE Become(r, [r EXCEPT !.at = "await"])
  /\ UNCHANGED <<runStable, queueVars>>

(* await: cancellation or a poke, whichever select takes.                  *)
(* Fault: a blocked run does not listen to its context.                    *)
RunAwaitDeaf(r) ==
  /\ r.at = "await"
  /\ r.poked /\ Become(r, [r EXCEPT !.at = "poll", !.poked = FALSE])
  /\ UNCHANGED <<runStable, queueVars>>

RunAwait(r) ==
  /\ r.at = "await"
  /\ \/ Done(r) /\ Exit(r)
     \/ r.poked /\ Become(r, [r EXCEPT !.at = "poll", !.poked = FALSE])
  /\ UNCHANGED <<runStable, queueVars>>

(* requestTransition: a send on a bounded channel, or cancellation.        *)
(* Fault: the request is tagged with the machine's epoch, not the run's.   *)
RunSendRetagged(r) ==
  /\ r.at = "send"
  /\ \/ /\ Len(transitions) < TransitionsCap
        /\ transitions' = Append(transitions,
                                 Request(r.machine, Stmt(r).to, epoch[r.machine]))
     \/ Done(r) /\ UNCHANGED transitions
  /\ Exit(r)
  /\ UNCHANGED <<runStable, prio, prioSig>>

RunSend(r) ==
  /\ r.at = "send"
  /\ \/ /\ Len(transitions) < TransitionsCap
        /\ transitions' = Append(transitions, Request(r.machine, Stmt(r).to, r.epoch))
     \/ Done(r) /\ UNCHANGED transitions
  /\ Exit(r)
  /\ UNCHANGED <<runStable, prio, prioSig>>

Run(r) == \/ RunEnd(r) \/ RunFetch(r) \/ RunError(r) \/ RunAssign(r) \/ RunIf(r)
          \/ RunCommand(r) \/ RunSignal(r) \/ RunPoll(r) \/ RunAwait(r) \/ RunSend(r)

-----------------------------------------------------------------------------
(* Callers: operator consoles and DAQ report handlers.                     *)

callerStable == <<cur, epoch, run, runs, pend, loopVars, stopping>>

Begins(c, call) ==
  /\ caller[c] = Idle /\ stimuli < MaxStimuli
  /\ stimuli' = stimuli + 1
  /\ caller' = [caller EXCEPT ![c] = call]
  /\ UNCHANGED <<callerStable, rec, runId, queueVars, handed>>

(* RequestTarget: the gate, judged against the state read here ...         *)
RequestTarget(c, m, t) ==
  /\ Commandable(m, cur[m], t)
  /\ Begins(c, [at |-> "offer", req |-> Request(m, t, 0)])

(* ... and the send that never blocks: it is refused when the queue is full. *)
(* Fault: the send does not look at the capacity.                          *)
OfferUnbounded(c) ==
  /\ caller[c].at = "offer"
  /\ transitions' = Append(transitions, caller[c].req)
  /\ caller' = [caller EXCEPT ![c] = Idle]
  /\ UNCHANGED <<callerStable, rec, runId, prio, prioSig, handed, stimuli>>

OfferTransition(c) ==
  /\ caller[c].at = "offer"
  /\ transitions' = IF Len(transitions) < TransitionsCap
                    THEN Append(transitions, caller[c].req) ELSE transitions
  /\ caller' = [caller EXCEPT ![c] = Idle]
  /\ UNCHANGED <<callerStable, rec, runId, prio, prioSig, handed, stimuli>>

(* NotifyAbortTriggered: the destination the current state declares, or    *)
(* else the one the last armed state declared.                             *)
ArmedAbort(m) ==
  IF Def(m).abortTo # NoState THEN Def(m).abortTo
  ELSE IF rec[m].state # NoState THEN Program[m][rec[m].state].abortTo ELSE NoState

NotifyAbortTriggered(c, m) ==
  /\ ArmedAbort(m) # NoState
  /\ Begins(c, [at |-> "append", req |-> Request(m, ArmedAbort(m), 0)])

(* Fault: any run of the state completes it.                               *)
CorrelatesAnyRun(m, id) ==
  /\ rec[m].state = cur[m] /\ rec[m].epoch = epoch[m]
  /\ Def(m).doneTo # NoState

(* NotifySequenceCompleteRun: id 0 is a report without a run id.           *)
Correlates(m, id) ==
  /\ rec[m].state = cur[m] /\ rec[m].epoch = epoch[m]
  /\ id = 0 \/ id = rec[m].runId
  /\ Def(m).doneTo # NoState

NotifySequenceComplete(c, m, id) ==
  /\ Correlates(m, id)
  /\ Begins(c, [at |-> "append", req |-> Request(m, Def(m).doneTo, epoch[m])])

(* NotifyDaqReconnect and NotifyDaqFirstConnect: the state is uncertain.   *)
NotifyUncertain(c, m, n) ==
  /\ Def(m).node = n /\ Def(m).abortTo # NoState
  /\ Begins(c, [at |-> "append", req |-> Request(m, Def(m).abortTo, 0)])

AppendPriority(c) ==
  /\ caller[c].at = "append"
  /\ prio' = Append(prio, caller[c].req)
  /\ caller' = [caller EXCEPT ![c] = [at |-> "signal"]]
  /\ UNCHANGED <<callerStable, rec, runId, prioSig, transitions, handed, stimuli>>

SignalPriority(c) ==
  /\ caller[c].at = "signal"
  /\ prioSig' = TRUE
  /\ caller' = [caller EXCEPT ![c] = Idle]
  /\ UNCHANGED <<callerStable, rec, runId, prio, transitions, handed, stimuli>>

(* CurrentDaqPayload: read the state, allocate a run id, re-stamp the      *)
(* record if the epoch is the same; then the caller hands the payload over. *)
CurrentDaqPayload(c, m, n) ==
  /\ Def(m).node = n
  /\ Begins(c, [at |-> "resolve", req |-> Request(m, cur[m], epoch[m])])

(* Fault: the answer to a state_req bears the run id of the last payload.  *)
ResolveReused(c) ==
  /\ caller[c].at = "resolve"
  /\ caller' = [caller EXCEPT ![c] = [at |-> "stamp", req |-> @.req,
                                      runId |-> rec[@.req.machine].runId]]
  /\ UNCHANGED <<callerStable, rec, runId, queueVars, handed, stimuli>>

ResolvePayload(c) ==
  /\ caller[c].at = "resolve"
  /\ \/ /\ runId' = runId + 1
        /\ caller' = [caller EXCEPT ![c] = [at |-> "stamp", req |-> @.req,
                                            runId |-> runId + 1]]
     \/ /\ caller' = [caller EXCEPT ![c] = Idle]
        /\ UNCHANGED runId
  /\ UNCHANGED <<callerStable, rec, queueVars, handed, stimuli>>

(* Fault: the record is re-stamped whatever the epoch.                     *)
StampAlways(c) ==
  /\ caller[c].at = "stamp"
  /\ LET q == caller[c].req IN
     rec' = [rec EXCEPT ![q.machine] = [state |-> q.target, epoch |-> q.epoch,
                                        runId |-> caller[c].runId]]
  /\ caller' = [caller EXCEPT ![c].at = "hand"]
  /\ UNCHANGED <<callerStable, runId, queueVars, handed, stimuli>>

StampPayload(c) ==
  /\ caller[c].at = "stamp"
  /\ LET q == caller[c].req IN
     rec' = IF epoch[q.machine] = q.epoch
            THEN [rec EXCEPT ![q.machine] = [state |-> q.target, epoch |-> q.epoch,
                                             runId |-> caller[c].runId]]
            ELSE rec
  /\ caller' = [caller EXCEPT ![c].at = "hand"]
  /\ UNCHANGED <<callerStable, runId, queueVars, handed, stimuli>>

HandPayload(c) ==
  /\ caller[c].at = "hand"
  /\ handed' = [handed EXCEPT ![caller[c].req.machine] = caller[c].runId]
  /\ caller' = [caller EXCEPT ![c] = Idle]
  /\ UNCHANGED <<callerStable, rec, runId, queueVars, stimuli>>

Console(c) ==
  \/ \E m \in Machines : \E t \in StatesOf(m) : RequestTarget(c, m, t)
  \/ OfferTransition(c)

Reporter(c) ==
  \/ \E m \in Machines :
       \/ NotifyAbortTriggered(c, m)
       \/ \E id \in 0..runId : NotifySequenceComplete(c, m, id)
       \/ \E n \in Nodes : NotifyUncertain(c, m, n) \/ CurrentDaqPayload(c, m, n)
  \/ AppendPriority(c) \/ SignalPriority(c)
  \/ ResolvePayload(c) \/ StampPayload(c) \/ HandPayload(c)

Shutdown ==
  /\ MayStop /\ ~stopping
  /\ stopping' = TRUE
  /\ UNCHANGED <<machineVars, queueVars, loopVars, caller, handed, stimuli>>

-----------------------------------------------------------------------------
Init ==
  /\ cur = Initial
  /\ epoch = [m \in Machines |-> 0]
  /\ rec = [m \in Machines |-> NoRecord]
  /\ run = [m \in Machines |-> 0]
  /\ runs = {} /\ runId = 0 /\ pend = NoPayload
  /\ prio = <<>> /\ prioSig = FALSE /\ transitions = <<>>
  /\ loop = "start" /\ back = "select" /\ batch = <<>> /\ at = 1 /\ pc = 1
  /\ caller = [c \in Callers |-> Idle]
  /\ handed = [m \in Machines |-> 0]
  /\ stopping = FALSE /\ stimuli = 0

Next == \/ Loop
        \/ \E r \in runs : Run(r)
        \/ \E c \in Consoles : Console(c)
        \/ \E c \in Reporters : Reporter(c)
        \/ Shutdown

Spec == Init /\ [][Next]_vars
=============================================================================
