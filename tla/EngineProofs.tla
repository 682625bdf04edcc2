---------------------------- MODULE EngineProofs ----------------------------
(***************************************************************************)
(* The engine's type invariant and that a machine has one live sequence,   *)
(* for every program Compile accepts, every number of consoles and report  *)
(* handlers, and every queue capacity; and the lemmas on sequences,        *)
(* requests and runs that the other proofs use.                            *)
(***************************************************************************)
EXTENDS EngineProperties, TLAPS

LEMMA RangeAppend ==
  ASSUME NEW S, NEW s \in Seq(S), NEW x \in S
  PROVE  Append(s, x) \in Seq(S) /\ ToRange(Append(s, x)) = ToRange(s) \cup {x}
<1> DEFINE a == Append(s, x)
<1>1. /\ a \in Seq(S) /\ DOMAIN s = 1..Len(s) /\ DOMAIN a = 1..(Len(s) + 1)
      /\ \A i \in 1..Len(s) : a[i] = s[i]
      /\ a[Len(s) + 1] = x /\ Len(s) \in Nat
  OBVIOUS
<1>2. ToRange(a) \subseteq ToRange(s) \cup {x}
  BY <1>1 DEF ToRange
<1>3. ToRange(s) \subseteq ToRange(a) /\ x \in ToRange(a)
  BY <1>1 DEF ToRange
<1> QED  BY <1>1, <1>2, <1>3

LEMMA RangeTail ==
  ASSUME NEW S, NEW s \in Seq(S), s # <<>>
  PROVE  /\ Tail(s) \in Seq(S) /\ Head(s) \in S
         /\ Head(s) \in ToRange(s) /\ ToRange(Tail(s)) \subseteq ToRange(s)
         /\ Len(Tail(s)) = Len(s) - 1
<1>1. /\ Tail(s) \in Seq(S) /\ Len(Tail(s)) = Len(s) - 1 /\ Len(s) \in Nat \ {0}
      /\ DOMAIN s = 1..Len(s) /\ DOMAIN Tail(s) = 1..(Len(s) - 1)
      /\ \A i \in 1..(Len(s) - 1) : Tail(s)[i] = s[i + 1]
      /\ Head(s) = s[1]
  OBVIOUS
<1>2. Head(s) \in S /\ Head(s) \in ToRange(s)
  BY <1>1 DEF ToRange
<1>3. ToRange(Tail(s)) \subseteq ToRange(s)
  <2> SUFFICES ASSUME NEW i \in 1..(Len(s) - 1) PROVE Tail(s)[i] \in ToRange(s)
    BY <1>1 DEF ToRange
  <2>1. i + 1 \in DOMAIN s /\ Tail(s)[i] = s[i + 1]
    BY <1>1
  <2> QED  BY <2>1 DEF ToRange
<1> QED  BY <1>1, <1>2, <1>3

LEMMA RangeOf ==
  ASSUME NEW S, NEW s \in Seq(S)
  PROVE  ToRange(s) \subseteq S
BY DEF ToRange

-----------------------------------------------------------------------------
(* What the checks of Compile give.                                        *)

LEMMA StatesAreStates ==
  ASSUME NEW m \in Machines, NEW s \in StatesOf(m)
  PROVE  s \in States /\ s # NoState
BY ProgramAssumption DEF ProgramOK, States

LEMMA InitialIsAState ==
  ASSUME NEW m \in Machines
  PROVE  Initial[m] \in StatesOf(m)
BY ProgramAssumption DEF ProgramOK

LEMMA DefType ==
  ASSUME NEW m \in Machines, NEW s \in StatesOf(m)
  PROVE  /\ Program[m][s] \in StateDefs
         /\ Program[m][s].abortTo \in StatesOf(m) \cup {NoState}
         /\ Program[m][s].doneTo \in StatesOf(m) \cup {NoState}
         /\ Program[m][s].controller \in Seq(Stmts)
         /\ Program[m][s].sequence \in Seq(Stmts)
         /\ BlockOK(m, Program[m][s].controller)
         /\ BlockOK(m, Program[m][s].sequence)
<1>1. /\ Program[m][s] \in StateDefs
      /\ Program[m][s].abortTo \in StatesOf(m) \cup {NoState}
      /\ Program[m][s].doneTo \in StatesOf(m) \cup {NoState}
      /\ BlockOK(m, Program[m][s].controller)
      /\ BlockOK(m, Program[m][s].sequence)
  BY ProgramAssumption DEF ProgramOK
<1> QED  BY <1>1 DEF StateDefs

LEMMA StmtType ==
  ASSUME NEW m \in Machines, NEW block \in Seq(Stmts), BlockOK(m, block),
         NEW i \in DOMAIN block
  PROVE  /\ block[i] \in Stmts
         /\ block[i].next \subseteq Nat
         /\ block[i].ticks \in Nat \cup {NoTimeout}
         /\ Moves(block[i]) => block[i].to \in StatesOf(m)
         /\ block[i].op = "command" =>
              /\ block[i].machine \in Machines /\ block[i].machine # m
              /\ block[i].to \in StatesOf(block[i].machine)
<1>1. block[i] \in Stmts
  OBVIOUS
<1> QED  BY <1>1 DEF BlockOK, Stmts

-----------------------------------------------------------------------------
(* Requests, runs and calls.                                               *)

LEMMA RequestType ==
  ASSUME NEW m \in Machines, NEW t \in StatesOf(m), NEW k \in Nat
  PROVE  Request(m, t, k) \in RequestSet
BY StatesAreStates DEF Request, RequestSet

LEMMA CommandType ==
  ASSUME NEW m \in Machines, NEW block \in Seq(Stmts), BlockOK(m, block),
         NEW i \in DOMAIN block, block[i].op = "command"
  PROVE  Command(block[i]) \in RequestSet
<1>1. block[i].machine \in Machines /\ block[i].to \in StatesOf(block[i].machine)
  BY StmtType
<1> QED  BY <1>1, StatesAreStates DEF Command, Request, RequestSet

(* What RunSet says of one run.                                            *)
LEMMA RunType ==
  ASSUME NEW r \in RunSet
  PROVE  /\ r.machine \in Machines /\ r.state \in StatesOf(r.machine)
         /\ r.epoch \in Nat \ {0} /\ r.pc \in Nat /\ r.left \in Int
         /\ r.poked \in BOOLEAN /\ r.cancelled \in BOOLEAN
         /\ Block(r) \in Seq(Stmts) /\ BlockOK(r.machine, Block(r))
         /\ r.at # "check" => r.pc \in DOMAIN Block(r)
BY DefType DEF RunSet, AtStatement, Block

(* A run whose flags or remaining ticks change is still a run.             *)
LEMMA RunFlagged ==
  ASSUME NEW r \in RunSet, NEW p \in BOOLEAN, NEW k \in BOOLEAN
  PROVE  /\ [r EXCEPT !.cancelled = k] \in RunSet
         /\ [r EXCEPT !.poked = p] \in RunSet
<1>1. ASSUME NEW q, q = [r EXCEPT !.cancelled = k] \/ q = [r EXCEPT !.poked = p]
      PROVE  q \in RunSet
  BY <1>1 DEF RunSet, AtStatement, Block, Stmt
<1> QED  BY <1>1

LEMMA RunTicked ==
  ASSUME NEW r \in RunSet
  PROVE  [r EXCEPT !.left = IF @ > 0 THEN @ - 1 ELSE @] \in RunSet
<1> DEFINE k == IF r.left > 0 THEN r.left - 1 ELSE r.left
<1>1. k \in Int /\ (r.left = NoTimeout => k = NoTimeout)
  BY RunType DEF NoTimeout
<1> HIDE DEF k
<1>2. ASSUME NEW q, q = [r EXCEPT !.left = k]
      PROVE  q \in RunSet
  BY <1>1, <1>2 DEF RunSet, AtStatement, Block, Stmt
<1>3. [r EXCEPT !.left = k] \in RunSet
  BY <1>2
<1> QED  BY <1>3 DEF k

(* A run that takes a step of its block.                                   *)
LEMMA RunStepped ==
  ASSUME NEW r \in RunSet, r.pc \in DOMAIN Block(r), NEW n \in Stmt(r).next
  PROVE  [r EXCEPT !.pc = n, !.at = "check"] \in RunSet
<1>1. n \in Nat
  <2>1. Block(r)[r.pc].next \subseteq Nat
    BY RunType, StmtType
  <2> QED  BY <2>1 DEF Stmt
<1>2. ASSUME NEW q, q = [r EXCEPT !.pc = n, !.at = "check"]
      PROVE  q \in RunSet
  BY <1>1, <1>2 DEF RunSet, AtStatement
<1> QED  BY <1>2

(* A run that is at its statement in another way.                          *)
LEMMA RunMoved ==
  ASSUME NEW r \in RunSet, r.pc \in DOMAIN Block(r),
         NEW a \in {"exec", "signal", "send", "poll", "await"},
         a = "send" => Moves(Stmt(r)),
         a \in {"poll", "await"} =>
           Stmt(r).op \in Poking /\ (Stmt(r).ticks = NoTimeout => r.left = NoTimeout)
  PROVE  /\ [r EXCEPT !.at = a] \in RunSet
         /\ [r EXCEPT !.at = a, !.poked = FALSE] \in RunSet
<1>1. ASSUME NEW q, q = [r EXCEPT !.at = a]
      PROVE  q \in RunSet
  BY <1>1 DEF RunSet, AtStatement, Block, Stmt
<1>2. [r EXCEPT !.at = a] \in RunSet
  BY <1>1
<1>3. [[r EXCEPT !.at = a] EXCEPT !.poked = FALSE] \in RunSet
  BY <1>2, RunFlagged
<1>4. [r EXCEPT !.at = a, !.poked = FALSE] = [[r EXCEPT !.at = a] EXCEPT !.poked = FALSE]
  BY DEF RunSet
<1> QED  BY <1>2, <1>3, <1>4

(* What CallSet says of a call in progress.                                *)
LEMMA CallType ==
  ASSUME NEW k \in CallSet
  PROVE  /\ k.at \in {"offer", "append", "resolve", "stamp", "hand"} => k.req \in RequestSet
         /\ k.at \in {"stamp", "hand"} => /\ k.runId \in Nat
                                          /\ k = [at |-> k.at, req |-> k.req, runId |-> k.runId]
BY DEF CallSet, Idle

-----------------------------------------------------------------------------
(* Type correctness.                                                       *)

LEMMA CancelledType ==
  ASSUME MachineTypeOK, NEW m \in Machines
  PROVE  Cancelled(m) \subseteq RunSet
<1> SUFFICES ASSUME NEW r \in runs
             PROVE  [r EXCEPT !.cancelled = TRUE] \in RunSet /\ r \in RunSet
  BY DEF Cancelled
<1> QED  BY RunFlagged DEF MachineTypeOK

LEMMA NewRunType ==
  ASSUME NEW m \in Machines, NEW s \in StatesOf(m), NEW k \in Nat \ {0},
         Nodeless(s, m)
  PROVE  NewRun(m, s, k) \in RunSet
BY StatesAreStates DEF NewRun, RunSet, AtStatement

LEMMA EnterType ==
  ASSUME MachineTypeOK, NEW m \in Machines, NEW s \in StatesOf(m), enterState(m, s)
  PROVE  MachineTypeOK'
<1>1. s \in States
  BY StatesAreStates
<1>2. /\ cur' \in [Machines -> States] /\ \A n \in Machines : cur'[n] \in StatesOf(n)
      /\ epoch' \in [Machines -> Nat]
  <2>1. Publish(m, s)
    BY DEF enterState, EnterLocal, EnterDaqLocal
  <2> QED  BY <1>1, <2>1 DEF MachineTypeOK, Publish
<1>3. CASE EnterLocal(m, s)
  <2>1. Nodeless(s, m)
    BY <1>3 DEF EnterLocal, Nodeless
  <2>2. epoch[m] + 1 \in Nat \ {0}
    BY DEF MachineTypeOK
  <2>3. runs' \subseteq RunSet
    BY <1>3, <2>1, <2>2, CancelledType, NewRunType DEF EnterLocal
  <2>4. run' \in [Machines -> Nat]
    <3>1. CASE run' = [run EXCEPT ![m] = 0]
      BY <3>1 DEF MachineTypeOK
    <3>2. CASE run' = [run EXCEPT ![m] = epoch[m] + 1]
      BY <3>2, <2>2 DEF MachineTypeOK
    <3> QED  BY <1>3, <3>1, <3>2 DEF EnterLocal
  <2> QED  BY <1>2, <1>3, <2>3, <2>4 DEF EnterLocal, MachineTypeOK
<1>4. CASE EnterDaqLocal(m, s)
  <2>1. run' \in [Machines -> Nat] /\ runs' \subseteq RunSet
    BY <1>4, CancelledType DEF EnterDaqLocal, MachineTypeOK
  <2>2. CASE UNCHANGED <<rec, runId, pend>>
    BY <1>2, <2>1, <2>2 DEF MachineTypeOK
  <2>3. CASE /\ runId' = runId + 1
             /\ rec' = [rec EXCEPT ![m] = [state |-> s, epoch |-> epoch[m] + 1,
                                           runId |-> runId + 1]]
             /\ pend' = [machine |-> m, runId |-> runId + 1]
    <3>1. runId' \in Nat /\ pend' \in PayloadSet
      BY <2>3 DEF MachineTypeOK, PayloadSet
    <3>2. [state |-> s, epoch |-> epoch[m] + 1, runId |-> runId + 1] \in RecordSet
      BY <1>1 DEF MachineTypeOK, RecordSet
    <3>3. rec' \in [Machines -> RecordSet]
      BY <2>3, <3>2 DEF MachineTypeOK
    <3>4. \A n \in Machines : rec'[n].state \in StatesOf(n) \cup {NoState}
      BY <2>3 DEF MachineTypeOK
    <3> QED  BY <1>2, <2>1, <3>1, <3>3, <3>4 DEF MachineTypeOK
  <2> QED  BY <1>4, <2>2, <2>3 DEF EnterDaqLocal
<1> QED  BY <1>3, <1>4 DEF enterState

LEMMA ApplyType ==
  ASSUME MachineTypeOK, NEW q \in RequestSet, applyTransition(q)
  PROVE  MachineTypeOK'
<1>1. q.machine \in Machines
  BY DEF RequestSet
<1>2. CASE UNCHANGED machineVars
  BY <1>2 DEF machineVars, MachineTypeOK
<1>3. CASE q.target \in StatesOf(q.machine) /\ enterState(q.machine, q.target)
  BY <1>1, <1>3, EnterType
<1> QED  BY <1>2, <1>3 DEF applyTransition

LEMMA StutterType ==
  ASSUME TypeOK, UNCHANGED vars
  PROVE  TypeOK'
BY DEF TypeOK, MachineTypeOK, QueueTypeOK, LoopTypeOK, EnvTypeOK, vars, machineVars,
       queueVars, loopVars, envVars

LEMMA LoopType ==
  ASSUME TypeOK, Loop
  PROVE  TypeOK'
<1> USE DEF TypeOK
<1>0. /\ UNCHANGED machineVars => MachineTypeOK'
      /\ UNCHANGED queueVars => QueueTypeOK'
      /\ UNCHANGED envVars => EnvTypeOK'
      /\ UNCHANGED loopVars => LoopTypeOK'
  BY DEF MachineTypeOK, QueueTypeOK, LoopTypeOK, EnvTypeOK, machineVars, queueVars,
         loopVars, envVars
<1>1. CASE HandOver
  <2>1. pend.machine \in Machines /\ pend.runId \in Nat
    BY <1>1 DEF HandOver, MachineTypeOK, PayloadSet
  <2>2. MachineTypeOK'
    BY <1>1 DEF HandOver, MachineTypeOK, PayloadSet
  <2>3. EnvTypeOK'
    BY <1>1, <2>1 DEF HandOver, EnvTypeOK
  <2> QED  BY <1>0, <1>1, <2>2, <2>3 DEF HandOver
<1>2. CASE Start
  <2>1. at \in DOMAIN Order /\ Order[at] \in Machines
    BY <1>2, EngineAssumption DEF Start, LoopAt, LoopTypeOK
  <2>2. MachineTypeOK'
    BY <1>2, <2>1, EnterType, InitialIsAState DEF Start
  <2>3. LoopTypeOK'
    BY <1>2, <2>1, EngineAssumption DEF Start, LoopAt, LoopTypeOK
  <2> QED  BY <1>0, <1>2, <2>2, <2>3 DEF Start
<1>3. CASE SelectPriority
  BY <1>0, <1>3 DEF SelectPriority, LoopTypeOK, QueueTypeOK
<1>4. CASE SelectTransition \/ DrainTransition
  <2>1. /\ transitions \in Seq(RequestSet) /\ transitions # <<>>
        /\ transitions' = Tail(transitions) /\ applyTransition(Head(transitions))
        /\ UNCHANGED <<prio, prioSig, loopVars, envVars>>
    BY <1>4 DEF SelectTransition, DrainTransition, QueueTypeOK
  <2>2. /\ Head(transitions) \in RequestSet /\ Tail(transitions) \in Seq(RequestSet)
        /\ Len(Tail(transitions)) <= TransitionsCap
    BY <2>1, RangeTail, EngineAssumption DEF QueueTypeOK
  <2>3. MachineTypeOK' /\ QueueTypeOK'
    BY <2>1, <2>2, ApplyType DEF QueueTypeOK
  <2> QED  BY <1>0, <2>1, <2>3
<1>5. CASE SelectTick
  <2>1. runs' \subseteq RunSet
    BY <1>5, RunTicked DEF SelectTick, MachineTypeOK
  <2> QED  BY <1>0, <1>5, <2>1 DEF SelectTick, MachineTypeOK, LoopTypeOK
<1>6. CASE SelectDone
  BY <1>0, <1>6 DEF SelectDone, MachineTypeOK, LoopTypeOK
<1>7. CASE TakeBatch
  BY <1>0, <1>7 DEF TakeBatch, QueueTypeOK, LoopTypeOK
<1>8. CASE ApplyBatch
  <2>1. Head(batch) \in RequestSet /\ Tail(batch) \in Seq(RequestSet)
    BY <1>8, RangeTail DEF ApplyBatch, LoopTypeOK
  <2> QED  BY <1>0, <1>8, <2>1, ApplyType DEF ApplyBatch, LoopTypeOK
<1>9. CASE DrainDone
  BY <1>0, <1>9 DEF DrainDone, LoopTypeOK
<1>10. CASE DrainTransitionsDone
  BY <1>0, <1>10 DEF DrainTransitionsDone, LoopTypeOK
<1>11. CASE \/ ControllerAssign \/ ControllerIf \/ ControllerCommand
            \/ ControllerTransition \/ ControllerDone
  <2>0. InController
    BY <1>11 DEF ControllerAssign, ControllerIf, ControllerCommand, ControllerTransition,
                 ControllerDone, AtStmt
  <2>1. /\ at \in DOMAIN Order /\ Order[at] \in Machines
        /\ cur[Order[at]] \in StatesOf(Order[at]) /\ loop = "controllers"
    BY <2>0, EngineAssumption DEF InController, LoopAt, LoopTypeOK, MachineTypeOK
  <2>2. ControllerStmts \in Seq(Stmts) /\ BlockOK(Order[at], ControllerStmts)
    BY <2>1, DefType DEF ControllerStmts, Def
  <2>3. ASSUME pc \in DOMAIN ControllerStmts, NextStmt
        PROVE  at' = at /\ pc' \in Nat
    <3>1. ControllerStmts[pc].next \subseteq Nat
      BY <2>1, <2>2, <2>3, StmtType
    <3> QED  BY <2>3, <3>1 DEF NextStmt
  <2>4. CASE ControllerAssign
    BY <1>0, <2>1, <2>3, <2>4
       DEF ControllerAssign, AtStmt, LoopTypeOK, EnvTypeOK, MachineTypeOK
  <2>5. CASE ControllerIf
    BY <1>0, <2>1, <2>3, <2>5 DEF ControllerIf, AtStmt, LoopTypeOK
  <2>6. CASE ControllerCommand
    <3>1. Command(ControllerStmts[pc]) \in RequestSet
      BY <2>1, <2>2, <2>6, CommandType DEF ControllerCommand, AtStmt, MachineTypeOK
    <3>2. QueueTypeOK'
      BY <2>6, <3>1, RangeAppend DEF ControllerCommand, enqueuePriority, QueueTypeOK
    <3> QED  BY <1>0, <2>1, <2>3, <2>6, <3>2 DEF ControllerCommand, AtStmt, LoopTypeOK
  <2>7. CASE ControllerTransition
    <3>1. ControllerStmts[pc].to \in StatesOf(Order[at])
      BY <2>1, <2>2, <2>7, StmtType DEF ControllerTransition, AtStmt, Moves
    <3>2. MachineTypeOK'
      BY <2>1, <2>7, <3>1, EnterType DEF ControllerTransition
    <3> QED  BY <1>0, <2>1, <2>7, <3>2 DEF ControllerTransition, NextMachine, LoopTypeOK
  <2>8. CASE ControllerDone
    BY <1>0, <2>1, <2>8 DEF ControllerDone, NextMachine, LoopTypeOK
  <2> QED  BY <1>11, <2>4, <2>5, <2>6, <2>7, <2>8
<1>12. CASE PokeRuns
  <2>1. runs' \subseteq RunSet
    <3> SUFFICES ASSUME NEW r \in runs
                 PROVE  [r EXCEPT !.poked = @ \/ r.epoch = run[r.machine]] \in RunSet
      BY <1>12 DEF PokeRuns
    <3>1. r \in RunSet
      BY DEF MachineTypeOK
    <3>2. [r EXCEPT !.poked = r.poked \/ r.epoch = run[r.machine]] \in RunSet
      BY <3>1, RunFlagged, RunType
    <3> QED  BY <3>2
  <2> QED  BY <1>0, <1>12, <2>1 DEF PokeRuns, MachineTypeOK, LoopTypeOK
<1> QED  BY <1>1, <1>2, <1>3, <1>4, <1>5, <1>6, <1>7, <1>8, <1>9, <1>10, <1>11, <1>12
            DEF Loop

LEMMA RunStepType ==
  ASSUME TypeOK, NEW r \in runs, Run(r)
  PROVE  TypeOK'
<1> USE DEF TypeOK
<1>r. r \in RunSet
  BY DEF MachineTypeOK
<1>0. ASSUME UNCHANGED <<cur, epoch, rec, run, runId, pend>>, runs' \subseteq RunSet
      PROVE  MachineTypeOK'
  BY <1>0 DEF MachineTypeOK
<1>a. /\ UNCHANGED queueVars => QueueTypeOK'
      /\ UNCHANGED loopVars => LoopTypeOK'
      /\ UNCHANGED <<caller, handed, stopping, stimuli>> => EnvTypeOK'
  BY DEF QueueTypeOK, LoopTypeOK, EnvTypeOK, queueVars, loopVars
<1>b. ASSUME NEW q \in RunSet, Become(r, q)
      PROVE  runs' \subseteq RunSet
  BY <1>b DEF Become, MachineTypeOK
<1>c. Exit(r) => runs' \subseteq RunSet
  BY DEF Exit, MachineTypeOK
<1>d. r.pc \in DOMAIN Block(r) /\ Step(r) => runs' \subseteq RunSet
  BY <1>r, <1>b, RunStepped DEF Step
<1>e. ASSUME NEW a \in {"exec", "signal", "send", "await"}, r.pc \in DOMAIN Block(r),
             a = "send" => Moves(Stmt(r)),
             a = "await" => /\ Stmt(r).op \in Poking
                            /\ Stmt(r).ticks = NoTimeout => r.left = NoTimeout,
             Become(r, [r EXCEPT !.at = a])
      PROVE  runs' \subseteq RunSet
  <2>1. [r EXCEPT !.at = a] \in RunSet
    BY <1>e, <1>r, RunMoved
  <2> QED  BY <1>e, <1>b, <2>1
<1>1. CASE RunEnd(r) \/ RunError(r)
  BY <1>0, <1>a, <1>c, <1>1 DEF RunEnd, RunError, runStable
<1>2. CASE RunFetch(r)
  <2>1. CASE Stmt(r).op \in {"assign", "if", "command"} /\ Become(r, [r EXCEPT !.at = "exec"])
    BY <1>0, <1>a, <1>e, <1>2, <2>1 DEF RunFetch, runStable
  <2>2. CASE Stmt(r).op = "transition" /\ Become(r, [r EXCEPT !.at = "send"])
    BY <1>0, <1>a, <1>e, <1>2, <2>2 DEF RunFetch, runStable, Moves
  <2>3. CASE /\ Stmt(r).op \in Poking
             /\ Become(r, [r EXCEPT !.at = "poll", !.left = Stmt(r).ticks])
    <3>1. Stmt(r).ticks \in Int
      BY <1>r, <1>2, RunType, StmtType DEF RunFetch, Stmt, NoTimeout
    <3>2. [r EXCEPT !.at = "poll", !.left = Stmt(r).ticks] \in RunSet
      BY <1>r, <1>2, <2>3, <3>1 DEF RunFetch, RunSet, AtStatement, Stmt, Block
    <3> QED  BY <1>0, <1>a, <1>b, <1>2, <2>3, <3>2 DEF RunFetch, runStable
  <2> QED  BY <1>2, <2>1, <2>2, <2>3 DEF RunFetch
<1>3. CASE RunAssign(r)
  BY <1>0, <1>a, <1>d, <1>3 DEF RunAssign, runStable, AtRunStmt
<1>4. CASE RunIf(r)
  BY <1>0, <1>a, <1>d, <1>4 DEF RunIf, runStable, AtRunStmt
<1>5. CASE RunCommand(r)
  <2>1. Command(Stmt(r)) \in RequestSet
    <3>1. r.epoch \in Nat /\ Block(r)[r.pc].op = "command" /\ r.pc \in DOMAIN Block(r)
      BY <1>5, <1>r, RunType DEF RunCommand, AtRunStmt, Stmt
    <3> QED  BY <3>1, <1>r, RunType, CommandType DEF Stmt
  <2>2. QueueTypeOK'
    BY <1>5, <2>1, RangeAppend DEF RunCommand, QueueTypeOK
  <2> QED  BY <1>0, <1>a, <1>e, <1>5, <2>2 DEF RunCommand, runStable, AtRunStmt
<1>6. CASE RunSignal(r)
  BY <1>0, <1>a, <1>d, <1>6 DEF RunSignal, runStable, AtRunStmt, QueueTypeOK
<1>7. CASE RunPoll(r)
  <2>1. r.pc \in DOMAIN Block(r) /\ Stmt(r).op \in Poking /\ r.at = "poll"
    BY <1>7 DEF RunPoll, AtRunStmt, Poking
  <2>2. Stmt(r).ticks = NoTimeout => r.left = NoTimeout
    BY <1>r, <2>1 DEF RunSet, AtStatement
  <2>3. CASE Step(r)
    BY <1>0, <1>a, <1>d, <1>7, <2>1, <2>3 DEF RunPoll, runStable
  <2>4. CASE Become(r, [r EXCEPT !.at = "await"])
    BY <1>0, <1>a, <1>e, <1>7, <2>1, <2>2, <2>4 DEF RunPoll, runStable
  <2>5. CASE /\ AtRunStmt(r, "poll", "wait") /\ r.left = 0
             /\ Become(r, [r EXCEPT !.at = "send"])
    <3>1. Moves(Stmt(r))
      BY <2>2, <2>5 DEF AtRunStmt, Moves, NoTimeout
    <3> QED  BY <1>0, <1>a, <1>e, <1>7, <2>1, <2>5, <3>1 DEF RunPoll, runStable
  <2> QED  BY <1>7, <2>3, <2>4, <2>5 DEF RunPoll
<1>8. CASE RunAwait(r)
  <2>1. CASE Exit(r)
    BY <1>0, <1>a, <1>c, <1>8, <2>1 DEF RunAwait, runStable
  <2>2. CASE Become(r, [r EXCEPT !.at = "poll", !.poked = FALSE])
    <3>1. /\ r.pc \in DOMAIN Block(r) /\ Stmt(r).op \in Poking
          /\ Stmt(r).ticks = NoTimeout => r.left = NoTimeout
      BY <1>r, <1>8 DEF RunAwait, RunSet, AtStatement
    <3>2. [r EXCEPT !.at = "poll", !.poked = FALSE] \in RunSet
      BY <1>r, <3>1, RunMoved
    <3> QED  BY <1>0, <1>a, <1>b, <1>8, <2>2, <3>2 DEF RunAwait, runStable
  <2> QED  BY <1>8, <2>1, <2>2 DEF RunAwait
<1>9. CASE RunSend(r)
  <2>1. Request(r.machine, Stmt(r).to, r.epoch) \in RequestSet
    <3>1. /\ r.pc \in DOMAIN Block(r) /\ Moves(Block(r)[r.pc])
          /\ r.machine \in Machines /\ r.epoch \in Nat
      BY <1>r, <1>9, RunType DEF RunSend, RunSet, AtStatement, Stmt
    <3>2. Stmt(r).to \in StatesOf(r.machine)
      BY <1>r, <3>1, RunType, StmtType DEF Stmt
    <3> QED  BY <3>1, <3>2, RequestType
  <2>2. QueueTypeOK'
    <3>1. CASE UNCHANGED transitions
      BY <1>9, <3>1 DEF RunSend, QueueTypeOK
    <3>2. CASE /\ Len(transitions) < TransitionsCap
               /\ transitions' = Append(transitions, Request(r.machine, Stmt(r).to, r.epoch))
      <4>1. /\ transitions' \in Seq(RequestSet) /\ Len(transitions') = Len(transitions) + 1
            /\ Len(transitions) \in Nat
        BY <3>2, <2>1 DEF QueueTypeOK
      <4> QED  BY <1>9, <3>2, <4>1, EngineAssumption DEF RunSend, QueueTypeOK
    <3> QED  BY <1>9, <3>1, <3>2 DEF RunSend
  <2> QED  BY <1>0, <1>a, <1>c, <1>9, <2>2 DEF RunSend, runStable
<1> QED  BY <1>1, <1>2, <1>3, <1>4, <1>5, <1>6, <1>7, <1>8, <1>9 DEF Run

LEMMA CallStepType ==
  ASSUME TypeOK, NEW c \in Callers, Console(c) \/ Reporter(c)
  PROVE  TypeOK'
<1> USE DEF TypeOK
<1>c. caller[c] \in CallSet
  BY DEF EnvTypeOK
<1>0. ASSUME UNCHANGED callerStable, UNCHANGED <<rec, runId>>
      PROVE  MachineTypeOK' /\ LoopTypeOK'
  BY <1>0 DEF MachineTypeOK, LoopTypeOK, callerStable, loopVars
<1>a. UNCHANGED queueVars => QueueTypeOK'
  BY DEF QueueTypeOK, queueVars
<1>b. ASSUME NEW k \in CallSet, caller' = [caller EXCEPT ![c] = k],
             UNCHANGED callerStable, UNCHANGED handed, stimuli' \in Nat
      PROVE  EnvTypeOK'
  BY <1>b DEF EnvTypeOK, callerStable
<1>i. Idle \in CallSet /\ [at |-> "signal"] \in CallSet
  BY DEF CallSet
<1>1. ASSUME NEW q \in RequestSet, NEW a \in {"offer", "append", "resolve"},
             Begins(c, [at |-> a, req |-> q])
      PROVE  TypeOK'
  <2>1. [at |-> a, req |-> q] \in CallSet
    BY DEF CallSet
  <2>2. stimuli' \in Nat
    BY <1>1 DEF Begins, EnvTypeOK
  <2> QED  BY <1>0, <1>a, <1>b, <1>1, <2>1, <2>2 DEF Begins
<1>m. ASSUME NEW m \in Machines
      PROVE  /\ cur[m] \in StatesOf(m) /\ epoch[m] \in Nat
             /\ Def(m).abortTo \in StatesOf(m) \cup {NoState}
             /\ Def(m).doneTo \in StatesOf(m) \cup {NoState}
             /\ rec[m].state # NoState =>
                  Program[m][rec[m].state].abortTo \in StatesOf(m) \cup {NoState}
  BY DefType DEF MachineTypeOK, Def
<1>2. ASSUME NEW m \in Machines, NEW t \in StatesOf(m), RequestTarget(c, m, t)
      PROVE  TypeOK'
  <2>1. Request(m, t, 0) \in RequestSet
    BY RequestType
  <2> QED  BY <1>1, <1>2, <2>1 DEF RequestTarget
<1>3. CASE OfferTransition(c)
  <2>1. caller[c].req \in RequestSet
    BY <1>c, <1>3, CallType DEF OfferTransition
  <2>2. QueueTypeOK'
    <3>1. CASE UNCHANGED transitions
      BY <1>3, <3>1 DEF OfferTransition, QueueTypeOK
    <3>2. CASE /\ Len(transitions) < TransitionsCap
               /\ transitions' = Append(transitions, caller[c].req)
      <4>1. /\ transitions' \in Seq(RequestSet) /\ Len(transitions') = Len(transitions) + 1
            /\ Len(transitions) \in Nat
        BY <3>2, <2>1 DEF QueueTypeOK
      <4> QED  BY <1>3, <3>2, <4>1, EngineAssumption DEF OfferTransition, QueueTypeOK
    <3> QED  BY <1>3, <3>1, <3>2 DEF OfferTransition
  <2>3. stimuli' \in Nat
    BY <1>3 DEF OfferTransition, EnvTypeOK
  <2> QED  BY <1>0, <1>b, <1>i, <1>3, <2>2, <2>3 DEF OfferTransition
<1>4. ASSUME NEW m \in Machines, NotifyAbortTriggered(c, m)
      PROVE  TypeOK'
  <2>1. ArmedAbort(m) \in StatesOf(m)
    BY <1>m, <1>4 DEF NotifyAbortTriggered, ArmedAbort
  <2>2. Request(m, ArmedAbort(m), 0) \in RequestSet
    BY <2>1, RequestType
  <2> QED  BY <1>1, <1>4, <2>2 DEF NotifyAbortTriggered
<1>5. ASSUME NEW m \in Machines, NEW k, NotifySequenceComplete(c, m, k)
      PROVE  TypeOK'
  <2>1. Def(m).doneTo \in StatesOf(m) /\ epoch[m] \in Nat
    BY <1>m, <1>5 DEF NotifySequenceComplete, Correlates
  <2>2. Request(m, Def(m).doneTo, epoch[m]) \in RequestSet
    BY <2>1, RequestType
  <2> QED  BY <1>1, <1>5, <2>2 DEF NotifySequenceComplete, Correlates
<1>6. ASSUME NEW m \in Machines, NEW n, NotifyUncertain(c, m, n)
      PROVE  TypeOK'
  <2>1. Def(m).abortTo \in StatesOf(m)
    BY <1>m, <1>6 DEF NotifyUncertain
  <2>2. Request(m, Def(m).abortTo, 0) \in RequestSet
    BY <2>1, RequestType
  <2> QED  BY <1>1, <1>6, <2>2 DEF NotifyUncertain
<1>7. CASE AppendPriority(c)
  <2>1. caller[c].req \in RequestSet
    BY <1>c, <1>7, CallType DEF AppendPriority
  <2>2. QueueTypeOK'
    BY <1>7, <2>1, RangeAppend DEF AppendPriority, QueueTypeOK
  <2>3. stimuli' \in Nat
    BY <1>7 DEF AppendPriority, EnvTypeOK
  <2> QED  BY <1>0, <1>b, <1>i, <1>7, <2>2, <2>3 DEF AppendPriority
<1>8. CASE SignalPriority(c)
  <2>1. stimuli' \in Nat /\ QueueTypeOK'
    BY <1>8 DEF SignalPriority, EnvTypeOK, QueueTypeOK
  <2> QED  BY <1>0, <1>b, <1>i, <1>8, <2>1 DEF SignalPriority
<1>9. ASSUME NEW m \in Machines, NEW n, CurrentDaqPayload(c, m, n)
      PROVE  TypeOK'
  <2>1. Request(m, cur[m], epoch[m]) \in RequestSet
    BY <1>m, RequestType
  <2> QED  BY <1>1, <1>9, <2>1 DEF CurrentDaqPayload
<1>10. CASE ResolvePayload(c)
  <2>1. caller[c].req \in RequestSet
    BY <1>c, <1>10, CallType DEF ResolvePayload
  <2>2. runId' \in Nat /\ stimuli' \in Nat
    BY <1>10 DEF ResolvePayload, MachineTypeOK, EnvTypeOK
  <2>3. PICK k \in CallSet : caller' = [caller EXCEPT ![c] = k]
    <3>1. CASE caller' = [caller EXCEPT ![c] = Idle]
      BY <1>i, <3>1
    <3>2. CASE /\ runId' = runId + 1
               /\ caller' = [caller EXCEPT ![c] = [at |-> "stamp", req |-> @.req,
                                                   runId |-> runId + 1]]
      <4>1. [at |-> "stamp", req |-> caller[c].req, runId |-> runId + 1] \in CallSet
        BY <2>1, <2>2, <3>2 DEF CallSet
      <4> QED  BY <3>2, <4>1
    <3> QED  BY <1>10, <3>1, <3>2 DEF ResolvePayload
  <2>4. MachineTypeOK' /\ LoopTypeOK'
    BY <1>10, <2>2 DEF ResolvePayload, callerStable, MachineTypeOK, LoopTypeOK, loopVars
  <2> QED  BY <1>a, <1>b, <1>10, <2>2, <2>3, <2>4 DEF ResolvePayload
<1>11. ASSUME StampPayload(c) \/ HandPayload(c)
       PROVE  /\ caller[c].req \in RequestSet /\ caller[c].runId \in Nat
              /\ caller[c].req.machine \in Machines
              /\ caller[c].req.target \in StatesOf(caller[c].req.machine)
              /\ caller[c].req.target \in States /\ caller[c].req.epoch \in Nat
  <2>1. caller[c].req \in RequestSet /\ caller[c].runId \in Nat
    BY <1>c, <1>11, CallType DEF StampPayload, HandPayload
  <2> QED  BY <2>1 DEF RequestSet
<1>12. CASE StampPayload(c)
  <2> DEFINE q == caller[c].req
             x == [state |-> q.target, epoch |-> q.epoch, runId |-> caller[c].runId]
  <2>1. [at |-> "hand", req |-> q, runId |-> caller[c].runId] \in CallSet
    BY <1>11, <1>12 DEF CallSet
  <2>2. [caller[c] EXCEPT !.at = "hand"] = [at |-> "hand", req |-> q, runId |-> caller[c].runId]
    <3>1. caller[c] = [at |-> caller[c].at, req |-> q, runId |-> caller[c].runId]
      BY <1>c, <1>12, CallType DEF StampPayload
    <3> QED  BY <3>1
  <2>3. caller' = [caller EXCEPT ![c] = [caller[c] EXCEPT !.at = "hand"]] /\ stimuli' \in Nat
    BY <1>12 DEF StampPayload, EnvTypeOK
  <2>4. EnvTypeOK'
    BY <1>b, <1>12, <2>1, <2>2, <2>3 DEF StampPayload
  <2>5. x \in RecordSet
    BY <1>11, <1>12 DEF RecordSet
  <2>6. rec' = [rec EXCEPT ![q.machine] = x] \/ rec' = rec
    BY <1>12 DEF StampPayload
  <2>7. /\ rec' \in [Machines -> RecordSet]
        /\ \A m \in Machines : rec'[m].state \in StatesOf(m) \cup {NoState}
    BY <1>11, <1>12, <2>5, <2>6 DEF MachineTypeOK
  <2>8. MachineTypeOK' /\ LoopTypeOK'
    BY <1>12, <2>7 DEF StampPayload, callerStable, MachineTypeOK, LoopTypeOK, loopVars
  <2> QED  BY <1>a, <1>12, <2>4, <2>8 DEF StampPayload
<1>13. CASE HandPayload(c)
  <2>1. EnvTypeOK'
    BY <1>11, <1>13, <1>i DEF HandPayload, callerStable, EnvTypeOK
  <2> QED  BY <1>0, <1>a, <1>13, <2>1 DEF HandPayload
<1> QED
  <2>1. CASE Console(c)
    BY <1>2, <1>3, <2>1 DEF Console
  <2>2. CASE Reporter(c)
    BY <1>4, <1>5, <1>6, <1>7, <1>8, <1>9, <1>10, <1>12, <1>13, <2>2 DEF Reporter
  <2> QED  BY <2>1, <2>2

LEMMA InitType == Init => TypeOK
<1> SUFFICES ASSUME Init PROVE TypeOK
  OBVIOUS
<1>1. cur \in [Machines -> States] /\ \A m \in Machines : cur[m] \in StatesOf(m)
  BY InitialIsAState, StatesAreStates, ProgramAssumption DEF ProgramOK, Init
<1>2. NoRecord \in RecordSet
  BY DEF NoRecord, RecordSet
<1>3. MachineTypeOK
  BY <1>1, <1>2 DEF Init, MachineTypeOK, PayloadSet, NoRecord
<1>4. QueueTypeOK
  <2> DEFINE Empty == <<>>
  <2>e. Empty \in Seq(RequestSet) /\ Len(Empty) = 0
    OBVIOUS
  <2>1. prio = Empty /\ transitions = Empty /\ prioSig \in BOOLEAN
    BY DEF Init
  <2>2. Len(transitions) = 0 /\ TransitionsCap \in Nat
    BY EngineAssumption DEF Init
  <2> QED  BY <2>e, <2>1, <2>2 DEF QueueTypeOK
<1>l. LoopTypeOK
  <2>1. Order \in Seq(Machines) /\ Order # <<>>
    BY EngineAssumption
  <2>2. 1 <= Len(Order)
    BY <2>1
  <2> QED  BY <2>2 DEF Init, LoopTypeOK
<1>5. EnvTypeOK
  BY DEF Init, EnvTypeOK, CallSet
<1> QED  BY <1>3, <1>4, <1>l, <1>5 DEF TypeOK

LEMMA NextType == TypeOK /\ [Next]_vars => TypeOK'
<1> SUFFICES ASSUME TypeOK, [Next]_vars PROVE TypeOK'
  OBVIOUS
<1>1. CASE Shutdown
  BY <1>1 DEF Shutdown, TypeOK, MachineTypeOK, QueueTypeOK, LoopTypeOK, EnvTypeOK,
              machineVars, queueVars, loopVars
<1>2. ASSUME NEW c \in Callers, Console(c) \/ Reporter(c)
      PROVE  TypeOK'
  BY <1>2, CallStepType
<1> QED  BY <1>1, <1>2, LoopType, RunStepType, StutterType DEF Next, Callers

(* Every request names a state of its machine, every run executes a        *)
(* statement of a sequence its machine declares, and the transitions queue *)
(* stays within its capacity, whatever the program.                        *)
THEOREM TypeCorrect == Spec => []TypeOK
<1>1. Init => TypeOK
  BY InitType
<1>2. TypeOK /\ [Next]_vars => TypeOK'
  BY NextType
<1> QED  BY <1>1, <1>2, PTL DEF Spec

-----------------------------------------------------------------------------
(* One live run.                                                           *)

(* What RunsInv reads of a run.                                            *)
Same(q, r) ==
  /\ q.machine = r.machine /\ q.epoch = r.epoch /\ q.state = r.state
  /\ q.cancelled = r.cancelled

LEMMA SameFollows ==
  ASSUME NEW r, NEW q, Same(q, r), RunFollows(r), UNCHANGED <<cur, epoch, run>>,
         loop' # "stopped" => loop # "stopped"
  PROVE  RunFollows(q)'
BY DEF RunFollows, Same

(* A step that maps each run to one that is the same to RunsInv.           *)
LEMMA RunsMapped ==
  ASSUME TypeOK, RunsInv, UNCHANGED <<cur, epoch, run>>,
         loop' # "stopped" => loop # "stopped",
         NEW f, runs' = {f[r] : r \in runs}, \A r \in runs : Same(f[r], r)
  PROVE  RunsInv'
<1>1. ASSUME NEW q \in runs'
      PROVE  \E r \in runs : q = f[r] /\ Same(q, r)
  OBVIOUS
<1>2. ASSUME NEW q \in runs' PROVE RunFollows(q)'
  BY <1>1, SameFollows DEF RunsInv
<1>3. ASSUME NEW q \in runs', NEW s \in runs', q.machine = s.machine, q.epoch = s.epoch
      PROVE  q = s
  BY <1>1, <1>3 DEF RunsInv, Same
<1> QED  BY <1>2, <1>3 DEF RunsInv

LEMMA RunsKept ==
  ASSUME RunsInv, UNCHANGED <<cur, epoch, run>>, runs' \subseteq runs,
         loop' # "stopped" => loop # "stopped"
  PROVE  RunsInv'
<1>1. ASSUME NEW q \in runs' PROVE RunFollows(q)'
  BY SameFollows DEF RunsInv, Same
<1> QED  BY <1>1 DEF RunsInv

LEMMA RunsBecome ==
  ASSUME RunsInv, UNCHANGED <<cur, epoch, run, loop>>, NEW r \in runs, NEW q,
         Same(q, r), Become(r, q)
  PROVE  RunsInv'
<1>1. ASSUME NEW s \in runs' PROVE RunFollows(s)'
  BY SameFollows DEF RunsInv, Same, Become
<1>2. ASSUME NEW s \in runs', NEW t \in runs', s.machine = t.machine, s.epoch = t.epoch
      PROVE  s = t
  BY <1>2 DEF RunsInv, Same, Become
<1> QED  BY <1>1, <1>2 DEF RunsInv

LEMMA RunFields ==
  ASSUME NEW r \in RunSet
  PROVE  \A p, n, k, a, b :
           /\ Same([r EXCEPT !.left = k], r) /\ Same([r EXCEPT !.poked = p], r)
           /\ Same([r EXCEPT !.at = a], r)
           /\ Same([r EXCEPT !.pc = n, !.at = a], r)
           /\ Same([r EXCEPT !.at = a, !.left = k], r)
           /\ Same([r EXCEPT !.at = a, !.poked = p], r)
<1>1. r = [machine |-> r.machine, state |-> r.state, epoch |-> r.epoch, pc |-> r.pc,
           at |-> r.at, left |-> r.left, poked |-> r.poked, cancelled |-> r.cancelled]
  BY DEF RunSet
<1> QED  BY <1>1 DEF Same

(* What Cancelled makes of one run.                                        *)
Marked(r, m) ==
  IF r.machine = m /\ r.epoch = run[m] THEN [r EXCEPT !.cancelled = TRUE] ELSE r

LEMMA MarkedFields ==
  ASSUME NEW r \in RunSet, NEW m
  PROVE  /\ Marked(r, m).machine = r.machine /\ Marked(r, m).epoch = r.epoch
         /\ Marked(r, m).state = r.state
         /\ ~Marked(r, m).cancelled => ~r.cancelled /\ Marked(r, m) = r
         /\ ~Marked(r, m).cancelled => ~(r.machine = m /\ r.epoch = run[m])
<1>0. r = [machine |-> r.machine, state |-> r.state, epoch |-> r.epoch, pc |-> r.pc,
           at |-> r.at, left |-> r.left, poked |-> r.poked, cancelled |-> r.cancelled]
  BY DEF RunSet
<1>1. /\ [r EXCEPT !.cancelled = TRUE].machine = r.machine
      /\ [r EXCEPT !.cancelled = TRUE].epoch = r.epoch
      /\ [r EXCEPT !.cancelled = TRUE].state = r.state
  BY <1>0
<1>4. [r EXCEPT !.cancelled = TRUE].cancelled
  BY <1>0
<1>2. CASE r.machine = m /\ r.epoch = run[m]
  BY <1>1, <1>4, <1>2 DEF Marked
<1>3. CASE ~(r.machine = m /\ r.epoch = run[m])
  BY <1>3 DEF Marked
<1> QED  BY <1>2, <1>3

(* enterState: the old run is cancelled, the new one is the only live one. *)
LEMMA RunsEnter ==
  ASSUME TypeOK, RunsInv, loop # "stopped", NEW m \in Machines, NEW s \in StatesOf(m),
         enterState(m, s)
  PROVE  RunsInv'
<1>t. /\ runs \subseteq RunSet /\ epoch \in [Machines -> Nat]
      /\ cur \in [Machines -> States] /\ run \in [Machines -> Nat]
  BY DEF TypeOK, MachineTypeOK
<1>p. cur' = [cur EXCEPT ![m] = s] /\ epoch' = [epoch EXCEPT ![m] = epoch[m] + 1]
  BY DEF enterState, EnterLocal, EnterDaqLocal, Publish
<1>q. /\ cur'[m] = s /\ epoch'[m] = epoch[m] + 1 /\ epoch[m] \in Nat
      /\ \A n \in Machines \ {m} : cur'[n] = cur[n] /\ epoch'[n] = epoch[n]
  BY <1>t, <1>p, StatesAreStates
<1>n. \A n \in Machines \ {m} : run'[n] = run[n]
  BY <1>t DEF enterState, EnterLocal, EnterDaqLocal
<1>1. Cancelled(m) = {Marked(r, m) : r \in runs}
  BY DEF Cancelled, Marked
<1>2. ASSUME NEW r \in runs, NEW q, q = Marked(r, m)
      PROVE  RunFollows(q)' /\ (q.machine = m => q.epoch # epoch[m] + 1)
  <2>1. RunFollows(r) /\ r \in RunSet /\ r.machine \in Machines /\ r.epoch \in Nat
    BY <1>t DEF RunsInv, RunSet
  <2>2. /\ q.machine = r.machine /\ q.epoch = r.epoch /\ q.state = r.state
        /\ ~q.cancelled => ~r.cancelled
        /\ ~q.cancelled => ~(r.machine = m /\ r.epoch = run[m])
    BY <1>2, <2>1, MarkedFields
  <2>3. CASE r.machine = m
    <3>1. r.epoch <= epoch[m]
      BY <2>1, <2>3 DEF RunFollows
    <3>2. ~q.cancelled => FALSE
      BY <2>1, <2>2, <2>3 DEF RunFollows
    <3>3. q.epoch < epoch'[q.machine]
      BY <1>q, <2>1, <2>2, <2>3, <3>1
    <3>4. RunFollows(q)'
      BY <1>q, <2>1, <2>2, <2>3, <3>2, <3>3 DEF RunFollows
    <3> QED  BY <1>q, <2>1, <2>2, <2>3, <3>1, <3>4
  <2>4. CASE r.machine # m
    <3>1. /\ cur'[r.machine] = cur[r.machine] /\ epoch'[r.machine] = epoch[r.machine]
          /\ run'[r.machine] = run[r.machine]
      BY <1>q, <1>n, <2>1, <2>4
    <3>2. RunFollows(q)'
      BY <2>1, <2>2, <3>1 DEF RunFollows
    <3> QED  BY <2>2, <2>4, <3>2
  <2> QED  BY <2>3, <2>4
<1>3. ASSUME NEW q \in Cancelled(m)
      PROVE  RunFollows(q)' /\ (q.machine = m => q.epoch # epoch[m] + 1)
  BY <1>1, <1>2
<1>4. ASSUME NEW q \in Cancelled(m), NEW u \in Cancelled(m),
             q.machine = u.machine, q.epoch = u.epoch
      PROVE  q = u
  <2>1. PICK r \in runs : q = Marked(r, m)
    BY <1>1
  <2>2. PICK v \in runs : u = Marked(v, m)
    BY <1>1
  <2>3. r.machine = v.machine /\ r.epoch = v.epoch
    BY <1>t, <1>4, <2>1, <2>2, MarkedFields
  <2> QED  BY <2>1, <2>2, <2>3 DEF RunsInv
<1>5. CASE runs' = Cancelled(m)
  BY <1>3, <1>4, <1>5 DEF RunsInv
<1>6. ASSUME NEW x, x = NewRun(m, s, epoch[m] + 1), runs' = Cancelled(m) \cup {x},
             run' = [run EXCEPT ![m] = epoch[m] + 1]
      PROVE  RunsInv'
  <2>1. x.machine = m /\ x.epoch = epoch[m] + 1 /\ x.state = s /\ ~x.cancelled
    BY <1>6 DEF NewRun
  <2>2. run'[m] = epoch[m] + 1
    BY <1>t, <1>6
  <2>3. RunFollows(x)'
    BY <1>q, <2>1, <2>2 DEF RunFollows
  <2>4. ASSUME NEW q \in runs', NEW u \in runs', q.machine = u.machine, q.epoch = u.epoch
        PROVE  q = u
    BY <1>3, <1>4, <1>6, <2>1, <2>4
  <2>5. \A q \in runs' : RunFollows(q)'
    BY <1>3, <1>6, <2>3
  <2> QED  BY <2>4, <2>5 DEF RunsInv
<1> QED  BY <1>5, <1>6 DEF enterState, EnterLocal, EnterDaqLocal

(* What applying a request may do to the machines.                         *)
LEMMA ApplyEnters ==
  ASSUME NEW q \in RequestSet, applyTransition(q)
  PROVE  \/ UNCHANGED machineVars
         \/ /\ q.machine \in Machines /\ q.target \in StatesOf(q.machine) /\ ~Stale(q)
            /\ enterState(q.machine, q.target)
BY DEF applyTransition, RequestSet

LEMMA RunsApply ==
  ASSUME TypeOK, RunsInv, loop # "stopped", UNCHANGED loop \/ loop' # "stopped",
         NEW q \in RequestSet, applyTransition(q)
  PROVE  RunsInv'
<1>1. CASE UNCHANGED machineVars
  BY <1>1, RunsKept DEF machineVars
<1>2. CASE /\ q.machine \in Machines /\ q.target \in StatesOf(q.machine)
           /\ enterState(q.machine, q.target)
  BY <1>2, RunsEnter
<1> QED  BY <1>1, <1>2, ApplyEnters

LEMMA RunsLoop ==
  ASSUME TypeOK, RunsInv, Loop
  PROVE  RunsInv'
<1>t. /\ runs \subseteq RunSet /\ cur \in [Machines -> States]
      /\ prio \in Seq(RequestSet) /\ transitions \in Seq(RequestSet)
      /\ batch \in Seq(RequestSet) /\ at \in Nat \ {0} /\ (loop = "start" => at <= Len(Order))
  BY DEF TypeOK, MachineTypeOK, QueueTypeOK, LoopTypeOK
<1>h. ASSUME NEW S, NEW f \in Seq(S), f # <<>>
      PROVE  Head(f) \in S
  BY <1>h
<1>1. CASE HandOver \/ SelectPriority \/ TakeBatch \/ DrainDone \/ DrainTransitionsDone
  BY <1>1, RunsKept DEF HandOver, SelectPriority, TakeBatch, DrainDone,
     DrainTransitionsDone, LoopAt, machineVars, loopVars
<1>2. CASE Start
  <2>1. Order[at] \in Machines /\ Initial[Order[at]] \in StatesOf(Order[at])
    BY <1>t, <1>2, EngineAssumption, ProgramAssumption DEF ProgramOK, Start, LoopAt
  <2> QED  BY <1>2, <2>1, RunsEnter DEF Start, LoopAt
<1>3. CASE SelectTransition \/ DrainTransition
  <2>1. Head(transitions) \in RequestSet
    BY <1>t, <1>h, <1>3 DEF SelectTransition, DrainTransition
  <2> QED  BY <1>3, <2>1, RunsApply DEF SelectTransition, DrainTransition, LoopAt, loopVars
<1>4. CASE ApplyBatch
  <2>1. Head(batch) \in RequestSet
    BY <1>t, <1>h, <1>4 DEF ApplyBatch
  <2> QED  BY <1>4, <2>1, RunsApply DEF ApplyBatch, LoopAt
<1>5. CASE SelectTick
  <2> SUFFICES ASSUME NEW f, f = [r \in runs |-> [r EXCEPT !.left = IF @ > 0 THEN @ - 1 ELSE @]]
               PROVE  RunsInv'
    OBVIOUS
  <2>1. runs' = {f[r] : r \in runs}
    BY <1>5 DEF SelectTick
  <2>2. \A r \in runs : Same(f[r], r)
    BY <1>t, RunFields
  <2> QED  BY <1>5, <2>1, <2>2, RunsMapped DEF SelectTick, LoopAt
<1>6. CASE PokeRuns
  <2> SUFFICES ASSUME NEW f, f = [r \in runs |-> [r EXCEPT !.poked = @ \/ r.epoch = run[r.machine]]]
               PROVE  RunsInv'
    OBVIOUS
  <2>1. runs' = {f[r] : r \in runs}
    BY <1>6 DEF PokeRuns
  <2>2. \A r \in runs : Same(f[r], r)
    BY <1>t, RunFields
  <2> QED  BY <1>6, <2>1, <2>2, RunsMapped DEF PokeRuns, LoopAt
<1>7. CASE SelectDone
  <2>1. cur' = cur /\ epoch' = epoch /\ runs' = runs /\ loop' = "stopped"
    BY <1>7 DEF SelectDone
  <2>2. ASSUME NEW r \in runs PROVE RunFollows(r)'
    BY <2>1 DEF RunsInv, RunFollows
  <2> QED  BY <2>1, <2>2 DEF RunsInv
<1>8. CASE ControllerAssign \/ ControllerIf \/ ControllerCommand \/ ControllerDone
  BY <1>8, RunsKept DEF ControllerAssign, ControllerIf, ControllerCommand, ControllerDone,
     machineVars
<1>9. CASE ControllerTransition
  <2>1. /\ at \in DOMAIN Order /\ Order[at] \in Machines /\ loop = "controllers"
        /\ cur[Order[at]] \in StatesOf(Order[at])
    BY <1>t, <1>9, EngineAssumption
       DEF ControllerTransition, AtStmt, InController, LoopAt, TypeOK, MachineTypeOK
  <2>2. ControllerStmts[pc].to \in StatesOf(Order[at])
    BY <1>9, <2>1, DefType, StmtType
       DEF ControllerTransition, AtStmt, ControllerStmts, Def, Moves
  <2> QED  BY <1>9, <2>1, <2>2, RunsEnter DEF ControllerTransition
<1> QED  BY <1>1, <1>2, <1>3, <1>4, <1>5, <1>6, <1>7, <1>8, <1>9 DEF Loop

LEMMA RunsRun ==
  ASSUME TypeOK, RunsInv, NEW r \in runs, Run(r)
  PROVE  RunsInv'
<1>r. r \in RunSet
  BY DEF TypeOK, MachineTypeOK
<1>u. UNCHANGED <<cur, epoch, run, loop>>
  BY DEF Run, RunEnd, RunFetch, RunError, RunAssign, RunIf, RunCommand, RunSignal, RunPoll,
     RunAwait, RunSend, runStable, loopVars
<1>1. CASE Exit(r)
  BY <1>1, <1>u, RunsKept DEF Exit
<1>2. ASSUME NEW q, Become(r, q), Same(q, r)
      PROVE  RunsInv'
  BY <1>2, <1>u, RunsBecome
<1>3. CASE Step(r)
  <2>1. PICK n : Become(r, [r EXCEPT !.pc = n, !.at = "check"])
    BY <1>3 DEF Step
  <2> QED  BY <2>1, <1>2, <1>r, RunFields
<1>4. CASE \E a : Become(r, [r EXCEPT !.at = a])
  BY <1>4, <1>2, <1>r, RunFields
<1>5. CASE Become(r, [r EXCEPT !.at = "poll", !.left = Stmt(r).ticks])
  BY <1>5, <1>2, <1>r, RunFields
<1>6. CASE Become(r, [r EXCEPT !.at = "poll", !.poked = FALSE])
  BY <1>6, <1>2, <1>r, RunFields
<1> QED  BY <1>1, <1>3, <1>4, <1>5, <1>6 DEF Run, RunEnd, RunFetch, RunError, RunAssign,
            RunIf, RunCommand, RunSignal, RunPoll, RunAwait, RunSend

LEMMA RunsNext == TypeOK /\ RunsInv /\ [Next]_vars => RunsInv'
<1> SUFFICES ASSUME TypeOK, RunsInv, [Next]_vars PROVE RunsInv'
  OBVIOUS
<1>1. CASE Shutdown
  BY <1>1, RunsKept DEF Shutdown, machineVars, loopVars
<1>2. CASE UNCHANGED vars
  BY <1>2, RunsKept DEF vars, machineVars, loopVars
<1>3. ASSUME NEW c, Console(c) \/ Reporter(c)
      PROVE  RunsInv'
  <2>1. UNCHANGED callerStable
    BY <1>3 DEF Console, Reporter, RequestTarget, Begins, OfferTransition,
       NotifyAbortTriggered, NotifySequenceComplete, NotifyUncertain, CurrentDaqPayload,
       AppendPriority, SignalPriority, ResolvePayload, StampPayload, HandPayload
  <2> QED  BY <2>1, RunsKept DEF callerStable, loopVars
<1> QED  BY <1>1, <1>2, <1>3, RunsLoop, RunsRun DEF Next

(* Two sequences of one machine never both believe they are current, and   *)
(* the one that does is the current state's, whatever the program and      *)
(* however many goroutines race.                                           *)
THEOREM OneLiveRunHolds == Spec => []OneLiveRun
<1>1. Init => TypeOK /\ RunsInv
  BY InitType DEF Init, RunsInv
<1>2. TypeOK /\ RunsInv /\ [Next]_vars => (TypeOK /\ RunsInv)'
  BY NextType, RunsNext
<1>3. TypeOK /\ RunsInv => OneLiveRun
  BY DEF RunsInv, RunFollows, OneLiveRun
<1> QED  BY <1>1, <1>2, <1>3, PTL DEF Spec
=============================================================================
