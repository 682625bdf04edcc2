--------------------------- MODULE EngineLiveness ---------------------------
(***************************************************************************)
(* What the engine must eventually do.  Every goroutine is scheduled: the  *)
(* loop (its select always has the clock), each sequence run, and each     *)
(* call once it has begun.  Go's select picks at random among the cases    *)
(* that are ready, so a cancelled context that stays ready is eventually   *)
(* picked (strong fairness).  Nobody is obliged to begin a call.           *)
(***************************************************************************)
EXTENDS EngineProperties

CONSTANT MaxEpoch   \* bound: epochs the liveness formulas speak of

Epochs == 1..MaxEpoch

RunOf(m, e) == {r \in runs : r.machine = m /\ r.epoch = e}

ReporterContinues(c) ==
  \/ AppendPriority(c) \/ SignalPriority(c)
  \/ ResolvePayload(c) \/ StampPayload(c) \/ HandPayload(c)

FairSpec ==
  /\ Spec
  /\ WF_vars(Loop) /\ SF_vars(SelectDone)
  /\ \A m \in Machines : \A e \in Epochs : WF_vars(\E r \in RunOf(m, e) : Run(r))
  /\ \A c \in Consoles : WF_vars(OfferTransition(c))
  /\ \A c \in Reporters : WF_vars(ReporterContinues(c))

(* A cancelled sequence goroutine ends: it is not left blocked in a sleep, *)
(* a wait, or a send on a full queue (await, requestTransition).           *)
CancelledRunsExit ==
  \A m \in Machines : \A e \in Epochs :
    (\E r \in RunOf(m, e) : Done(r)) ~> RunOf(m, e) = {}

(* A sleep, and a wait_until that has a timeout, end even if no condition  *)
(* ever holds: every tick both advances time and wakes the run.            *)
Timed(r) == /\ r.at \in {"poll", "await"}
            /\ Stmt(r).op = "sleep" \/ Stmt(r).ticks # NoTimeout
TimedPausesEnd ==
  \A m \in Machines : \A e \in Epochs :
    (\E r \in RunOf(m, e) : Timed(r)) ~> ~(\E r \in RunOf(m, e) : Timed(r))

(* A priority request moves its machine, unless it is tagged with an epoch *)
(* the machine has left, or the engine is stopped: aborts and commands are *)
(* never dropped.                                                          *)
Unconditional(m) ==
  \E q \in ToRange(prio) \cup ToRange(batch) : q.machine = m /\ q.epoch = 0
PriorityActs ==
  \A m \in Machines : \A e \in Epochs :
    Unconditional(m) /\ epoch[m] = e ~> epoch[m] > e \/ stopping
=============================================================================
