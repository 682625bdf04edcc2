----------------------------- MODULE SoftStore -----------------------------
(***************************************************************************)
(* The soft channel store (package softchan): the values of the channels   *)
(* that live in the control node, set by several goroutines; the computed  *)
(* channels the engine's loop evaluates before each tick; and the          *)
(* persister, which saves the values behind the setters' back.  A setter   *)
(* marks the store dirty, and publishes, after it has released the lock.   *)
(*                                                                         *)
(* A value is a member of a set.  A definition's bounds are the values     *)
(* they admit, which need not include its default: nothing compares them.  *)
(* The channels of the state machines and CYCLE_TIME are written to the    *)
(* file with the others and never read back; the file is modelled without  *)
(* them.                                                                   *)
(***************************************************************************)
EXTENDS Naturals, Sequences, FiniteSets, Functions

CONSTANTS
  Declared,    \* the settable channels of the .chan files
  Registered,  \* SM-*-STATE, SM-*-TARGET and CYCLE_TIME
  Computed,    \* the computed channels
  Settable,    \* the channels with a role: Set refuses the others
  Value,
  Zero,        \* the value of a computed channel before it is evaluated
  Fault,       \* what an expression that cannot be evaluated gives
  Reads,       \* the computed channels each computed channel reads
  Derived,     \* the computed channels that read computed channels only
  Hardware,    \* the channels that only the broker knows
  Eval(_, _, _),  \* dsl.Eval of a channel's expression, on the values of the
                  \* store and on the broker's for what the store lacks
  Configs,     \* the definitions a start may find: [allowed, default]
  Setters      \* the goroutines that set channels

Named == Declared \cup Registered
Stored == Named \cup Computed
Partial(S) == UNION {[T -> Value] : T \in SUBSET S}

ASSUME StoreAssumption ==
  /\ Declared \cap Registered = {} /\ Named \cap Computed = {}
  /\ IsFiniteSet(Computed)
  /\ Settable \subseteq Named
  /\ Zero \in Value /\ Fault \notin Value
  /\ Reads \in [Computed -> SUBSET Computed] /\ Derived \subseteq Computed
  /\ Configs \subseteq [allowed : [Declared -> SUBSET Value], default : [Named -> Value]]

ASSUME EvalAssumption ==
  \A c \in Computed, s \in [Stored -> Value], hw \in Partial(Hardware) :
    Eval(c, s, hw) \in Value \cup {Fault}

(* An expression over computed channels depends on their values only.      *)
ASSUME DerivedAssumption ==
  \A c \in Derived : \A s, t \in [Stored -> Value], hw \in Partial(Hardware) \cup {<<>>} :
    (\A d \in Reads[c] : s[d] = t[d]) => Eval(c, s, hw) = Eval(c, t, <<>>)

VARIABLES
  values,  \* Store.values
  config,  \* the loaded definitions
  order,   \* Store.computeOrder
  dirty,   \* Store.dirty
  job,     \* per setter: what it has still to do outside the lock
  pass,    \* Recompute: its copy of the values, the channels to evaluate
  flush,   \* the persister's place in Flush
  copy,    \* the snapshot it has taken
  file,    \* softChannelValues.yaml, <<>> before the first save
  failed,  \* the last write of the file failed
  up       \* the process runs

storeVars == <<values, config, order, dirty, job, pass, flush, copy, file,
               failed, up>>

Idle == [step |-> "idle", event |-> <<>>]
NoPass == [todo |-> <<>>]
Only(c, v) == [x \in {c} |-> v]

Limits(cfg, c) == IF c \in Declared THEN cfg.allowed[c] ELSE Value

(* detectCycles and topologicalSort: a channel comes after those it reads, *)
(* in any such order; a start that finds a cycle is refused.               *)
Sorted(s) == \A i, j \in DOMAIN s : i <= j => s[j] \notin Reads[s[i]]
Orders == {s \in Surjection(1 .. Cardinality(Computed), Computed) : Sorted(s)}

(* Fault: a saved value is taken as it is.                                 *)
AdmittedUnchecked(cfg, f, c) == IF c \in DOMAIN f THEN f[c] ELSE cfg.default[c]

(* LoadFromDir: a saved value is checked like a command's.                 *)
Admitted(cfg, f, c) ==
  IF c \in DOMAIN f /\ f[c] \in cfg.allowed[c] THEN f[c] ELSE cfg.default[c]

LoadFromDir(cfg, f) ==
  [c \in Stored |-> CASE c \in Declared -> Admitted(cfg, f, c)
                      [] c \in Registered -> cfg.default[c]
                      [] OTHER -> Zero]

StoreInit ==
  /\ config \in Configs /\ order \in Orders
  /\ file = <<>> /\ values = LoadFromDir(config, file)
  /\ dirty = FALSE /\ job = [g \in Setters |-> Idle] /\ pass = NoPass
  /\ flush = "idle" /\ copy = <<>> /\ failed = FALSE
  /\ up = TRUE

-----------------------------------------------------------------------------
(* Setting: the value under the lock, the mark and the publication after.  *)

Assign(g, c, v, event) ==
  /\ up /\ job[g] = Idle
  /\ values' = [values EXCEPT ![c] = v]
  /\ job' = [job EXCEPT ![g] = [step |-> "mark", event |-> event]]
  /\ UNCHANGED <<config, order, dirty, pass, flush, copy, file, failed, up>>

Accepts(c, v) == c \in Settable /\ v \in Limits(config, c)

Set(g, c, v, event) == Accepts(c, v) /\ Assign(g, c, v, event)

(* Neither role nor bounds, and a publication: only the engine's own       *)
(* channels are set this way.                                              *)
SetInternal(g, c, v) == c \in Registered /\ Assign(g, c, v, Only(c, v))

(* Fault: only a set that publishes marks.                                 *)
MarkPublishedOnly(g) ==
  /\ up /\ job[g].step = "mark"
  /\ dirty' = (dirty \/ job[g].event # <<>>)
  /\ job' = [job EXCEPT ![g] = IF @.event = <<>> THEN Idle
                               ELSE [@ EXCEPT !.step = "publish"]]
  /\ UNCHANGED <<values, config, order, pass, flush, copy, file, failed, up>>

markDirty(g) ==
  /\ up /\ job[g].step = "mark"
  /\ dirty' = TRUE
  /\ job' = [job EXCEPT ![g] = IF @.event = <<>> THEN Idle
                               ELSE [@ EXCEPT !.step = "publish"]]
  /\ UNCHANGED <<values, config, order, pass, flush, copy, file, failed, up>>

Published(g) ==
  /\ up /\ job[g].step = "publish"
  /\ job' = [job EXCEPT ![g] = Idle]
  /\ UNCHANGED <<values, config, order, dirty, pass, flush, copy, file, failed, up>>

-----------------------------------------------------------------------------
(* Recompute: a copy under the lock, the expressions without it, the new   *)
(* values under the lock.  Each new value is compared with the copy that   *)
(* already holds it, so nothing is ever published.                         *)

RecomputeBegins ==
  /\ up /\ pass = NoPass
  /\ pass' = [space |-> values, todo |-> order]
  /\ UNCHANGED <<values, config, order, dirty, job, flush, copy, file, failed, up>>

Result(hw) == Eval(Head(pass.todo), pass.space, hw)

Evaluate(hw) ==
  /\ up /\ pass.todo # <<>> /\ Result(hw) # Fault
  /\ pass' = [space |-> [pass.space EXCEPT ![Head(pass.todo)] = Result(hw)],
              todo |-> Tail(pass.todo)]
  /\ UNCHANGED <<values, config, order, dirty, job, flush, copy, file, failed, up>>

(* Fault: the values found before the error are kept.                      *)
AbandonsKeeping(hw) ==
  /\ up /\ pass.todo # <<>> /\ Result(hw) = Fault
  /\ values' = [c \in Stored |-> IF c \in Computed THEN pass.space[c] ELSE values[c]]
  /\ pass' = NoPass
  /\ UNCHANGED <<config, order, dirty, job, flush, copy, file, failed, up>>

(* One error abandons the values of every channel before it too.           *)
Abandons(hw) ==
  /\ up /\ pass.todo # <<>> /\ Result(hw) = Fault
  /\ pass' = NoPass
  /\ UNCHANGED <<values, config, order, dirty, job, flush, copy, file, failed, up>>

WriteBack ==
  /\ up /\ pass # NoPass /\ pass.todo = <<>>
  /\ values' = [c \in Stored |-> IF c \in Computed THEN pass.space[c] ELSE values[c]]
  /\ pass' = NoPass
  /\ UNCHANGED <<config, order, dirty, job, flush, copy, file, failed, up>>

-----------------------------------------------------------------------------
(* Flush, on the persister's goroutine.                                    *)

FlushBegins ==
  /\ up /\ flush = "idle" /\ dirty
  /\ dirty' = FALSE /\ flush' = "cleared"
  /\ UNCHANGED <<values, config, order, job, pass, copy, file, failed, up>>

Snapshot ==
  /\ up /\ flush = "cleared"
  /\ copy' = [c \in Declared |-> values[c]] /\ flush' = "copied"
  /\ UNCHANGED <<values, config, order, dirty, job, pass, file, failed, up>>

(* Fault: the file itself is truncated and written.                        *)
WriteInPlace ==
  /\ up /\ flush = "copied" /\ flush' = "written" /\ file' = <<>>
  /\ UNCHANGED <<values, config, order, dirty, job, pass, copy, failed, up>>

(* The temporary file; a failure of it or of the rename is logged.         *)
WriteTmp ==
  /\ up /\ flush = "copied" /\ flush' = "written"
  /\ UNCHANGED <<values, config, order, dirty, job, pass, copy, file, failed, up>>

Rename ==
  /\ up /\ flush = "written"
  /\ file' = copy /\ copy' = <<>> /\ flush' = "idle" /\ failed' = FALSE
  /\ UNCHANGED <<values, config, order, dirty, job, pass, up>>

FlushFails ==
  /\ up /\ flush \in {"copied", "written"}
  /\ flush' = "idle" /\ copy' = <<>> /\ failed' = TRUE
  /\ UNCHANGED <<values, config, order, dirty, job, pass, file, up>>

Flush == FlushBegins \/ Snapshot \/ WriteTmp \/ Rename

-----------------------------------------------------------------------------
(* The process dies at any point: a kill, a restart command, log.Fatal.    *)
(* main leaves by no other way, so no last Flush runs.  The next start may *)
(* find other definitions.                                                 *)

Crash ==
  /\ up /\ up' = FALSE
  /\ dirty' = FALSE /\ job' = [g \in Setters |-> Idle] /\ pass' = NoPass
  /\ flush' = "idle" /\ copy' = <<>> /\ failed' = FALSE
  /\ UNCHANGED <<values, config, order, file>>

Restart ==
  /\ ~up /\ up' = TRUE
  /\ config' \in Configs /\ order' \in Orders
  /\ values' = LoadFromDir(config', file)
  /\ UNCHANGED <<dirty, job, pass, flush, copy, file, failed>>

StoreNext ==
  \/ \E g \in Setters :
       \/ \E c \in Named, v \in Value :
            \/ \E event \in {<<>>, Only(c, v)} : Set(g, c, v, event)
            \/ SetInternal(g, c, v)
       \/ markDirty(g) \/ Published(g)
  \/ RecomputeBegins \/ WriteBack
  \/ \E hw \in Partial(Hardware) : Evaluate(hw) \/ Abandons(hw)
  \/ Flush \/ FlushFails
  \/ Crash \/ Restart

StoreSpec == StoreInit /\ [][StoreNext]_storeVars

-----------------------------------------------------------------------------
Jobs == [step : {"idle", "mark", "publish"}, event : Partial(Named)]

StoreTypeOK ==
  /\ values \in [Stored -> Value] /\ config \in Configs /\ order \in Orders
  /\ dirty \in BOOLEAN /\ job \in [Setters -> Jobs]
  /\ pass \in {NoPass} \cup [space : [Stored -> Value], todo : Seq(Computed)]
  /\ flush \in {"idle", "cleared", "copied", "written"}
  /\ copy \in {<<>>} \cup [Declared -> Value]
  /\ file \in {<<>>} \cup [Declared -> Value]
  /\ failed \in BOOLEAN /\ up \in BOOLEAN

(* A declared channel never holds a value its present definition would     *)
(* refuse, other than its default: not after a command, nor after a start  *)
(* whose file was saved under other definitions.                           *)
WithinBounds ==
  up => \A c \in Declared : values[c] \in Limits(config, c) \cup {config.default[c]}

(* A start with the present definitions would give every declared channel  *)
(* the value it has now, unless a save is still to come (the store is      *)
(* marked, a setter is about to mark it, the persister has yet to copy or  *)
(* holds a copy of just these values) or the last save failed.             *)
Unsaved ==
  \/ dirty \/ failed \/ flush = "cleared"
  \/ \E g \in Setters : job[g].step = "mark"
  \/ flush \in {"copied", "written"} /\ \A c \in Declared : copy[c] = values[c]
RestartRestores ==
  up => Unsaved \/ \A c \in Declared : Admitted(config, file, c) = values[c]

(* A channel computed from computed channels agrees with their values, at  *)
(* every moment, whatever passes failed in between, once a pass succeeded. *)
ComputedConsistent ==
  up => \/ \A c \in Computed : values[c] = Zero
        \/ \A c \in Derived : values[c] = Eval(c, values, <<>>)

(* The promise about the file: a capture of all the values at one instant  *)
(* replaces it as a whole, and a start admits each value or its default.   *)
File == INSTANCE Durable WITH
  memory <- [c \in Declared |-> values[c]], disk <- file,
  held <- flush \in {"copied", "written"}
Durability == File!Spec
=============================================================================
