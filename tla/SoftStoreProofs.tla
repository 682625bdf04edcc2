--------------------------- MODULE SoftStoreProofs ---------------------------
(***************************************************************************)
(* The soft channel store, for every set of channels, every expression and *)
(* every definition a start may find: its values stay within bounds, what  *)
(* is saved is what a start restores, computed channels agree with each    *)
(* other, and the store keeps the promise of module Durable.               *)
(***************************************************************************)
EXTENDS SoftStore, SequenceTheorems, FiniteSetTheorems, TLAPS

-----------------------------------------------------------------------------
(* Values and definitions.                                                 *)

LEMMA Disjoint ==
  /\ \A c \in Declared : c \in Stored /\ c \notin Registered /\ c \notin Computed
  /\ \A c \in Registered : c \in Stored /\ c \notin Computed
  /\ \A c \in Computed : c \in Stored
BY StoreAssumption DEF Stored, Named

LEMMA ConfigType ==
  ASSUME NEW cfg \in Configs
  PROVE  /\ \A c \in Named : cfg.default[c] \in Value
         /\ \A c \in Declared : cfg.allowed[c] \subseteq Value
BY StoreAssumption

LEMMA AdmittedType ==
  ASSUME NEW cfg \in Configs, NEW f \in {<<>>} \cup [Declared -> Value], NEW c \in Declared
  PROVE  /\ Admitted(cfg, f, c) \in Value
         /\ Admitted(cfg, f, c) \in cfg.allowed[c] \cup {cfg.default[c]}
BY ConfigType DEF Admitted, Named

(* A start gives every channel a value: a declared one what the file and   *)
(* the definitions admit, a computed one the zero.                         *)
LEMMA LoadedType ==
  ASSUME NEW cfg \in Configs, NEW f \in {<<>>} \cup [Declared -> Value]
  PROVE  /\ LoadFromDir(cfg, f) \in [Stored -> Value]
         /\ \A c \in Declared : LoadFromDir(cfg, f)[c] = Admitted(cfg, f, c)
         /\ \A c \in Computed : LoadFromDir(cfg, f)[c] = Zero
<1>1. \A c \in Declared : LoadFromDir(cfg, f)[c] = Admitted(cfg, f, c)
  BY Disjoint DEF LoadFromDir
<1>2. \A c \in Computed : LoadFromDir(cfg, f)[c] = Zero
  BY Disjoint DEF LoadFromDir
<1>3. \A c \in Registered : LoadFromDir(cfg, f)[c] = cfg.default[c]
  BY Disjoint DEF LoadFromDir
<1>4. ASSUME NEW c \in Stored PROVE LoadFromDir(cfg, f)[c] \in Value
  BY <1>1, <1>2, <1>3, AdmittedType, ConfigType, StoreAssumption DEF Stored, Named
<1>5. LoadFromDir(cfg, f) \in [Stored -> Value]
  BY <1>4 DEF LoadFromDir
<1> QED  BY <1>1, <1>2, <1>5

(* The order of evaluation lists every computed channel, each after those  *)
(* it reads.                                                               *)
LEMMA OrderType ==
  ASSUME NEW o \in Orders
  PROVE  /\ o \in Seq(Computed)
         /\ \A c \in Computed : \E i \in 1 .. Len(o) : o[i] = c
         /\ \A i, j \in 1 .. Len(o) : i <= j => o[j] \notin Reads[o[i]]
<1>1. Cardinality(Computed) \in Nat
  BY StoreAssumption, FS_CardinalityType
<1>2. o \in [1 .. Cardinality(Computed) -> Computed]
  BY DEF Orders, Surjection
<1>3. o \in Seq(Computed)
  BY <1>1, <1>2, SeqDef
<1>4. DOMAIN o = 1 .. Len(o)
  BY <1>3
<1>5. \A c \in Computed : \E i \in 1 .. Len(o) : o[i] = c
  BY <1>2, <1>4 DEF Orders, Surjection
<1> QED  BY <1>3, <1>4, <1>5 DEF Orders, Sorted

LEMMA NoEvent == <<>> \in Partial(Named)
<1>1. <<>> \in [1 .. 0 -> Value]
  BY EmptySeq, LenProperties
<1>2. 1 .. 0 = {}
  OBVIOUS
<1> QED  BY <1>1, <1>2 DEF Partial

LEMMA OneEvent ==
  ASSUME NEW c \in Named, NEW v \in Value
  PROVE  Only(c, v) \in Partial(Named)
<1>1. Only(c, v) \in [{c} -> Value]
  BY DEF Only
<1> QED  BY <1>1 DEF Partial

-----------------------------------------------------------------------------
(* Every variable holds a value of its kind, in every reachable state.     *)

LEMMA InitType == StoreInit => StoreTypeOK
<1> SUFFICES ASSUME StoreInit PROVE StoreTypeOK
  OBVIOUS
<1>1. values \in [Stored -> Value]
  BY LoadedType DEF StoreInit
<1>2. job \in [Setters -> Jobs]
  BY NoEvent DEF StoreInit, Idle, Jobs
<1> QED  BY <1>1, <1>2 DEF StoreInit, StoreTypeOK

LEMMA AssignType ==
  ASSUME StoreTypeOK, NEW g \in Setters, NEW c \in Named, NEW v \in Value,
         NEW event \in Partial(Named), Assign(g, c, v, event)
  PROVE  StoreTypeOK'
<1>1. values' \in [Stored -> Value]
  BY DEF Assign, StoreTypeOK, Stored
<1>2. job' \in [Setters -> Jobs]
  <2>1. [step |-> "mark", event |-> event] \in Jobs
    BY DEF Jobs
  <2> QED  BY <2>1 DEF Assign, StoreTypeOK
<1> QED  BY <1>1, <1>2 DEF Assign, StoreTypeOK

LEMMA JobType ==
  ASSUME StoreTypeOK, NEW g \in Setters, markDirty(g) \/ Published(g)
  PROVE  StoreTypeOK'
<1>1. job[g] \in Jobs /\ Idle \in Jobs
  BY NoEvent DEF StoreTypeOK, Idle, Jobs
<1>2. [job[g] EXCEPT !.step = "publish"] \in Jobs
  BY <1>1 DEF Jobs
<1>3. job' \in [Setters -> Jobs]
  BY <1>1, <1>2 DEF markDirty, Published, StoreTypeOK
<1> QED  BY <1>3 DEF markDirty, Published, StoreTypeOK

(* A pass under way holds a value of every channel and what it has still   *)
(* to evaluate.                                                            *)
LEMMA PassType ==
  ASSUME StoreTypeOK, pass # NoPass
  PROVE  /\ pass.space \in [Stored -> Value] /\ pass.todo \in Seq(Computed)
         /\ pass.todo # <<>> => Head(pass.todo) \in Computed
BY DEF StoreTypeOK

LEMMA EvaluateType ==
  ASSUME StoreTypeOK, NEW hw \in Partial(Hardware), Evaluate(hw)
  PROVE  StoreTypeOK'
<1>1. pass # NoPass
  BY DEF Evaluate, NoPass
<1>2. Result(hw) \in Value
  BY <1>1, PassType, EvalAssumption DEF Evaluate, Result
<1>3. [pass.space EXCEPT ![Head(pass.todo)] = Result(hw)] \in [Stored -> Value]
  BY <1>1, <1>2, PassType, Disjoint
<1>4. Tail(pass.todo) \in Seq(Computed)
  BY <1>1, PassType DEF Evaluate
<1> QED  BY <1>3, <1>4 DEF Evaluate, StoreTypeOK

LEMMA WriteBackType == StoreTypeOK /\ WriteBack => StoreTypeOK'
<1> SUFFICES ASSUME StoreTypeOK, WriteBack PROVE StoreTypeOK'
  OBVIOUS
<1>1. values' \in [Stored -> Value]
  BY PassType, Disjoint DEF WriteBack, StoreTypeOK
<1> QED  BY <1>1 DEF WriteBack, StoreTypeOK

LEMMA NextType == StoreTypeOK /\ [StoreNext]_storeVars => StoreTypeOK'
<1> SUFFICES ASSUME StoreTypeOK, [StoreNext]_storeVars PROVE StoreTypeOK'
  OBVIOUS
<1>1. CASE UNCHANGED storeVars
  BY <1>1 DEF storeVars, StoreTypeOK
<1>2. ASSUME NEW g \in Setters, NEW c \in Named, NEW v \in Value,
             NEW event \in {<<>>, Only(c, v)}, Set(g, c, v, event)
      PROVE  StoreTypeOK'
  BY <1>2, AssignType, NoEvent, OneEvent DEF Set
<1>3. ASSUME NEW g \in Setters, NEW c \in Named, NEW v \in Value, SetInternal(g, c, v)
      PROVE  StoreTypeOK'
  BY <1>3, AssignType, OneEvent DEF SetInternal
<1>4. ASSUME NEW g \in Setters, markDirty(g) \/ Published(g) PROVE StoreTypeOK'
  BY <1>4, JobType
<1>5. CASE RecomputeBegins
  <2>1. order \in Seq(Computed)
    BY OrderType DEF StoreTypeOK
  <2> QED  BY <1>5, <2>1 DEF RecomputeBegins, StoreTypeOK
<1>6. ASSUME NEW hw \in Partial(Hardware), Evaluate(hw) PROVE StoreTypeOK'
  BY <1>6, EvaluateType
<1>7. ASSUME NEW hw \in Partial(Hardware), Abandons(hw) PROVE StoreTypeOK'
  BY <1>7 DEF Abandons, StoreTypeOK
<1>8. CASE WriteBack
  BY <1>8, WriteBackType
<1>9. CASE Flush
  <2>1. CASE FlushBegins
    BY <2>1 DEF FlushBegins, StoreTypeOK
  <2>2. CASE Snapshot
    <3>1. copy' \in [Declared -> Value]
      BY <2>2, Disjoint DEF Snapshot, StoreTypeOK
    <3> QED  BY <2>2, <3>1 DEF Snapshot, StoreTypeOK
  <2>3. CASE WriteTmp
    BY <2>3 DEF WriteTmp, StoreTypeOK
  <2>4. CASE Rename
    BY <2>4 DEF Rename, StoreTypeOK
  <2> QED  BY <1>9, <2>1, <2>2, <2>3, <2>4 DEF Flush
<1>10. CASE FlushFails
  BY <1>10 DEF FlushFails, StoreTypeOK
<1>11. CASE Crash
  <2>1. job' \in [Setters -> Jobs]
    BY <1>11, NoEvent DEF Crash, Idle, Jobs
  <2> QED  BY <1>11, <2>1 DEF Crash, StoreTypeOK
<1>12. CASE Restart
  <2>1. values' \in [Stored -> Value]
    BY <1>12, LoadedType DEF Restart, StoreTypeOK
  <2> QED  BY <1>12, <2>1 DEF Restart, StoreTypeOK
<1> QED  BY <1>1, <1>2, <1>3, <1>4, <1>5, <1>6, <1>7, <1>8, <1>9, <1>10, <1>11, <1>12
         DEF StoreNext

(* The store's variables keep their types (store.go's Store), whatever the *)
(* setters, the loop, the persister and the ends of the process do.        *)
THEOREM StoreTypeCorrect == StoreSpec => []StoreTypeOK
<1>1. StoreInit => StoreTypeOK
  BY InitType
<1>2. StoreTypeOK /\ [StoreNext]_storeVars => StoreTypeOK'
  BY NextType
<1> QED  BY <1>1, <1>2, PTL DEF StoreSpec

-----------------------------------------------------------------------------
(* Which actions change the values of the declared channels: a command and *)
(* a start.                                                                *)

LEMMA DeclaredKept ==
  ASSUME StoreTypeOK,
         \/ UNCHANGED values
         \/ WriteBack
         \/ \E g \in Setters, c \in Named, v \in Value : SetInternal(g, c, v)
  PROVE  \A c \in Declared : values'[c] = values[c]
<1>1. CASE UNCHANGED values
  BY <1>1
<1>2. CASE WriteBack
  BY <1>2, Disjoint DEF WriteBack
<1>3. ASSUME NEW g \in Setters, NEW c \in Named, NEW v \in Value, SetInternal(g, c, v)
      PROVE  \A d \in Declared : values'[d] = values[d]
  <2>1. c \in Registered /\ values' = [values EXCEPT ![c] = v]
    BY <1>3 DEF SetInternal, Assign
  <2> QED  BY <2>1, Disjoint DEF StoreTypeOK
<1> QED  BY <1>1, <1>2, <1>3

(* Every step is a command on one channel, a start, the end of the process *)
(* or leaves the declared channels and the definitions as they were.       *)
LEMMA ValuesStep ==
  ASSUME StoreTypeOK, [StoreNext]_storeVars
  PROVE  \/ \E g \in Setters, c \in Named, v \in Value :
              \E event \in {<<>>, Only(c, v)} : Set(g, c, v, event)
         \/ Restart
         \/ Crash
         \/ UNCHANGED <<config, up>> /\ \A c \in Declared : values'[c] = values[c]
<1>1. CASE UNCHANGED storeVars
  BY <1>1 DEF storeVars
<1>2. ASSUME NEW g \in Setters, NEW c \in Named, NEW v \in Value, SetInternal(g, c, v)
      PROVE  UNCHANGED <<config, up>> /\ \A d \in Declared : values'[d] = values[d]
  BY <1>2, DeclaredKept DEF SetInternal, Assign
<1>3. ASSUME NEW g \in Setters, markDirty(g) \/ Published(g)
      PROVE  UNCHANGED <<config, up, values>>
  BY <1>3 DEF markDirty, Published
<1>4. CASE RecomputeBegins
  BY <1>4 DEF RecomputeBegins
<1>5. CASE WriteBack
  BY <1>5, DeclaredKept DEF WriteBack
<1>6. ASSUME NEW hw \in Partial(Hardware), Evaluate(hw) \/ Abandons(hw)
      PROVE  UNCHANGED <<config, up, values>>
  BY <1>6 DEF Evaluate, Abandons
<1>7. CASE Flush \/ FlushFails
  BY <1>7 DEF Flush, FlushBegins, Snapshot, WriteTmp, Rename, FlushFails
<1> QED  BY <1>1, <1>2, <1>3, <1>4, <1>5, <1>6, <1>7 DEF StoreNext

-----------------------------------------------------------------------------
(* Bounds.                                                                 *)

LEMMA InitBounds == StoreInit => WithinBounds
<1> SUFFICES ASSUME StoreInit, NEW c \in Declared
             PROVE  values[c] \in Limits(config, c) \cup {config.default[c]}
  BY DEF WithinBounds
<1>1. values[c] = Admitted(config, <<>>, c)
  BY LoadedType DEF StoreInit
<1> QED  BY <1>1, AdmittedType DEF StoreInit, Limits

LEMMA NextBounds ==
  StoreTypeOK /\ WithinBounds /\ [StoreNext]_storeVars => WithinBounds'
<1> SUFFICES ASSUME StoreTypeOK, WithinBounds, [StoreNext]_storeVars, up', NEW c \in Declared
             PROVE  values'[c] \in Limits(config', c) \cup {config'.default[c]}
  BY DEF WithinBounds
<1>1. ASSUME NEW g \in Setters, NEW d \in Named, NEW v \in Value,
             NEW event \in {<<>>, Only(d, v)}, Set(g, d, v, event)
      PROVE  values'[c] \in Limits(config', c) \cup {config'.default[c]}
  <2>1. /\ up /\ v \in Limits(config, d)
        /\ values' = [values EXCEPT ![d] = v] /\ config' = config
    BY <1>1 DEF Set, Accepts, Assign
  <2>2. values'[c] = IF c = d THEN v ELSE values[c]
    BY <2>1, Disjoint DEF StoreTypeOK
  <2> QED  BY <2>1, <2>2 DEF WithinBounds
<1>2. CASE Restart
  <2>1. config' \in Configs /\ values' = LoadFromDir(config', file)
    BY <1>2 DEF Restart
  <2>2. values'[c] = Admitted(config', file, c)
    BY <2>1, LoadedType DEF StoreTypeOK
  <2> QED  BY <2>1, <2>2, AdmittedType DEF StoreTypeOK, Limits
<1>3. CASE Crash
  BY <1>3 DEF Crash
<1>4. CASE UNCHANGED <<config, up>> /\ \A d \in Declared : values'[d] = values[d]
  BY <1>4 DEF WithinBounds
<1> QED  BY <1>1, <1>2, <1>3, <1>4, ValuesStep

(* A declared channel never holds a value its present definition would     *)
(* refuse, other than its default: Set checks a command, LoadFromDir what  *)
(* an earlier process saved, whatever definitions that one had.            *)
THEOREM BoundsRespected == StoreSpec => []WithinBounds
<1>1. StoreInit => WithinBounds
  BY InitBounds
<1>2. StoreTypeOK /\ WithinBounds /\ [StoreNext]_storeVars => WithinBounds'
  BY NextBounds
<1> QED  BY <1>1, <1>2, StoreTypeCorrect, PTL DEF StoreSpec

-----------------------------------------------------------------------------
(* Saving.  The invariant follows a value from the set to the file: it is  *)
(* marked or about to be, or in the persister's copy, or a start would     *)
(* find it, unless the last save failed.                                   *)

Coming == dirty \/ \E g \in Setters : job[g].step = "mark"
Copying == flush \in {"copied", "written"}

SaveInv ==
  /\ ~up => flush = "idle"
  /\ up /\ Copying =>
       /\ copy \in [Declared -> Value]
       /\ Coming \/ \A c \in Declared : copy[c] = values[c]
  /\ up /\ flush = "idle" =>
       Coming \/ failed \/ \A c \in Declared : Admitted(config, file, c) = values[c]

LEMMA InitSave == StoreInit => SaveInv
<1> SUFFICES ASSUME StoreInit PROVE SaveInv
  OBVIOUS
<1>1. \A c \in Declared : Admitted(config, file, c) = values[c]
  BY LoadedType DEF StoreInit
<1> QED  BY <1>1 DEF StoreInit, SaveInv, Copying

(* A set leaves a mark to be made; the mark, once made, stays until the    *)
(* persister takes it.                                                     *)
LEMMA AssignSave ==
  ASSUME StoreTypeOK, SaveInv, NEW g \in Setters, NEW c \in Named, NEW v \in Value,
         NEW event, Assign(g, c, v, event)
  PROVE  SaveInv'
<1>1. job'[g].step = "mark"
  BY DEF Assign, StoreTypeOK
<1>2. Coming'
  BY <1>1 DEF Coming
<1>3. up /\ UNCHANGED <<flush, copy, up>>
  BY DEF Assign
<1>4. Copying' = Copying
  BY <1>3 DEF Copying
<1> QED  BY <1>2, <1>3, <1>4 DEF SaveInv

LEMMA QuietSave ==
  ASSUME StoreTypeOK, SaveInv,
         UNCHANGED <<config, flush, copy, file, failed, up>>,
         \A c \in Declared : values'[c] = values[c],
         Coming => Coming'
  PROVE  SaveInv'
<1>1. Copying' = Copying
  BY DEF Copying
<1>2. \A c \in Declared : Admitted(config, file, c)' = Admitted(config, file, c)
  BY DEF Admitted
<1> QED  BY <1>1, <1>2 DEF SaveInv

LEMMA JobSave ==
  ASSUME StoreTypeOK, SaveInv, NEW g \in Setters, markDirty(g) \/ Published(g)
  PROVE  SaveInv'
<1>1. UNCHANGED <<config, flush, copy, file, failed, up, values>>
  BY DEF markDirty, Published
<1>2. CASE markDirty(g)
  <2>1. Coming'
    BY <1>2 DEF markDirty, Coming
  <2> QED  BY <1>1, <2>1, QuietSave
<1>3. CASE Published(g)
  <2>1. \A h \in Setters : job[h].step = "mark" => job'[h].step = "mark"
    BY <1>3 DEF Published, StoreTypeOK
  <2>2. Coming => Coming'
    BY <1>3, <2>1 DEF Published, Coming
  <2> QED  BY <1>1, <2>2, QuietSave
<1> QED  BY <1>2, <1>3

(* A rename installs values the present definitions admit: the persister   *)
(* copied them within this process, whose values are within bounds.        *)
LEMMA RenameSave ==
  ASSUME StoreTypeOK, WithinBounds, SaveInv, Rename
  PROVE  SaveInv'
<1>1. /\ up' /\ up /\ file' = copy /\ flush' = "idle" /\ Copying
      /\ UNCHANGED <<values, config, dirty, job>>
  BY DEF Rename, Copying
<1>2. copy \in [Declared -> Value]
  BY <1>1 DEF SaveInv
<1>3. Coming' = Coming
  BY <1>1 DEF Coming
<1>4. ASSUME \A c \in Declared : copy[c] = values[c], NEW c \in Declared
      PROVE  Admitted(config', file', c) = values'[c]
  <2>1. values[c] \in config.allowed[c] \cup {config.default[c]}
    BY <1>1 DEF WithinBounds, Limits
  <2>2. c \in DOMAIN copy /\ copy[c] = values[c]
    BY <1>2, <1>4
  <2> QED  BY <1>1, <2>1, <2>2 DEF Admitted
<1>5. Coming \/ \A c \in Declared : copy[c] = values[c]
  BY <1>1 DEF SaveInv
<1>6. Coming' \/ \A c \in Declared : Admitted(config, file, c)' = values'[c]
  BY <1>3, <1>4, <1>5
<1> QED  BY <1>1, <1>6 DEF SaveInv, Copying

LEMMA FlushSave ==
  ASSUME StoreTypeOK, WithinBounds, SaveInv, Flush \/ FlushFails
  PROVE  SaveInv'
<1>1. CASE FlushBegins
  BY <1>1 DEF FlushBegins, SaveInv, Copying
<1>2. CASE Snapshot
  <2>1. copy' \in [Declared -> Value] /\ \A c \in Declared : copy'[c] = values'[c]
    BY <1>2, Disjoint DEF Snapshot, StoreTypeOK
  <2> QED  BY <1>2, <2>1 DEF Snapshot, SaveInv
<1>3. CASE WriteTmp
  <2>1. Copying /\ Coming' = Coming /\ UNCHANGED <<copy, values>> /\ up /\ up' /\ flush' = "written"
    BY <1>3 DEF WriteTmp, Copying, Coming
  <2> QED  BY <2>1 DEF SaveInv
<1>4. CASE Rename
  BY <1>4, RenameSave
<1>5. CASE FlushFails
  BY <1>5 DEF FlushFails, SaveInv, Copying
<1> QED  BY <1>1, <1>2, <1>3, <1>4, <1>5 DEF Flush

LEMMA NextSave ==
  StoreTypeOK /\ WithinBounds /\ SaveInv /\ [StoreNext]_storeVars => SaveInv'
<1> SUFFICES ASSUME StoreTypeOK, WithinBounds, SaveInv, [StoreNext]_storeVars
             PROVE  SaveInv'
  OBVIOUS
<1>1. CASE UNCHANGED storeVars
  <2>1. Coming' = Coming
    BY <1>1 DEF storeVars, Coming
  <2> QED  BY <1>1, <2>1, QuietSave DEF storeVars
<1>2. ASSUME NEW g \in Setters, NEW c \in Named, NEW v \in Value,
             NEW event \in {<<>>, Only(c, v)}, Set(g, c, v, event)
      PROVE  SaveInv'
  BY <1>2, AssignSave DEF Set
<1>3. ASSUME NEW g \in Setters, NEW c \in Named, NEW v \in Value, SetInternal(g, c, v)
      PROVE  SaveInv'
  BY <1>3, AssignSave DEF SetInternal
<1>4. ASSUME NEW g \in Setters, markDirty(g) \/ Published(g) PROVE SaveInv'
  BY <1>4, JobSave
<1>5. CASE RecomputeBegins \/ WriteBack
  <2>1. UNCHANGED <<config, flush, copy, file, failed, up, dirty, job>>
    BY <1>5 DEF RecomputeBegins, WriteBack
  <2>2. \A c \in Declared : values'[c] = values[c]
    BY <1>5, DeclaredKept DEF RecomputeBegins
  <2>3. Coming' = Coming
    BY <2>1 DEF Coming
  <2> QED  BY <2>1, <2>2, <2>3, QuietSave
<1>6. ASSUME NEW hw \in Partial(Hardware), Evaluate(hw) \/ Abandons(hw)
      PROVE  SaveInv'
  <2>1. UNCHANGED <<config, flush, copy, file, failed, up, dirty, job, values>>
    BY <1>6 DEF Evaluate, Abandons
  <2>2. Coming' = Coming
    BY <2>1 DEF Coming
  <2> QED  BY <2>1, <2>2, QuietSave
<1>7. CASE Flush \/ FlushFails
  BY <1>7, FlushSave
<1>8. CASE Crash
  BY <1>8 DEF Crash, SaveInv
<1>9. CASE Restart
  <2>1. config' \in Configs /\ values' = LoadFromDir(config', file) /\ file' = file
    BY <1>9 DEF Restart
  <2>2. \A c \in Declared : Admitted(config', file', c) = values'[c]
    BY <2>1, LoadedType DEF StoreTypeOK
  <2>3. flush' = "idle" /\ up'
    BY <1>9 DEF Restart, SaveInv
  <2> QED  BY <2>2, <2>3 DEF SaveInv, Copying
<1> QED  BY <1>1, <1>2, <1>3, <1>4, <1>5, <1>6, <1>7, <1>8, <1>9 DEF StoreNext

LEMMA SaveSuffices == StoreTypeOK /\ SaveInv => RestartRestores
<1> SUFFICES ASSUME StoreTypeOK, SaveInv, up, ~Unsaved, NEW c \in Declared
             PROVE  Admitted(config, file, c) = values[c]
  BY DEF RestartRestores
<1>1. ~Coming /\ ~failed /\ flush # "cleared"
  BY DEF Unsaved, Coming
<1>2. ~Copying
  BY <1>1 DEF Unsaved, SaveInv, Copying
<1>3. flush = "idle"
  BY <1>1, <1>2 DEF StoreTypeOK, Copying
<1> QED  BY <1>1, <1>3 DEF SaveInv

(* Whatever a setter put into a declared channel is what a start would     *)
(* restore, or a save is still to come, or the last one failed: a set that *)
(* falls between the persister's clearing of the mark and its copy, or     *)
(* between its copy and the rename, is not forgotten (Flush, markDirty).   *)
THEOREM SavesReachTheFile == StoreSpec => []RestartRestores
<1>1. StoreInit => SaveInv
  BY InitSave
<1>2. StoreTypeOK /\ WithinBounds /\ SaveInv /\ [StoreNext]_storeVars => SaveInv'
  BY NextSave
<1>3. StoreTypeOK /\ SaveInv => RestartRestores
  BY SaveSuffices
<1> QED  BY <1>1, <1>2, <1>3, StoreTypeCorrect, BoundsRespected, PTL DEF StoreSpec

-----------------------------------------------------------------------------
(* The store implements Durable.                                           *)

Memory == [c \in Declared |-> values[c]]

LEMMA FileStart ==
  ASSUME NEW cfg \in Configs, NEW f \in {<<>>} \cup [Declared -> Value],
         NEW w, w = LoadFromDir(cfg, f)
  PROVE  [c \in Declared |-> w[c]] = File!Start(cfg, f)
<1>1. ASSUME NEW c \in Declared PROVE w[c] = File!Admitted(cfg, f, c)
  BY LoadedType DEF Admitted, File!Admitted
<1> QED  BY <1>1 DEF File!Start

LEMMA FileInit == StoreInit => File!Init
<1> SUFFICES ASSUME StoreInit PROVE File!Init
  OBVIOUS
<1>1. Memory = File!Start(config, <<>>)
  BY FileStart DEF StoreInit, Memory
<1>2. (flush \in {"copied", "written"}) = FALSE
  BY DEF StoreInit
<1> QED  BY <1>1, <1>2 DEF StoreInit, File!Init, Memory

(* A command the store accepts is an assignment of the abstract memory if  *)
(* its channel is declared, and a stutter otherwise.                       *)
LEMMA FileSet ==
  ASSUME StoreTypeOK, NEW g \in Setters, NEW c \in Named, NEW v \in Value, NEW event,
         Set(g, c, v, event)
  PROVE  [File!Next]_File!durableVars
<1>1. /\ up /\ v \in Limits(config, c) /\ values' = [values EXCEPT ![c] = v]
      /\ UNCHANGED <<copy, flush, file, config, up>>
  BY DEF Set, Accepts, Assign
<1>2. CASE c \in Declared
  <2>1. Memory' = [Memory EXCEPT ![c] = v]
    BY <1>1, <1>2, Disjoint DEF Memory, StoreTypeOK
  <2>2. v \in config.allowed[c]
    BY <1>1, <1>2 DEF Limits
  <2>3. File!Assign(c, v)
    BY <1>1, <2>1, <2>2 DEF File!Assign, Memory
  <2> QED  BY <1>2, <2>3 DEF File!Next
<1>3. CASE c \notin Declared
  <2>1. Memory' = Memory
    BY <1>1, <1>3, Disjoint DEF Memory, StoreTypeOK
  <2> QED  BY <1>1, <2>1 DEF File!durableVars, Memory
<1> QED  BY <1>2, <1>3

LEMMA FileQuiet ==
  ASSUME UNCHANGED <<copy, flush, file, config, up>>,
         \A c \in Declared : values'[c] = values[c]
  PROVE  [File!Next]_File!durableVars
<1>1. Memory' = Memory
  BY DEF Memory
<1> QED  BY <1>1 DEF File!durableVars, Memory

LEMMA FileFlush ==
  ASSUME StoreTypeOK, Flush \/ FlushFails
  PROVE  [File!Next]_File!durableVars
<1>1. Memory' = Memory
  BY DEF Memory, Flush, FlushBegins, Snapshot, WriteTmp, Rename, FlushFails
<1>2. CASE FlushBegins
  BY <1>1, <1>2 DEF FlushBegins, File!durableVars, Memory
<1>3. CASE Snapshot
  <2>1. File!Capture
    BY <1>1, <1>3 DEF Snapshot, File!Capture, Memory
  <2> QED  BY <2>1 DEF File!Next
<1>4. CASE WriteTmp
  BY <1>1, <1>4 DEF WriteTmp, File!durableVars, Memory
<1>5. CASE Rename
  <2>1. File!Install
    BY <1>1, <1>5 DEF Rename, File!Install, Memory
  <2> QED  BY <2>1 DEF File!Next
<1>6. CASE FlushFails
  <2>1. File!Forget
    BY <1>1, <1>6 DEF FlushFails, File!Forget, Memory
  <2> QED  BY <2>1 DEF File!Next
<1> QED  BY <1>2, <1>3, <1>4, <1>5, <1>6 DEF Flush

LEMMA FileStep ==
  StoreTypeOK /\ [StoreNext]_storeVars => [File!Next]_File!durableVars
<1> SUFFICES ASSUME StoreTypeOK, [StoreNext]_storeVars
             PROVE  [File!Next]_File!durableVars
  OBVIOUS
<1>1. CASE UNCHANGED storeVars
  BY <1>1, FileQuiet DEF storeVars
<1>2. ASSUME NEW g \in Setters, NEW c \in Named, NEW v \in Value,
             NEW event \in {<<>>, Only(c, v)}, Set(g, c, v, event)
      PROVE  [File!Next]_File!durableVars
  BY <1>2, FileSet
<1>3. ASSUME NEW g \in Setters, NEW c \in Named, NEW v \in Value, SetInternal(g, c, v)
      PROVE  [File!Next]_File!durableVars
  BY <1>3, DeclaredKept, FileQuiet DEF SetInternal, Assign
<1>4. ASSUME NEW g \in Setters, markDirty(g) \/ Published(g)
      PROVE  [File!Next]_File!durableVars
  BY <1>4, FileQuiet DEF markDirty, Published
<1>5. CASE RecomputeBegins \/ WriteBack
  BY <1>5, DeclaredKept, FileQuiet DEF RecomputeBegins, WriteBack
<1>6. ASSUME NEW hw \in Partial(Hardware), Evaluate(hw) \/ Abandons(hw)
      PROVE  [File!Next]_File!durableVars
  BY <1>6, FileQuiet DEF Evaluate, Abandons
<1>7. CASE Flush \/ FlushFails
  BY <1>7, FileFlush
<1>8. CASE Crash
  <2>1. Memory' = Memory /\ (flush' \in {"copied", "written"}) = FALSE
    BY <1>8 DEF Crash, Memory
  <2>2. File!Crash
    BY <1>8, <2>1 DEF Crash, File!Crash, Memory
  <2> QED  BY <2>2 DEF File!Next
<1>9. CASE Restart
  <2>1. config' \in Configs /\ values' = LoadFromDir(config', file)
    BY <1>9 DEF Restart
  <2>2. Memory' = File!Start(config', file)
    BY <2>1, FileStart DEF Memory, StoreTypeOK
  <2>3. File!Restart
    BY <1>9, <2>2 DEF Restart, File!Restart, Memory
  <2> QED  BY <2>3 DEF File!Next
<1> QED  BY <1>1, <1>2, <1>3, <1>4, <1>5, <1>6, <1>7, <1>8, <1>9 DEF StoreNext

(* The store keeps the promise of Durable: the file's content is replaced  *)
(* as a whole by values that were all current at one instant, and a start  *)
(* admits each as Set would, or takes its default.                         *)
THEOREM StoreIsDurable == StoreSpec => Durability
<1>1. StoreInit => File!Init
  BY FileInit
<1>2. StoreTypeOK /\ [StoreNext]_storeVars => [File!Next]_File!durableVars
  BY FileStep
<1> QED  BY <1>1, <1>2, StoreTypeCorrect, PTL DEF StoreSpec, Durability, File!Spec

-----------------------------------------------------------------------------
(* Computed channels.  A pass evaluates along the order on a copy: what it *)
(* has evaluated agrees with the copy, because no channel that comes later *)
(* is read by one that came before.                                        *)

Position(k) ==
  /\ Len(order) = k + Len(pass.todo)
  /\ \A i \in 1 .. Len(pass.todo) : pass.todo[i] = order[k + i]

Evaluated(c) == \A i \in 1 .. Len(pass.todo) : pass.todo[i] # c

PassInv ==
  /\ ~up => pass = NoPass
  /\ pass # NoPass =>
       /\ \E k \in Nat : Position(k)
       /\ \A c \in Derived : Evaluated(c) => pass.space[c] = Eval(c, pass.space, <<>>)

ValuesAgree ==
  \/ \A c \in Computed : values[c] = Zero
  \/ \A c \in Derived : values[c] = Eval(c, values, <<>>)

LEMMA TailType ==
  ASSUME NEW S, NEW s \in Seq(S), s # <<>>
  PROVE  /\ Len(s) \in Nat \ {0} /\ Len(Tail(s)) = Len(s) - 1
         /\ \A i \in 1 .. Len(Tail(s)) : Tail(s)[i] = s[i + 1]
         /\ Head(s) = s[1]
<1>1. Len(s) \in Nat \ {0}
  BY EmptySeq, LenProperties
<1>2. Len(Tail(s)) = Len(s) - 1 /\ \A i \in 1 .. Len(Tail(s)) : Tail(s)[i] = s[i + 1]
  BY HeadTailProperties
<1> QED  BY <1>1, <1>2

(* The expressions over computed channels see nothing else.                *)
LEMMA SameReads ==
  ASSUME NEW c \in Derived, NEW s \in [Stored -> Value], NEW t \in [Stored -> Value],
         NEW hw \in Partial(Hardware) \cup {<<>>},
         \A d \in Reads[c] : s[d] = t[d]
  PROVE  Eval(c, s, hw) = Eval(c, t, <<>>)
BY DerivedAssumption

LEMMA SameReadsAlone ==
  ASSUME NEW c \in Derived, NEW s \in [Stored -> Value], NEW t \in [Stored -> Value],
         \A d \in Reads[c] : s[d] = t[d]
  PROVE  Eval(c, s, <<>>) = Eval(c, t, <<>>)
<1>1. <<>> \in Partial(Hardware) \cup {<<>>}
  OBVIOUS
<1> QED  BY <1>1, SameReads

LEMMA AgreeKept ==
  ASSUME StoreTypeOK, StoreTypeOK', ValuesAgree, \A c \in Computed : values'[c] = values[c]
  PROVE  ValuesAgree'
<1>1. CASE \A c \in Computed : values[c] = Zero
  BY <1>1 DEF ValuesAgree
<1>2. ASSUME \A c \in Derived : values[c] = Eval(c, values, <<>>), NEW c \in Derived
      PROVE  values'[c] = Eval(c, values', <<>>)
  <2>1. c \in Computed /\ \A d \in Reads[c] : values[d] = values'[d]
    BY StoreAssumption
  <2>2. Eval(c, values, <<>>) = Eval(c, values', <<>>)
    BY <2>1, SameReadsAlone DEF StoreTypeOK
  <2> QED  BY <1>2, <2>1, <2>2
<1> QED  BY <1>1, <1>2 DEF ValuesAgree

LEMMA BeginsAgree ==
  ASSUME StoreTypeOK, PassInv, RecomputeBegins
  PROVE  PassInv'
<1>1. order \in Seq(Computed) /\ \A c \in Computed : \E i \in 1 .. Len(order) : order[i] = c
  BY OrderType DEF StoreTypeOK
<1>2. up' /\ pass'.todo = order /\ order' = order
  BY DEF RecomputeBegins
<1>3. Position(0)'
  BY <1>1, <1>2 DEF Position
<1>4. \A c \in Derived : ~Evaluated(c)'
  BY <1>1, <1>2, StoreAssumption DEF Evaluated
<1> QED  BY <1>2, <1>3, <1>4 DEF PassInv

LEMMA EvaluateAgree ==
  ASSUME StoreTypeOK, PassInv, NEW hw \in Partial(Hardware), Evaluate(hw)
  PROVE  PassInv'
<1> DEFINE c == Head(pass.todo)
           s == pass.space
           t == [s EXCEPT ![c] = Result(hw)]
<1>1. /\ pass # NoPass /\ up /\ up' /\ pass.todo # <<>> /\ order' = order
      /\ pass' = [space |-> t, todo |-> Tail(pass.todo)]
  BY DEF Evaluate, NoPass
<1>2. /\ s \in [Stored -> Value] /\ pass.todo \in Seq(Computed) /\ c \in Computed
      /\ order \in Seq(Computed)
      /\ \A d \in Computed : \E i \in 1 .. Len(order) : order[i] = d
      /\ \A i, j \in 1 .. Len(order) : i <= j => order[j] \notin Reads[order[i]]
  BY <1>1, PassType, OrderType DEF StoreTypeOK
<1>3. Result(hw) = Eval(c, s, hw) /\ Result(hw) \in Value
  BY <1>1, <1>2, EvalAssumption DEF Result, Evaluate
<1>4. c \in Stored /\ t \in [Stored -> Value]
  BY <1>2, <1>3, Disjoint
<1>5. PICK k \in Nat : Position(k)
  BY <1>1 DEF PassInv
<1>6. /\ Len(pass.todo) \in Nat \ {0} /\ Len(Tail(pass.todo)) = Len(pass.todo) - 1
      /\ \A i \in 1 .. Len(Tail(pass.todo)) : Tail(pass.todo)[i] = pass.todo[i + 1]
      /\ c = pass.todo[1]
  BY <1>1, <1>2, TailType
<1>7. /\ Len(order) = k + Len(pass.todo) /\ k + 1 \in 1 .. Len(order)
      /\ c = order[k + 1]
  <2>1. Len(order) = k + Len(pass.todo) /\ 1 \in 1 .. Len(pass.todo)
    BY <1>5, <1>6 DEF Position
  <2>2. pass.todo[1] = order[k + 1]
    BY <1>5, <2>1 DEF Position
  <2> QED  BY <1>6, <2>1, <2>2
<1>8. Position(k + 1)'
  <2>1. Len(order) = (k + 1) + Len(Tail(pass.todo))
    <3>1. \A a \in Nat : \A b, l : l = k + a /\ b = a - 1 => l = (k + 1) + b
      OBVIOUS
    <3> QED  BY <1>6, <1>7, <3>1, Zenon
  <2>2. ASSUME NEW i \in 1 .. Len(Tail(pass.todo))
        PROVE  Tail(pass.todo)[i] = order[(k + 1) + i]
    <3>1. i + 1 \in 1 .. Len(pass.todo) /\ k + (i + 1) = (k + 1) + i
      BY <1>5, <1>6
    <3> QED  BY <1>5, <1>6, <3>1 DEF Position
  <2> QED  BY <1>1, <2>1, <2>2 DEF Position
<1>9. \A j \in 1 .. Len(order) : j <= k + 1 => c \notin Reads[order[j]]
  BY <1>2, <1>7
<1>10. ASSUME NEW d \in Derived, Evaluated(d)'
      PROVE  t[d] = Eval(d, t, <<>>)
  <2>0. d \in Computed /\ d \in Stored /\ Reads[d] \subseteq Computed
    BY StoreAssumption, Disjoint
  <2>1. \A i \in 1 .. Len(Tail(pass.todo)) : Tail(pass.todo)[i] # d
    BY <1>1, <1>10 DEF Evaluated
  <2>2. CASE d = c
    <3>1. c \notin Reads[d]
      BY <1>7, <1>9, <2>2
    <3>2. \A e \in Reads[d] : s[e] = t[e]
      BY <1>2, <2>0, <3>1, Disjoint
    <3>3. Eval(d, s, hw) = Eval(d, t, <<>>)
      <4>1. s \in [Stored -> Value] /\ t \in [Stored -> Value]
        BY <1>2, <1>4
      <4> HIDE DEF s, t
      <4> QED  BY <3>2, <4>1, SameReads
    <3>4. t[d] = Eval(d, s, hw)
      BY <1>2, <1>3, <1>4, <2>2
    <3> QED  BY <3>3, <3>4
  <2>3. CASE d # c
    <3>1. ASSUME NEW i \in 1 .. Len(pass.todo) PROVE pass.todo[i] # d
      <4>1. CASE i = 1
        BY <1>6, <2>3, <4>1
      <4>2. CASE i # 1
        <5>1. i - 1 \in 1 .. Len(Tail(pass.todo)) /\ (i - 1) + 1 = i
          BY <1>6, <4>2
        <5> QED  BY <1>6, <2>1, <5>1
      <4> QED  BY <4>1, <4>2
    <3>2. s[d] = Eval(d, s, <<>>)
      BY <1>1, <3>1 DEF PassInv, Evaluated
    <3>3. PICK j \in 1 .. Len(order) : order[j] = d
      BY <1>2, <2>0
    <3>4. j <= k + 1
      <4>1. SUFFICES ASSUME j > k PROVE FALSE
        BY <1>2, <1>5, <3>3
      <4>2. j - k \in 1 .. Len(pass.todo) /\ k + (j - k) = j
        BY <1>2, <1>5, <1>6, <3>3, <4>1 DEF Position
      <4> QED  BY <1>5, <3>1, <3>3, <4>2 DEF Position
    <3>5. c \notin Reads[d]
      BY <1>9, <3>3, <3>4
    <3>6. \A e \in Reads[d] : s[e] = t[e]
      BY <1>2, <2>0, <3>5, Disjoint
    <3>7. Eval(d, s, <<>>) = Eval(d, t, <<>>)
      <4>1. s \in [Stored -> Value] /\ t \in [Stored -> Value]
        BY <1>2, <1>4
      <4> HIDE DEF s, t
      <4> QED  BY <3>6, <4>1, SameReadsAlone
    <3>8. t[d] = s[d]
      BY <1>2, <2>0, <2>3
    <3> QED  BY <3>2, <3>7, <3>8
  <2> QED  BY <2>2, <2>3
<1>11. \E n \in Nat : Position(n)'
  BY <1>5, <1>8
<1> QED  BY <1>1, <1>10, <1>11 DEF PassInv

(* A pass that ends has evaluated every channel.                           *)
LEMMA WriteBackAgree ==
  ASSUME StoreTypeOK, StoreTypeOK', PassInv, WriteBack
  PROVE  PassInv' /\ ValuesAgree'
<1>1. /\ pass # NoPass /\ pass.todo = <<>> /\ pass' = NoPass
      /\ values' = [c \in Stored |-> IF c \in Computed THEN pass.space[c] ELSE values[c]]
  BY DEF WriteBack
<1>2. Len(pass.todo) = 0
  BY <1>1
<1>3. ASSUME NEW c \in Derived PROVE values'[c] = Eval(c, values', <<>>)
  <2>1. pass.space[c] = Eval(c, pass.space, <<>>)
    BY <1>1, <1>2 DEF PassInv, Evaluated
  <2>2. c \in Computed /\ Reads[c] \subseteq Computed
    BY StoreAssumption
  <2>3. \A d \in Computed : values'[d] = pass.space[d]
    BY <1>1, Disjoint
  <2>4. Eval(c, pass.space, <<>>) = Eval(c, values', <<>>)
    <3>1. pass.space \in [Stored -> Value] /\ values' \in [Stored -> Value]
      BY <1>1, PassType DEF StoreTypeOK
    <3> QED  BY <2>2, <2>3, <3>1, SameReadsAlone
  <2> QED  BY <2>1, <2>2, <2>3, <2>4
<1> QED  BY <1>1, <1>3 DEF PassInv, ValuesAgree

LEMMA InitAgree == StoreInit => PassInv /\ ValuesAgree
<1> SUFFICES ASSUME StoreInit PROVE PassInv /\ ValuesAgree
  OBVIOUS
<1>1. \A c \in Computed : values[c] = Zero
  BY LoadedType DEF StoreInit
<1> QED  BY <1>1 DEF StoreInit, PassInv, ValuesAgree

LEMMA NextAgree ==
  StoreTypeOK /\ StoreTypeOK' /\ PassInv /\ ValuesAgree /\ [StoreNext]_storeVars
    => PassInv' /\ ValuesAgree'
<1> SUFFICES ASSUME StoreTypeOK, StoreTypeOK', PassInv, ValuesAgree, [StoreNext]_storeVars
             PROVE  PassInv' /\ ValuesAgree'
  OBVIOUS
<1>1. ASSUME UNCHANGED <<pass, order, up>> PROVE PassInv'
  BY <1>1 DEF PassInv, Position, Evaluated
<1>2. ASSUME UNCHANGED values PROVE ValuesAgree'
  BY <1>2 DEF ValuesAgree
<1>3. CASE UNCHANGED storeVars
  BY <1>1, <1>2, <1>3 DEF storeVars
<1>4. ASSUME NEW g \in Setters, NEW c \in Named, NEW v \in Value, NEW event,
             Assign(g, c, v, event)
      PROVE  PassInv' /\ ValuesAgree'
  <2>1. UNCHANGED <<pass, order, up>> /\ values' = [values EXCEPT ![c] = v]
    BY <1>4 DEF Assign
  <2>2. \A d \in Computed : values'[d] = values[d]
    BY <2>1, StoreAssumption, Disjoint DEF StoreTypeOK
  <2> QED  BY <1>1, <2>1, <2>2, AgreeKept
<1>5. ASSUME NEW g \in Setters, markDirty(g) \/ Published(g)
      PROVE  PassInv' /\ ValuesAgree'
  BY <1>1, <1>2, <1>5 DEF markDirty, Published
<1>6. CASE RecomputeBegins
  BY <1>2, <1>6, BeginsAgree DEF RecomputeBegins
<1>7. ASSUME NEW hw \in Partial(Hardware), Evaluate(hw)
      PROVE  PassInv' /\ ValuesAgree'
  BY <1>2, <1>7, EvaluateAgree DEF Evaluate
<1>8. ASSUME NEW hw \in Partial(Hardware), Abandons(hw)
      PROVE  PassInv' /\ ValuesAgree'
  BY <1>2, <1>8 DEF Abandons, PassInv
<1>9. CASE WriteBack
  BY <1>9, WriteBackAgree
<1>10. CASE Flush \/ FlushFails
  BY <1>1, <1>2, <1>10 DEF Flush, FlushBegins, Snapshot, WriteTmp, Rename, FlushFails
<1>11. CASE Crash
  BY <1>2, <1>11 DEF Crash, PassInv
<1>12. CASE Restart
  <2>1. config' \in Configs /\ values' = LoadFromDir(config', file)
    BY <1>12 DEF Restart
  <2>2. \A c \in Computed : values'[c] = Zero
    BY <2>1, LoadedType DEF StoreTypeOK
  <2>3. pass' = NoPass
    BY <1>12 DEF Restart, PassInv
  <2> QED  BY <2>2, <2>3 DEF PassInv, ValuesAgree
<1> QED  BY <1>3, <1>4, <1>5, <1>6, <1>7, <1>8, <1>9, <1>10, <1>11, <1>12
         DEF StoreNext, Set, SetInternal

(* A channel computed from computed channels agrees with their values at   *)
(* every moment once a pass succeeded, whatever was set, failed, crashed   *)
(* or was restarted in between: Recompute follows the order that           *)
(* topologicalSort gave it, and writes all of a pass back or none of it.   *)
THEOREM ComputedAgree == StoreSpec => []ComputedConsistent
<1>1. StoreInit => PassInv /\ ValuesAgree
  BY InitAgree
<1>2. StoreTypeOK /\ StoreTypeOK' /\ PassInv /\ ValuesAgree /\ [StoreNext]_storeVars
        => PassInv' /\ ValuesAgree'
  BY NextAgree
<1>3. ValuesAgree => ComputedConsistent
  BY DEF ValuesAgree, ComputedConsistent
<1> QED  BY <1>1, <1>2, <1>3, StoreTypeCorrect, PTL DEF StoreSpec
=============================================================================
