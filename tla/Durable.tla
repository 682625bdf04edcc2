------------------------------ MODULE Durable ------------------------------
(***************************************************************************)
(* What the soft channel store promises about its values file: a restart   *)
(* finds values that were all current at one instant of the process that   *)
(* saved them, and admits each as it would admit an operator's, or takes   *)
(* its default.                                                            *)
(***************************************************************************)
CONSTANTS
  Declared,  \* the channels whose values outlive the process
  Value,
  Configs    \* the definitions a start may find: [allowed, default]

VARIABLES
  memory,    \* the values of the running process
  copy,      \* its values at the instant of the last capture
  held,      \* whether that capture may still become the file's content
  disk,      \* the file's content, <<>> if there is none
  config,    \* the definitions the process runs with
  up

durableVars == <<memory, copy, held, disk, config, up>>

(* A value in the file is checked like an operator's.                      *)
Admitted(cfg, f, c) ==
  IF c \in DOMAIN f /\ f[c] \in cfg.allowed[c] THEN f[c] ELSE cfg.default[c]

Start(cfg, f) == [c \in Declared |-> Admitted(cfg, f, c)]

Init ==
  /\ config \in Configs /\ up = TRUE
  /\ disk = <<>> /\ copy = <<>> /\ held = FALSE
  /\ memory = Start(config, <<>>)

Assign(c, v) ==
  /\ up /\ v \in config.allowed[c]
  /\ memory' = [memory EXCEPT ![c] = v]
  /\ UNCHANGED <<copy, held, disk, config, up>>

Capture ==
  /\ up /\ copy' = memory /\ held' = TRUE
  /\ UNCHANGED <<memory, disk, config, up>>

Install ==
  /\ up /\ held /\ disk' = copy
  /\ copy' = <<>> /\ held' = FALSE
  /\ UNCHANGED <<memory, config, up>>

(* A failed write, or the end of the process, loses the capture.           *)
Forget ==
  /\ copy' = <<>> /\ held' = FALSE
  /\ UNCHANGED <<memory, disk, config, up>>

Crash ==
  /\ up /\ up' = FALSE
  /\ copy' = <<>> /\ held' = FALSE
  /\ UNCHANGED <<memory, disk, config>>

Restart ==
  /\ ~up /\ up' = TRUE /\ config' \in Configs
  /\ memory' = Start(config', disk)
  /\ UNCHANGED <<copy, held, disk>>

Next == \/ \E c \in Declared, v \in Value : Assign(c, v)
        \/ Capture \/ Install \/ Forget \/ Crash \/ Restart

Spec == Init /\ [][Next]_durableVars
=============================================================================
