------------------------------ MODULE Startup ------------------------------
(***************************************************************************)
(* From the files of a configuration to a machine that enters a state on a *)
(* DAQ node (main.go): the soft channels are loaded, the names of the      *)
(* machines scanned, because the channels that show them must be known,    *)
(* the machines compiled, and then a state's schedule is sent.  Any error  *)
(* before that ends the process.                                           *)
(***************************************************************************)
EXTENDS ChannelLoader, DaqPayload

CONSTANTS
  Subjects,   \* bound: the configurations, [decls, files, channels]; the
              \* channels are those with a value when a state is entered
  Hardware,   \* the channels of the YAML files
  NewValues,  \* bound: what a channel may be set to during a resolution
  MaxChanges  \* bound: how often

(* A channel's expression is one of the language's.                        *)
ASSUME StartupAssumption ==
  /\ NoCompute = NoExpr
  /\ \A s \in Subjects : \A d \in ToSet(s.decls) :
       d.compute # NoExpr => NamesIn(d.compute) = Names(d.compute)

VARIABLES
  stage,     \* "scan" (as soon as the channels are loaded), "compile", "serve"
             \* or "exit"
  files,     \* the .sm files in the order of their names
  scanned,   \* machineNames
  machines,  \* the machine definitions
  entered,   \* the state whose schedule is resolved
  changes    \* channels set so far

startVars == <<stage, files, scanned, machines, entered, changes>>
vars == <<loadVars, payloadVars, startVars>>

Init ==
  /\ \E s \in Subjects :
       LoadInit(s.decls) /\ files = s.files /\ PayloadInit(s.channels)
  /\ stage = "scan" /\ scanned = <<>> /\ machines = <<>>
  /\ entered = Bare("") /\ changes = 0

Goes(from, to) ==
  /\ stage = from /\ stage' = to
  /\ UNCHANGED <<payloadVars, files, entered, changes>>

-----------------------------------------------------------------------------
(* LoadFromDir, whose error ends the process as any later one does.        *)
Loading == LoadNext /\ UNCHANGED <<payloadVars, startVars>>

(* ScanMachineNames: of each file, the first name that follows `machine`.  *)
MachineNameIn(tokens) ==
  LET at == {i \in DOMAIN tokens : IsSign(tokens, i, {"machine"}) /\ IsIdent(tokens, i + 1)}
  IN IF at = {} THEN <<>> ELSE <<tokens[Min(at) + 1].name>>

Scans ==
  /\ loading = "loaded" /\ \A f \in ToSet(files) : Tokenize(f).ok
  /\ scanned' = FlattenSeq([i \in DOMAIN files |-> MachineNameIn(Tokenize(files[i]).tokens)])
  /\ Goes("scan", "compile") /\ UNCHANGED <<loadVars, machines>>

ScanFails ==
  /\ loading = "loaded" /\ \E f \in ToSet(files) : ~Tokenize(f).ok
  /\ Goes("scan", "exit") /\ UNCHANGED <<loadVars, scanned, machines>>

(* knownChannels: hardware, soft channels and the ones main registers.     *)
StateChannel(m) == "SM-" \o m \o "-STATE"
TargetChannel(m) == "SM-" \o m \o "-TARGET"
KnownChannels ==
  Hardware \cup defs \cup DOMAIN computes \cup {"CYCLE_TIME"}
    \cup {StateChannel(m) : m \in ToSet(scanned)}
    \cup {TargetChannel(m) : m \in ToSet(scanned)}

ParsedFiles == [i \in DOMAIN files |-> Parse(files[i])]
AllParse == \A i \in DOMAIN files : ParsedFiles[i].ok
Definitions == [i \in DOMAIN files |-> ParsedFiles[i].e]

Compiles ==
  /\ AllParse /\ Compile(Definitions, KnownChannels)
  /\ machines' = Definitions
  /\ Goes("compile", "serve") /\ UNCHANGED <<loadVars, scanned>>

CompileFails ==
  /\ ~(AllParse /\ Compile(Definitions, KnownChannels))
  /\ Goes("compile", "exit") /\ UNCHANGED <<loadVars, scanned, machines>>

-----------------------------------------------------------------------------
StatesIn(defs_) == UNION {ToSet(d.states) : d \in ToSet(defs_)}

Enters ==
  /\ stage = "serve"
  /\ \E st \in StatesIn(machines) :
       st.node # "" /\ ResolveBegins(st) /\ entered' = st
  /\ UNCHANGED <<loadVars, stage, files, scanned, machines, changes>>

Resolution == Resolves /\ UNCHANGED <<loadVars, startVars>>

(* An operator, a sequence or a node changes a channel meanwhile.          *)
ChangesMeanwhile ==
  /\ sending = "resolve" /\ changes < MaxChanges /\ changes' = changes + 1
  /\ \E name \in DOMAIN channels, v \in NewValues : Changes(name, v)
  /\ UNCHANGED <<loadVars, stage, files, scanned, machines, entered>>

Next ==
  \/ Loading \/ Scans \/ ScanFails \/ Compiles \/ CompileFails
  \/ Enters \/ Resolution \/ ChangesMeanwhile

Spec == Init /\ [][Next]_vars
=============================================================================
