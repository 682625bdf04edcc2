# Verification of the RTC control node

This directory models the control node of the rocket test cell software
(`src/controlnode`, Go): its state-machine engine, the links to the DAQ nodes
(the node as `daqsim` states its protocol), alerts, channels, the broker, the
web client server, and the way from the configuration files to a running
machine. Of the browser client (`src/WebClient`) it models what the messages
of the data connection do to the page. The modules are TLA+; TLC checks them on
small instances and TLAPS proves the properties that matter most for every
value of the constants.

## 1. The system

| Component | State it keeps | Operations | Talks to |
|---|---|---|---|
| State-machine engine (`statemachine/engine.go`, `sequence.go`) | per machine: current state, epoch, running sequence, correlation record of the last payload; a bounded `transitions` channel, an unbounded priority slice with a wake-up, the tick clock | the loop (tick, drain, apply a transition), one goroutine per sequence, `RequestTarget`, `CommandMachine`, `NotifyAbortTriggered`, `NotifySequenceComplete(Run)`, `NotifyDaqReconnect`, `NotifyDaqFirstConnect`, `DaqStateUpdateFor`, shutdown | clients (payload, reports), web server (operator requests), channel space (reads and writes), alerts (`PostTick`) |
| Expressions, dialect and compiler (`dsl/`, `statemachine/dialect.go`, `compile.go`) | the compiled program | lex, parse, check references, evaluate, write back; check targets, gates, commands and node blocks at start-up | engine, soft channels, documentation pages |
| daq_local payloads (`statemachine/daqlocal.go`) | none of its own | turn the blocks of a state into a schedule of set points, with the channels' values at that moment | engine, client |
| DAQ client (`daqnode/client.go`) | link phase, `connected`, the outbound queue `outCh`, the command queue `cmdCh`, whether it has connected before | dial, handshake, post-connect notification, drain, read loop, write loop, `SendStateUpdate`, disconnect and retry | node, engine, broker, alerts |
| DAQ node (`daqsim`) | its configuration, the current run and its generation | configure, run an entry sequence, abort, exit sequence, complete, ask for the state | client |
| Alerts (`alerts/`) | the registry (rows, their order, a counter) and the engine's edge state (rules, bands, links, stale timers) | raise, resolve, resolve-and-ack, ack, push, trim; tick, node connected, disconnected, data, bad data | broker (sink), web server (publisher) |
| Broker (`broker/`) | last values, the next frame, subscribers, out-of-range state, command queues, three bounded inputs | publish data, fan out a frame at each tick, check ranges, route commands, raw broadcast, subscribe, register | everybody |
| Soft channels (`softchan/`) | definitions, values, dirty mark, compute order, the values file | load, set, set internally, recompute, flush, keepalive | broker, engine, file system |
| Channel space and wiring (`main.go`) | none of its own | the engine's reads, writes and snapshot; the callbacks | engine, broker, soft channels |
| Web server (`webclient/`) | layouts, sessions | open a connection with snapshots, stream, authorise, command, acknowledge, save a layout | browsers, broker, engine, alerts |
| Browser (`WebClient/js`) | the state of each machine, the channels out of range, layouts, alerts | reconnect, reload, ingest, acknowledge, command | web server |
| Others: health, docs server, configuration, DSL, connect log, LabVIEW firmware | | | see PROJECT.json |

The hard behaviour is concurrency. Sequence goroutines are cancelled wherever
they are; requests judged in one state are applied in another; a link drops and
returns while the machine and the node each go on; every queue is bounded and
each has its own rule when full (block, refuse, drop); state changed under a
lock is published after it. What makes each component correct:

- engine: one uncancelled sequence per machine; every entry follows the program; a
  stale request is discarded and a fresh one never lost; cancelled goroutines
  end; operators enter only states that are open to them;
- DAQ link: a payload starts at most the entry it was resolved for, on the
  connection that accepted it; a machine whose node state is unknown is
  aborted; a completion is of a run that ended; nothing disappears silently;
- alerts: nobody's unacknowledged row disappears; only a person acknowledges;
  a row tells the present condition; every browser comes to show it;
- channels: a value is within its bounds; what was set is what a restart
  finds; computed channels follow those they read; a tick sees its own pass;
- sessions: every value is broadcast; a browser shows the present state and
  the channels that are out of range; commands keep their order;
- start-up: cycles are refused and nothing else is; what is accepted can be
  run; a schedule sent to a node does what the engine would have done.

## 2. Modules

**Engine.** `MachineProgram` declares a compiled program as constants and states
what `Compile` guarantees of it (targets exist, exits are lists, statements
name successors, no machine commands itself). `StateGraph` is the abstract
specification: a machine moves along its declared edges or is interrupted by an
operator, a command, or its node. `Engine` is the detailed one: the loop is a
small program (`loop`, `back`, `at`, `pc`) with one action per step that another
goroutine can interleave with; a sequence goroutine is a record in `runs` with
the statement it is at (`pc`) and the point within it (`at`: a send on a full
queue, a wait, a signal); a call from a console or a report handler is a record
in `caller`. Channel values are not modelled: conditions are free choices, so
the properties hold whatever the sensors say. `EngineProperties` and
`EngineLiveness` state the properties, `MCEngine` and `MCEngineLive` give
programs in the shape of `daq001.sm`, `coldflow.sm` and the orchestration
example of the DSL guide.

**DAQ link.** `DaqWire` is the websocket (in order, lost on a break), `DaqNode`
the simulator, `DaqClient` the client with its senders, queues and loops (a
write loop of a dead connection lives until its next write fails), and
`DaqLink` composes them with the whole of `Engine`: reports are the engine's
own actions, taken by the client's goroutines.

**Alerts.** `Alerts` has the registry's calls (each one lock hold), the events
that lead to them, and per goroutine the calls it has still to make (`todo`)
and the message it has still to publish (`out`). `AlertsProperties` states what
operators rely on. `AlertBoard` adds the broker's raw queue, one subscription,
the join and one-second snapshots, and the rows of one browser. A message is
the condition it reports, for that is what `RaiseFor` compares.

**Channels.** `SoftStore` is the store: a set is a value under the lock and,
after it, a mark and a publication (`job`); `Recompute` is a copy (`pass`), one
evaluation at a time and a write-back; the persister is the steps of `Flush`;
the process may die before any of them and start under other definitions.
Expressions are a constant `Eval` of which only the dependence on `Reads` is
assumed. `Durable` is the abstract specification of the values file.
`BrokerValues` and `BrokerCommands` are the broker's two bounded paths.
`ChannelSpace` composes them as `main.go` does: where the engine's reader looks,
where its writer writes, the tick's snapshot, the keepalive.

**Sessions.** `BrokerFeed` is the other half of the broker's loop: range checks,
frames, broadcasts, subscribers and the queue of each. `NodeCommands` is the
command queue of one node over its connections. `Sessions` composes both and the
store with the web server's data connection, its control connections and one
browser. A save of a layout is four steps: the file is emptied, written (or the
write fails and leaves whatever it had written), the message for new connections
replaced if that panel was loaded at the start, and the layout broadcast; a page
ignores an empty one. `SessionProperties` states what the browser and the node
rely on.

**Start-up.** `Expressions` has values (exact rationals), evaluation, printing
and the precedence parser over tokens; `Dialect` the lines of a machine file as
tokens with an indentation, the block parser and the printer; `Compiler` the
checks. `ChannelLoader` walks the computed channels twice, for a cycle and for
the order, taking the names in any order, for Go ranges over a map; the Go
recursion is a stack, and of an expression it has only the names in it, the
constant operator `NamesIn`, so that it can be proved about. `DaqPayload` resolves a state name by name, between two of which a channel may
change. `Startup` puts them in the order of `main` and `StartupProperties`
states what the engine assumes of the result: `MachineProgram`'s `ProgramOK` is
checked there of the machines `Compiler` accepts, so the assumption the engine's
proofs start from is itself checked against the compiler; `NamesIn` is there
`Names` of `Expressions`, which `StartupAssumption` states. But for
`ChannelLoader` these modules have RECURSIVE operators, as a parser has, and no
theorems.

An operator whose comment begins with "Fault:" is a plausible bug, used only to
see that the properties notice it; no specification refers to it.

## 3. What TLC checks

| Run | Question | Bounds |
|---|---|---|
| `engine` | Two machines, one commanding the other: cancellation, restart and late requests in every order | queue of 1, two calls |
| `live` | Under fairness, cancelled sequences exit, timed pauses end, priority requests act | two machines, epochs up to 2, one call |
| `reconnect` | A link that drops and returns at any point of an entry | two connections, outbound queue of 1, three calls and a state_req, three of these four once the link has come back |
| `shared` | Two machines on one node | one connection, three calls and state_req in all |
| `alerts` | Rules, links, stale timers, notices and acknowledgements against the registry | a limit of one row, three rows at once, two goroutines in mid-event, one message unpublished |
| `board` | The browser comes to show what is unacknowledged | queues of 1, two connections, one goroutine in mid-event |
| `channels` | Sequence, engine's loop, store's loop, broker and persister on a setpoint, a machine's state and two computed channels; writes fail, the process dies and starts again | queues of 1, two values, two outside events of the kinds a scenario has |
| `sessions` | One browser that connects, drops, returns and reloads; a checked sensor; two consoles; a node's link; a layout whose writes may fail and whose panel may not have been loaded | two messages in a connection's queue, one in the others; three contents of a layout, the empty one among them; the events each scenario of `MCSessions` has (two saves, or one and the loss of the connection) |
| `startup` | Sets of computed channels, machine files with one flaw or none, states that run on a node | three channels; expressions of depth two; three varying lines in a block; one change during a resolution |
| `drain`, `acked`, `reads` | Where a document or comment and the code disagree (section 6) | as small as shows it |

Why these bounds are enough to meet the interesting cases: a queue of one is
full as soon as one request waits, so blocking, refusal and dropping all occur;
two calls are the least that let a request be overtaken by another actor's, and
three or four the least that abort and re-enter a state while an old report is
on its way; two connections are the least on which a leftover can be delivered; two
messages in a page's queue are the least of which the later one must win;
one row is the least limit at which trim must choose between rows. For the
store two sets are the least that put one between the persister's clearing of
the mark and its copy and another between the copy and the rename, and a set
and an end of the process the least that can lose one; three names are the least
with a cycle that not every walk enters at its start. The scenarios of `channels`
and `sessions` keep kinds of events apart that touch no common variable; those
whose interaction a property is about are together in one. Every action fires in
some passing run, and every property is seen to fail for a fault in the code it
is about (the mutants of PROJECT.json).

Bounds stated in the modules: `MaxStimuli` (calls from outside), `MaxConns`,
`MaxRequests` (state_req), `MaxNotices`, `MaxJoins`, `MaxEvents` and `Scenarios`
(events of each kind), `Subjects`, `NewValues` and `MaxChanges` (the
configurations a start may find and the changes during a resolution), and in the
MC modules `FewEvents` and
`FewEventsOnReturn` (calls and state_req together, on `reconnect` only once the
link has come back), `AtMostTwoBusy`,
`AtMostOneBusy` (goroutines in the middle of an event), `FewMessages`, `FewRows`
(messages unpublished and rows held at once) and `NoTicks`, `NoTick` (the link
programs have no controller and no sequence and the board no rules, so a tick
would do nothing there). `MaxEpoch` bounds only the epochs the liveness formulas speak of.
Two assumptions are about time: the two seconds a client waits before it dials
again outlast a read loop and a `SendStateUpdate` already under way (`Settled`),
and the store's loop is registered before any goroutine sets a channel. The page
is taken to have a widget for the machine's state channel.

Fairness. The engine's loop is always scheduled (its select always has the
clock), each sequence goroutine and each call once begun is too; a cancelled
context stays ready, and Go's select chooses at random among ready cases, hence
strong fairness for `SelectDone`. Nobody is obliged to call. For the board,
weak fairness of the goroutines, the ticker, the broker's cases and the socket
is enough. For `channels`, weak fairness of each loop, of what a setter does
after the lock and of a start once the process has ended; saves, ends and sets
are never obliged. For `sessions`, weak fairness of the goroutines and strong
fairness of two actions: the broker's tick with values to send while the
connection's queue has room, for the broker ticks twenty times for each
keepalive and the queue holds 64 messages, so not every such tick finds it full;
and the page's handling of a message while the broker has values waiting for its
next tick, for the page's loop does not wait for the ticks. `StateShown` speaks only of behaviours in which
the keepalive runs.

`live` does not check for deadlock because it stops the engine (`MayStop`);
`startup` because a configuration that was refused, or served, is at its end;
`sessions` because in the scenarios without a keepalive nothing is left to
happen once their events are spent.

## 4. What TLAPS proves

Every theorem is for all values of the constants: programs, numbers of
goroutines, connections, channels, nodes and calls, and capacities. Each rests
on an inductive invariant, stated beside the properties or in the proof module;
TLC found those of the properties' modules to hold on the instances of the runs.
The `.cfg` files list only the properties themselves.

**The engine** (`EngineProofs`, `EngineRequestProofs`).

- `TypeCorrect`, `OneLiveRunHolds`, `FreshRequests`, `RecordHolds`, `Wakeups`,
  `RunIds`. The inductive invariant is `IInv` of `EngineProperties`.
  `OneLiveRun` is not inductive alone: it needs that the loop remembers the run
  of the current state (`RunFollows`), or a second uncancelled run could be left
  behind. `FreshRequestsBelong` needs `Justified` for requests in every queue
  and the record of a report handler that has read a state and not yet stamped
  it (`Stamping`). `RunIdsUnique` needs every place an id can be (`Holders`).
- `Implements`: the engine refines `StateGraph`. Hypothesis `StartsHere`: no
  machine starts in a state that runs on a node. Without it a report before the
  first entry carries epoch 0, which the loop never takes for stale.

**The link to a node** (`DaqLinkProofs`).

- `LinkImplementsEngine`: the composition with a client, a wire and a node is
  an engine whose environment behaves as `Engine` allows, so all of the above
  hold on a link (`EngineSafeOnLink`, `LinkFollowsGraph`).
- `NoLeftover`: what a dropped connection left in `outCh` is never written to
  the next one, by an invariant on which connection each queued payload, each
  sender that has checked `connected`, and each live write loop belongs to.
- `LinkTypeCorrect`. The type of what is in flight needs two facts about the
  order of messages: a config_req is answered before anything else is read
  (`HandshakeInv`), and the configuration is the first frame a node gets and the
  only one that is not a state_update (`ConfigInv`).
- `UncertainAborted`: `UncertainInv` says that a machine the post-connect loop
  has passed is being aborted, was not running, or has moved since; the loop's
  list of machines still to tell closes the induction.
- `CompletionsTruthful`: a run id stands for one entry of one machine wherever
  it is written down, in the engine's records, in a sender, in the queue, on the
  wire or in the node (`TicketsInv`), so a report that names an id is of the
  entry the node ended (`ReportsInv`). Reports carry only the id, and the epoch
  is stamped by the engine: that the two agree is what the proof is about.
- `RunsBegunOnce`: no payload is in two places (`InOnePlace`), from the hands of
  whoever resolved it through `outCh` and the wire to the node's run. Inductive
  once it is known that no id is above the counter, which `TicketsInv` says: a
  new id is then in no place yet, and every other step only moves or drops one.
- `AllAccounted`: `AccountedInv` follows each payload from the entry to the
  node. A machine that was already in a daq_local state when the link came up is
  accounted for by its abort, so one whose state has no `abort_to` is not: the
  first statement of `Accounted` forgot it.

**Alerts** (`AlertsProofs`).

- `UnackedNeverLost`, `OnlyPersonsAcknowledge`: `CallsOK` says which calls each
  goroutine may have pending: a call that acknowledges is the console's or of a
  rule that clears itself.
- `AlertsTypeCorrect`, and `TrimIsEnough`: `trim` drops as many acknowledged
  rows as the list is too long by, by counting the rows before each position.
- `RowsAlwaysTell`: `RowsWillTell` says that a row tells its condition, or the
  one goroutine that owns the condition has the call pending that will put it
  right. It needs `CallsRight` (nobody else asks about that row) and that a row
  about a link is there only once the link has been up.
- `BoardIsARegistry`: the broker, the queues and the browser add no behaviour,
  so all of these carry over to `AlertBoard`.

**Channels** (`SoftStoreProofs`, `ChannelSpaceProofs`).

- `StoreTypeCorrect`, `BoundsRespected`, `SavesReachTheFile`, `ComputedAgree`:
  for every set of channels, definitions, expressions and setters.
  `RestartRestores` is not inductive: `SaveInv` follows a value from the set to
  the file, and says that the persister's copy holds the present values unless a
  mark is made or about to be; the rename needs `WithinBounds`, or a start would
  refuse what was just saved. For `ComputedConsistent`, `PassInv` says that a
  pass stands at a position of the order and that what lies before it agrees
  with the pass's copy; it is kept because the order puts no channel before one
  it reads.
- `StoreIsDurable`: the store refines `Durable`.
- `SpaceImplementsStore`: the channels as `main.go` composes them implement the
  store alone, because the broker carries only values of channels (`FeedInv`)
  and its commands are judged by `Set`; so the four results hold of the
  composition too (`StoreInComposition`).
- `SnapshotsAreCurrent`, `SpaceTypeCorrect`: the controllers of a tick see the
  computed values the store holds after that tick's pass, which are the last
  pass's that succeeded (`SnapInv`); every queue keeps its capacity.

**Sessions** (`SessionProofs`; the invariants are in `SessionProperties`). A
step of the composition is first shown to be a step of each part, so that each
result below looks only at the part it is about.

- `SessionTypeCorrect`: the types of all parts, and `WithinCaps`.
- `SessionsKeepStore`: the composition implements the store, so its results hold
  with the server's goroutines around it (`StoreInSessions`).
- `ValuesBroadcast`: a value in the broker's map is the last one broadcast or is
  in the next frame.
- `CommandsInOrder`: `InLine` orders the broker's input, the node's queue and
  what the node was given as one line, in which a dead write loop can only take
  commands out.
- `LayoutsSettle`: `SavesInTurn` says, while no two saves overlap, how far the
  one save has come, and that the last layout among the broker's queue, the
  page's queue and the page is the file's (`LayoutComes`). A connection that is
  not subscribed yet is one the broker has not heard of (`FreshConns`). The
  statement excepts what the code does not keep together: overlapping saves, a
  last write that failed (`torn`: a save that succeeds mends it), a panel not
  loaded at the start, and for the page an empty layout and a lost broadcast.
- `BadViewSettles`: `StatusesCome` says the same of the last status of each
  checked channel, at each point of the handler (before the subscription,
  between it and the snapshot, after it).
- `SubscriptionsSettle`: the last request the broker's input has of a
  connection, or the broker's set if it has none, says whether the connection is
  open and subscribed, so when the broker has caught up it sends to that one and
  to no other. The statement is inductive as it stands: a request the broker
  takes up moves from the one case to the other, and a handler that ends at any
  point past its subscription leaves the request that undoes it. That the broker
  does catch up is `SubscriptionsEnd`, which TLC checks.

**Start-up** (`StartupProofs`).

- `OrderFound`: for any declarations, any names in their expressions and any
  order in which Go ranges over its maps, `LoadFromDir` refuses a cycle only if
  there is one and all of them, and lists each computed channel once and after
  those it reads. A cycle is a set of channels each of which reads another of
  the set. `LoadInv`, which TLC checked on the instances of `startup`, says that
  the stack is a path of reads whose channels are `recStack`; that what was
  visited and is off the stack reads only such channels, is on no cycle, and is,
  in the second walk, what the order lists. A name read again while it is on the
  stack makes a cycle of the stack from there up; and a set that is a cycle can
  have no first channel to be finished, so a walk that ends has found none.

The assumptions are those of `MachineProgram` (what the compiler checks), of
the client and the wire (`DaqClient`, `DaqLink`, `DaqWire`: distinct names, a
capacity of at least one, a number of connections), of `Alerts` (ids occur
once), of the store (`StoreAssumption`: the kinds of channels are disjoint,
`EvalAssumption` and `DerivedAssumption`: an expression gives a value or an
error, and depends on the channels it reads only), of the queues of the broker
and the client (a capacity of at least one; finitely many channels are checked)
and of the sessions (connections are numbered, a layout may be empty, and the
checked channels are nodes' channels, whose values come as JSON). That
an order of the computed channels exists and is found is not assumed but proved
(`OrderFound`), and `ProgramOK` of what the compiler accepts is checked
(`CompiledIsRunnable`).

What failed proofs showed about the models, since put right: the exception of
`Accounted` above; a fan-out that, for a page's queue with more room than there
are messages, asked for messages that are not there, which a queue of one could
not show (`Fitting`, and the queue of two in `sessions`); and guards of a `CASE`
that overlapped, so that the value was left open where the Go `switch` takes the
first (`Alerts`, `Expressions`, `Dialect`).

Only model-checked: liveness, which is out of the prover's reach
(`CancelledRunsExit`, `TimedPausesEnd`, `PriorityActs`, `BoardCatchesUp`,
`ReaderCatchesUp`, `StateShown`, `SubscriptionsEnd`), and three of the
properties of `startup` (`CompiledIsRunnable`, `ScheduleFaithful`,
`RoundTrips`): they speak of what the parser, the checks and the evaluator
compute, which are recursive over the blocks and expressions of a program and
would need an induction over data. Every other property of a passing run is a
theorem.

## 5. What is left, in order

1. Of `ScheduleFaithful`, that the steps of a payload are in the order of their
   times, as a theorem of `DaqPayload` with evaluation a constant operator; the
   parser, the checks and evaluation themselves stay with TLC.
2. The errors of a node in the broker (`PublishErr`), which are only shown, and
   the field-by-field reading of a `.chan` declaration.
3. `ConnectAggregator`: it only words a log line, so a property of it would be
   about wording.

Not modelled: formatting, logging, HTTP and static files, YAML loading, the
templates of alerts, the reading of characters into tokens, numbers and
durations (pure, no state after start-up), the documentation server's pages but
for what they write back of expressions and statements, health counters
(nothing acts on them) and the LabVIEW firmware (binary; the simulator states
the protocol it must follow).

## 6. Disagreements and observations

Runs that show a disagreement: a payload accepted on a new connection before
its write loop starts is drained as a leftover and the machine waits for a node
that never began (`drain`); an alarm raised again after an acknowledgement
stays acknowledged in the alert bar (`acked`); a sequence that has set a soft
channel reads the value it had before, from the broker's older copy, until the
next keepalive (`reads`).

Met while modelling and described by no run of their own. In the engine and on
the link:

- an operator request is judged by its gate when made (`engine.go:530`) and
  applied in whatever state the machine has reached, while `dsl_spec.md:106-108`
  speaks of the state it is in;
- a cancelled sequence may write once after the next state has written, between
  the check at `sequence.go:79` and the write, so two blocks may drive one valve
  for that one statement; `dsl_spec.md:122-123` says a transition kills it.
  `OneLiveRun` does not say otherwise: such a writer is a cancelled run;
- a `command` carries epoch 0 and is applied after the state that issued it was
  left; `docs/restructure/dsl_spec.md:155-156` says it would be discarded;
- a machine that starts in a state that runs on a node is asked by epoch 0,
  which the loop never takes for stale;
- `doAbort` finishes its exit sequence over the run that superseded it, while
  `sequence.go:98-100` says a fresh state_update always wins;
- a write loop of a dead connection may take one payload from `outCh`, and one
  command from `cmdCh`, before its write fails;
- the node keeps running a sequence after its machine has left the state, and
  `abort_triggered` names no machine;
- a state_req may be answered with the payload of a state that has just been
  left; its completion is rejected by epoch;
- commands queued while a node is disconnected are delivered after it returns
  (`client.go:194-196` registers the queue before the dial), while
  `websocket-protocol.md:509-510` says they are dropped.

In the channels:

- `Recompute` never publishes: it compares each new value with the copy that
  already holds it, so only a NaN would differ. Computed channels reach the
  broker by the keepalive;
- `Flush` clears the mark before it writes and does not set it again when the
  write fails;
- nothing ends the process in an orderly way, so the last flush of
  `RunPersister` never runs;
- in `daq001.sm`, the reset of `T-TIME` at the start of a block can be missed
  by the wait that follows it (`reads`; `docs/TODO.md:33-36` reports the
  symptom);
- a value JSON cannot carry stops every data frame of the broker until it is
  replaced.

In the alerts and on the page:

- `sweepStale` marks a node under the lock and raises after it, so data that
  arrives in between leaves a stale alert that nothing resolves;
- `ResolveAndAck` of a row that is already acknowledged leaves `Resolved` false;
- an acknowledgement clicked while the control link is down, or refused as
  unauthorised, is shown as done and not sent again (`ClicksLost`);
- a subscription only enters a queue when `Subscribe` returns, so what happens
  before the broker takes it up is sent to nobody, while the comment at
  `server.go:386-402` says that subscribing first loses nothing (`badLost`);
- a channel that recovers while the page is disconnected stays bad on it after
  the reconnect, for the opening messages only add;
- two overlapping saves of a layout can leave the file, what new connections
  are sent and what open pages show different (`collided`), and a broadcast
  still queued can overwrite the newer layout a new connection was sent;
- the file of a layout is emptied before it is written (`server.go:550`): a write
  that fails leaves it empty or cut short while new connections and pages keep
  the old layout, until a save succeeds (`torn`);
- a layout whose panel could not be read at the start (`main.go:458-462`) is
  saved and broadcast but not kept for new connections (`server.go:573`), though
  the field's comment says `updated when a layout is saved` (`server.go:235`);
- a page ignores a layout with an empty content (`ws.js:222`), which the server
  accepts, saves and broadcasts.

At start-up:

- `-(-x)` is written back as `--x`, and a string with an escape with that escape
  quoted once more (`format.go:87`; the lexer keeps escapes as written,
  `lexer.go:489-511`), though `format.go:17-19` says the output re-parses to the
  same tree. `RoundTrips` excepts both;
- a name that is nothing is compiled if it is `machine.<M>.<field>` with a field
  other than `state` (`check.go:246-247`) or the channel an abort rule watches
  (`check.go:84-88`), though `dsl_spec.md:55-56` says an unknown channel is a
  compile error. `CompiledIsRunnable` excepts both;
- an `elif` or `else` indented under its own `if` is accepted as an empty branch
  and ends the block early;
- `compute` expressions are never passed to the reference checker; the `from` of
  an `abort_rule` may lie after its `to`; the name of a daq_local node is not
  compared with the nodes there are;
- a channel's default may lie outside its bounds, and negative bounds and
  defaults are refused by the parser;
- a payload reads its identifiers one by one, so it can mix values from before
  and after a change; booleans in arithmetic, and a negative sleep, are treated
  otherwise by `resolveExpr` than by `Eval` and `execSleep`. The check for a
  negative literal sleep in `compileDaqSteps` is unreachable.
