------------------------------ MODULE Sessions ------------------------------
(***************************************************************************)
(* The web client server and one browser: what a data connection is sent   *)
(* when it opens and afterwards, what the browser makes of it over the     *)
(* connections it has one after the other, and what consoles send on their *)
(* control connections.  A machine's state reaches the browser twice, as   *)
(* a value of SM-<NAME>-STATE by way of the store and as a state_change;   *)
(* which channels are out of bounds, and the layouts, once each and in the *)
(* messages that open a connection.  Writing to a socket is taken as the   *)
(* browser's handling of the message.                                      *)
(***************************************************************************)
EXTENDS SoftStore, BrokerFeed, NodeCommands

CONSTANTS
  EngineLoop, Sequence,  \* the setters: the engine's loop, a sequence
  StateChannel,          \* SM-<NAME>-STATE
  Consoles,              \* the authenticated control connections
  Contents,              \* the contents of a layout file
  Empty,                 \* the one without a character
  Scenarios              \* bounds: how many events of each kind, from outside

Kinds == {"state", "value", "reading", "command", "layout", "close",
          "reload"}

ASSUME SessionAssumption ==
  /\ EngineLoop \in Setters /\ Sequence \in Setters
  /\ StateChannel \in Registered /\ Empty \in Contents
  /\ Checked \subseteq Hardware  \* BuildChannelBoundsMap reads the nodes' channels
  /\ Conns \subseteq Nat \ {0}
  /\ Scenarios \subseteq [Kinds -> 0 .. 3]

VARIABLES
  announce,    \* the state_change to publish when the channel is set
  alive,       \* the keepalive's copy of the values, <<>> if none is under way
  at,          \* ServeWsData of the open connection, "closed" if none
  conn,        \* that connection
  authorized,  \* the consoles whose credentials were accepted
  saving,      \* per console: the layout it is saving
  layoutFile,  \* the file of the layout
  panel,       \* Server.panelMessages: the content sent to a new connection,
               \* Unknown if the file could not be read when the server started
  torn,        \* the last write of the file failed
  shownState,  \* the browser's machineCurrentState
  shownBad,    \* the browser's badDataState
  shownLayout, \* the browser's pidLayouts
  badLost,     \* a range transition went by unseen since the page was loaded
  layoutLost,  \* the broadcast of a saved layout was lost to the connection
  collided,    \* two saves have overlapped
  events,      \* the events so far
  scenario     \* the events there may be

browserVars == <<shownState, shownBad, shownLayout>>
saveVars == <<saving, layoutFile, panel, torn, collided>>
lossVars == <<badLost, layoutLost>>
bounds == <<events, scenario>>
sessionVars == <<storeVars, feedVars, nodeVars, announce, alive, at, conn,
                 authorized, saveVars, browserVars, lossVars, bounds>>

Unknown == "unknown"
NotSaving == [step |-> "idle"]

Happens(kind) == /\ events[kind] < scenario[kind]
                 /\ events' = [events EXCEPT ![kind] = @ + 1] /\ UNCHANGED scenario
Has(kind) == scenario[kind] > 0
KeepaliveRuns == Has("state") \/ Has("value")

(* Behaviours without saves have no layout: a bound.                       *)
SessionInit ==
  /\ StoreInit /\ FeedInit /\ NodeInit
  /\ announce = Unknown /\ alive = <<>> /\ at = "closed" /\ conn = 0
  /\ authorized = {} /\ saving = [k \in Consoles |-> NotSaving]
  /\ layoutFile \in Contents /\ panel \in {layoutFile, Unknown} /\ torn = FALSE
  /\ shownState = Unknown /\ shownBad = <<>> /\ shownLayout = Unknown
  /\ badLost = FALSE /\ layoutLost = FALSE /\ collided = FALSE
  /\ events = [kind \in Kinds |-> 0] /\ scenario \in Scenarios
  /\ Has("layout") \/ (layoutFile = Empty /\ panel = Unknown)

-----------------------------------------------------------------------------
(* What the browser is sent.                                               *)

StateChanges ==
  /\ Happens("state") /\ announce = Unknown
  /\ \E v \in Value \ (NonFinite \cup {values[StateChannel]}) :
       SetInternal(EngineLoop, StateChannel, v) /\ announce' = v
  /\ UNCHANGED <<feedVars, nodeVars, alive, at, conn, authorized, saveVars,
                 browserVars, lossVars>>

SequenceSets ==
  /\ Happens("value")
  /\ \E c \in Declared, v \in Value : Set(Sequence, c, v, <<>>)
  /\ UNCHANGED <<feedVars, nodeVars, announce, alive, at, conn, authorized,
                 saveVars, browserVars, lossVars>>

Marks(g) ==
  /\ markDirty(g)
  /\ UNCHANGED <<feedVars, nodeVars, announce, alive, at, conn, authorized,
                 saveVars, browserVars, lossVars, bounds>>

Publishes(g) ==
  /\ Published(g) /\ PublishValues(job[g].event)
  /\ UNCHANGED <<nodeVars, announce, alive, at, conn, authorized, saveVars,
                 browserVars, lossVars, bounds>>

Announces ==
  /\ announce # Unknown /\ job[EngineLoop] = Idle
  /\ Publish(StateChange(announce)) /\ announce' = Unknown
  /\ UNCHANGED <<storeVars, nodeVars, alive, at, conn, authorized, saveVars,
                 browserVars, lossVars, bounds>>

Keepalive ==
  /\ KeepaliveRuns /\ alive = <<>> /\ alive' = values
  /\ UNCHANGED <<storeVars, feedVars, nodeVars, announce, at, conn, authorized,
                 saveVars, browserVars, lossVars, bounds>>

(* Fault: the keepalive leaves the state channels to the engine.           *)
KeepaliveDeclaredOnly ==
  /\ alive # <<>> /\ PublishValues([c \in Declared |-> alive[c]]) /\ alive' = <<>>
  /\ UNCHANGED <<storeVars, nodeVars, announce, at, conn, authorized, saveVars,
                 browserVars, lossVars, bounds>>

KeepalivePublishes ==
  /\ alive # <<>> /\ PublishValues(alive) /\ alive' = <<>>
  /\ UNCHANGED <<storeVars, nodeVars, announce, at, conn, authorized, saveVars,
                 browserVars, lossVars, bounds>>

(* Readings come as JSON, and so can every check of them be sent as such.  *)
NodeReports ==
  /\ Happens("reading")
  /\ \E c \in Hardware, v \in Value \ NonFinite : PublishValues(Only(c, v))
  /\ UNCHANGED <<storeVars, nodeVars, announce, alive, at, conn, authorized,
                 saveVars, browserVars, lossVars>>

-----------------------------------------------------------------------------
(* The broker's loop.  The losses are those of the open connection: it is  *)
(* not in the broker's set yet, or its channel is full.                    *)

Unheard(msgs) == conn \notin subscribers \/ Room(conn) < msgs
Unnoticed == IF at \in {"snapshot", "stream"}
             THEN Unheard(Cardinality(Transitions(Head(dataIn))))
             ELSE shownBad # <<>>

besideBroker == <<storeVars, nodeVars, announce, alive, at, conn, authorized,
                  saveVars, browserVars, bounds>>

HandlesValues ==
  /\ HandleValues
  /\ badLost' = (badLost \/ (Unnoticed /\ Transitions(Head(dataIn)) # {}))
  /\ UNCHANGED <<besideBroker, layoutLost>>

HandlesRaw ==
  /\ HandleRaw
  /\ layoutLost' = (layoutLost \/ /\ Head(rawIn).kind = "pid_layout"
                                  /\ at \in {"subscribe", "snapshot", "stream"}
                                  /\ Unheard(1))
  /\ UNCHANGED <<besideBroker, badLost>>

Ticks == Tick /\ UNCHANGED <<besideBroker, lossVars>>
HandlesSubscription == HandleSubscription /\ UNCHANGED <<besideBroker, lossVars>>

BrokerBroadcasts == HandlesValues \/ HandlesRaw \/ Ticks \/ HandlesSubscription

BrokerRoutes ==
  /\ RouteCmd \/ HandleRegistration
  /\ UNCHANGED <<link, linkConn, loops, delivered>>
  /\ UNCHANGED <<storeVars, feedVars, announce, alive, at, conn, authorized,
                 saveVars, browserVars, lossVars, bounds>>

-----------------------------------------------------------------------------
(* ServeWsData, one step per message or call, and the browser's handling.  *)

server == <<storeVars, nodeVars, announce, alive, authorized, saveVars>>
served == <<server, bounds>>

(* The page is as the last connection left it, or has been reloaded.       *)
Connects ==
  /\ at = "closed" /\ conn + 1 \in Conns /\ ~Has("command")
  /\ at' = "panels" /\ conn' = conn + 1
  /\ \/ UNCHANGED <<browserVars, lossVars>>
        /\ UNCHANGED bounds
     \/ /\ Happens("reload") /\ badLost' = FALSE /\ UNCHANGED layoutLost
        /\ shownState' = Unknown /\ shownBad' = <<>> /\ shownLayout' = Unknown
  /\ UNCHANGED <<server, feedVars>>

(* applyPidLayout: a layout without content is not taken.                  *)
Laid(content) == IF content = Empty THEN shownLayout ELSE content

(* A broadcast still queued may be older than the panel sent here, and one *)
(* newer than it may have been dropped.                                    *)
SendsPanels ==
  /\ at = "panels" /\ at' = "subscribe"
  /\ shownLayout' = IF panel = Unknown THEN shownLayout ELSE Laid(panel)
  /\ layoutLost' = (layoutLost /\ rawIn # <<>>)
  /\ UNCHANGED <<served, feedVars, conn, shownState, shownBad, badLost>>

Subscribes ==
  /\ at = "subscribe" /\ at' = "snapshot"
  /\ Subscription(conn, FALSE)
  /\ UNCHANGED <<served, conn, browserVars, lossVars>>

(* Fault: the snapshot is not sent.                                        *)
SkipsBadSnapshot ==
  /\ at = "snapshot" /\ at' = "stream"
  /\ UNCHANGED <<served, feedVars, conn, browserVars, lossVars>>

(* bad_data_snapshot lists the channels that are out of bounds; the        *)
(* browser adds them to those it shows.                                    *)
SendsBadSnapshot ==
  /\ at = "snapshot" /\ at' = "stream"
  /\ shownBad' = Over(bad, shownBad)
  /\ UNCHANGED <<served, feedVars, conn, shownState, shownLayout, lossVars>>

handleBadData(msg) ==
  IF msg.status = "ok" THEN [c \in DOMAIN shownBad \ {msg.refDes} |-> shownBad[c]]
  ELSE Over(Only(msg.refDes, msg.status), shownBad)

onDataMessage ==
  /\ at = "stream" /\ Received(conn)
  /\ LET msg == Head(wire[conn]) IN
     \/ /\ msg.kind = "data"
        /\ shownState' = IF StateChannel \in DOMAIN msg.d THEN msg.d[StateChannel]
                         ELSE shownState
        /\ UNCHANGED <<shownBad, shownLayout>>
     \/ /\ msg.kind = "state_change" /\ shownState' = msg.state
        /\ UNCHANGED <<shownBad, shownLayout>>
     \/ /\ msg.kind = "bad_data" /\ shownBad' = handleBadData(msg)
        /\ UNCHANGED <<shownState, shownLayout>>
     \/ /\ msg.kind = "pid_layout" /\ shownLayout' = Laid(msg.content)
        /\ UNCHANGED <<shownState, shownBad>>
  /\ UNCHANGED <<served, at, conn, lossVars>>

BadDataUnread == \E i \in DOMAIN wire[conn] : wire[conn][i].kind = "bad_data"

(* Fault: a failure of the snapshot's write ends the handler at once.      *)
ClosesUndeferred ==
  /\ at # "closed" /\ Happens("close") /\ at' = "closed"
  /\ IF at = "stream" THEN Subscription(conn, TRUE) ELSE UNCHANGED feedVars
  /\ badLost' = (badLost \/ (shownBad # <<>> /\ BadDataUnread))
  /\ UNCHANGED <<server, conn, browserVars, layoutLost>>

(* The socket closes at any point; the handler's defer unsubscribes.       *)
Closes ==
  /\ at # "closed" /\ Happens("close") /\ at' = "closed"
  /\ IF at \in {"snapshot", "stream"} THEN Subscription(conn, TRUE) ELSE UNCHANGED feedVars
  /\ badLost' = (badLost \/ (shownBad # <<>> /\ BadDataUnread))
  /\ UNCHANGED <<server, conn, browserVars, layoutLost>>

-----------------------------------------------------------------------------
(* ServeWsCtrl.                                                            *)
ctrl == <<storeVars, announce, alive, at, conn, browserVars>>

Authenticates(k) ==
  /\ Has("command") \/ Has("layout")
  /\ authorized' = authorized \cup {k}
  /\ UNCHANGED <<ctrl, feedVars, nodeVars, saveVars, lossVars, bounds>>

(* Each command is told from the others by its number.                     *)
Commands(k) ==
  /\ k \in authorized /\ Happens("command")
  /\ \E c \in Hardware : SendCmd(Cmd(c, events["command"]))
  /\ UNCHANGED <<ctrl, feedVars, link, linkConn, loops, delivered, authorized,
                 saveVars, lossVars>>

(* set_layout: os.WriteFile, the message for new connections, the          *)
(* broadcast.  The file is emptied as it is opened; an open that fails     *)
(* changes nothing.                                                        *)
OpensLayout(k) ==
  /\ k \in authorized /\ saving[k] = NotSaving /\ Happens("layout")
  /\ \E content \in Contents :
       saving' = [saving EXCEPT ![k] = [step |-> "opened", content |-> content]]
  /\ layoutFile' = Empty
  /\ collided' = (collided \/ \E other \in Consoles : saving[other] # NotSaving)
  /\ UNCHANGED <<ctrl, feedVars, nodeVars, authorized, panel, torn, lossVars>>

(* Two writes at once may mix in the file; collided has told of them.      *)
WritesLayout(k) ==
  /\ saving[k].step = "opened" /\ layoutFile' = saving[k].content
  /\ saving' = [saving EXCEPT ![k].step = "written"] /\ torn' = FALSE
  /\ UNCHANGED <<ctrl, feedVars, nodeVars, authorized, panel, collided, lossVars,
                 bounds>>

(* What was written before the error, a content as good as any, is left.   *)
WriteFails(k) ==
  /\ saving[k].step = "opened" /\ layoutFile' \in Contents
  /\ saving' = [saving EXCEPT ![k] = NotSaving] /\ torn' = TRUE
  /\ UNCHANGED <<ctrl, feedVars, nodeVars, authorized, panel, collided, lossVars,
                 bounds>>

(* Fault: the message for new connections is left as it is.                *)
KeepsPanel(k) ==
  /\ saving[k].step = "written"
  /\ saving' = [saving EXCEPT ![k].step = "updated"]
  /\ UNCHANGED <<ctrl, feedVars, nodeVars, authorized, layoutFile, panel, torn,
                 collided, lossVars, bounds>>

(* A panel that was not loaded has no message to put the layout in.        *)
UpdatesPanel(k) ==
  /\ saving[k].step = "written"
  /\ panel' = IF panel = Unknown THEN panel ELSE saving[k].content
  /\ saving' = [saving EXCEPT ![k].step = "updated"]
  /\ UNCHANGED <<ctrl, feedVars, nodeVars, authorized, layoutFile, torn, collided,
                 lossVars, bounds>>

BroadcastsLayout(k) ==
  /\ saving[k].step = "updated" /\ Publish(PidLayout(saving[k].content))
  /\ saving' = [saving EXCEPT ![k] = NotSaving]
  /\ layoutLost' = (layoutLost \/ Len(rawIn) = RawCap)
  /\ UNCHANGED <<ctrl, nodeVars, authorized, layoutFile, panel, torn, collided, badLost,
                 bounds>>

NodeLink ==
  /\ Has("command") /\ NodeSteps
  /\ UNCHANGED <<ctrl, feedVars, authorized, saveVars, lossVars, bounds>>

Streams == Connects \/ SendsPanels \/ Subscribes \/ SendsBadSnapshot \/ onDataMessage
Saves(k) == WritesLayout(k) \/ WriteFails(k) \/ UpdatesPanel(k) \/ BroadcastsLayout(k)

SessionNext ==
  \/ StateChanges \/ SequenceSets \/ Announces \/ Keepalive \/ KeepalivePublishes
  \/ \E g \in Setters : Marks(g) \/ Publishes(g)
  \/ NodeReports \/ BrokerBroadcasts \/ BrokerRoutes
  \/ Streams \/ Closes
  \/ \E k \in Consoles : \/ Authenticates(k) \/ Commands(k)
                         \/ OpensLayout(k) \/ Saves(k)
  \/ NodeLink

SessionSpec == SessionInit /\ [][SessionNext]_sessionVars

(* The goroutines keep running, and the broker's select, which takes a     *)
(* ready case at random, passes over none of them for ever.  It ticks 20   *)
(* times for each keepalive, a connection has room for 64 messages, and    *)
(* its loop does not wait for the ticks: not every tick that carries       *)
(* values finds that room used up.                                         *)
FairSessions ==
  /\ SessionSpec
  /\ WF_sessionVars(Marks(EngineLoop) \/ Publishes(EngineLoop) \/ Announces)
  /\ WF_sessionVars(Keepalive \/ KeepalivePublishes)
  /\ WF_sessionVars(HandlesValues) /\ WF_sessionVars(HandlesSubscription)
  /\ SF_sessionVars(at = "stream" /\ frame # <<>> /\ ~Unheard(1) /\ Ticks)
  /\ WF_sessionVars(Streams) /\ SF_sessionVars(frame # <<>> /\ onDataMessage)
=============================================================================
