------------------------- MODULE SessionProperties --------------------------
(* What the browser, the layout's file and the node may rely on.           *)
EXTENDS Sessions

(* The kinds of the variables' values.  A view lists channels out of       *)
(* bounds only; the raw messages are those of the system and the layouts.  *)
Frames == Partial(Stored \cup Hardware)
Verdicts == {"ok"} \cup {Status(c, v) : c \in Checked, v \in Value}
Views == UNION {[S -> Verdicts \ {"ok"}] : S \in SUBSET Checked}
RawMessages == [kind : {"state_change"}, state : Value]
                 \cup [kind : {"pid_layout"}, content : Contents]
Messages == RawMessages \cup [kind : {"data"}, d : Frames]
              \cup [kind : {"bad_data"}, refDes : Checked, status : Verdicts]
Requests == [conn : Conns, unsub : BOOLEAN]
Registrations == [link : {Node}, on : BOOLEAN]
Commanded == [refDes : Hardware, value : Nat]
Saving == {NotSaving} \cup [step : {"opened", "written", "updated"}, content : Contents]

FeedTypeOK ==
  /\ dataIn \in Seq(Frames) /\ {shared, frame, sent} \subseteq Frames
  /\ bad \in Views /\ rawIn \in Seq(RawMessages)
  /\ subIn \in Seq(Requests) /\ subscribers \subseteq Conns
  /\ wire \in [Conns -> Seq(Messages)]

(* A queue that never blocks its sender never outgrows its capacity.       *)
WithinCaps ==
  /\ Len(dataIn) <= DataCap /\ Len(rawIn) <= RawCap
  /\ Len(cmdIn) <= CmdCap /\ Len(queue[Node]) <= LinkCap
  /\ \A n \in Conns : Len(wire[n]) <= WireCap

NodeTypeOK ==
  /\ cmdIn \in Seq(Commanded) /\ queue \in [Links -> Seq(Commanded)]
  /\ daqRegIn \in Seq(Registrations) /\ registered \subseteq {Node}
  /\ link \in {"down", "dialing", "served"} /\ linkConn \in 0 .. MaxLinks
  /\ loops \subseteq 0 .. linkConn /\ delivered \in Seq(Commanded)

PageTypeOK ==
  /\ announce \in {Unknown} \cup Value /\ alive \in {<<>>} \cup [Stored -> Value]
  /\ at \in {"closed", "panels", "subscribe", "snapshot", "stream"}
  /\ conn \in {0} \cup Conns /\ (at # "closed" => conn \in Conns)
  /\ shownState \in {Unknown} \cup Value /\ shownBad \in Views
  /\ shownLayout \in {Unknown} \cup Contents
  /\ badLost \in BOOLEAN /\ layoutLost \in BOOLEAN

SaveTypeOK ==
  /\ authorized \subseteq Consoles /\ saving \in [Consoles -> Saving]
  /\ layoutFile \in Contents /\ panel \in {Unknown} \cup Contents
  /\ torn \in BOOLEAN /\ collided \in BOOLEAN

ServerTypeOK ==
  /\ PageTypeOK /\ SaveTypeOK
  /\ events \in [Kinds -> Nat] /\ scenario \in Scenarios

SessionTypeOK == StoreTypeOK /\ FeedTypeOK /\ NodeTypeOK /\ ServerTypeOK /\ WithinCaps

(* Every value the broker holds has been broadcast or is in the frame the  *)
(* next broadcast will carry, a frame that could not be sent included.     *)
NothingUnsent ==
  \A c \in DOMAIN shared :
    IF c \in DOMAIN frame THEN frame[c] = shared[c]
    ELSE c \in DOMAIN sent /\ sent[c] = shared[c]

(* With nothing under way on an open connection, the browser shows the     *)
(* very channels that are out of bounds, unless since its page was loaded  *)
(* a transition fell between two connections, between the call of          *)
(* Subscribe and its effect, or on a full channel: no other order of the   *)
(* snapshot, the subscription and the transitions loses one.               *)
Caught == at = "stream" /\ conn \in subscribers /\ wire[conn] = <<>>
BadViewAgrees == Caught /\ ~badLost => shownBad = bad

(* With no save and no broadcast under way, the layout's file, what a new  *)
(* connection is sent and what an open one shows are the same, unless two  *)
(* saves overlapped, the last write of the file failed or the panel was    *)
(* not loaded at the start; and for the open one unless a broadcast of     *)
(* this connection was lost or the layout is empty, which pages ignore.    *)
(* A save that succeeds mends what a failed one left.                      *)
Quiet == (\A k \in Consoles : saving[k] = NotSaving) /\ ~torn /\ panel # Unknown
PageAgrees == shownLayout = layoutFile \/ layoutFile = Empty
LayoutsAgree ==
  Quiet /\ ~collided =>
    /\ panel = layoutFile
    /\ Caught /\ rawIn = <<>> /\ ~layoutLost => PageAgrees

(* Commands reach the node in the order they were given, each at most      *)
(* once, over all its connections: failed writes and surviving write loops *)
(* lose commands and reorder none.                                         *)
CmdsInOrder ==
  \A i, j \in DOMAIN delivered : i < j => delivered[i].value < delivered[j].value

(* Once the broker has done all it was asked, it sends to the open         *)
(* connection if that has subscribed and to no other: the last word about  *)
(* a connection, in the queue or else carried out, is that it is or is not *)
(* to be sent to, wherever the connections before it were cut off.         *)
Served(n) == n = conn /\ at \in {"snapshot", "stream"}
Asked(n) == {i \in DOMAIN subIn : subIn[i].conn = n}
SubscribersSettle ==
  \A n \in Conns :
    /\ Asked(n) = {} => (n \in subscribers <=> Served(n))
    /\ \A i \in Asked(n) :
         (\A j \in Asked(n) : j <= i) => (subIn[i].unsub <=> ~Served(n))

(* A browser whose connection stays open comes to show the state its       *)
(* machine is in, whatever state_change was lost and whatever older frame  *)
(* arrived after it, unless a value JSON cannot carry has stopped the      *)
(* frames; in the behaviours whose bounds have the keepalive run.          *)
StateShown ==
  (KeepaliveRuns /\ at = "stream" /\ shownState # values[StateChannel])
    ~> \/ at = "closed" \/ shownState = values[StateChannel]
       \/ ~FrameCarriable

(* Again and again the broker sends to no connection that has closed.      *)
SubscriptionsEnd == []<>(\A n \in subscribers : n = conn /\ at # "closed")

-----------------------------------------------------------------------------
(* What the invariants above rest on.                                      *)

(* The commands on their way to the node, in the order they were given;    *)
(* the others' queues take theirs from the same line.                      *)
Ascending(s) == \A i, j \in DOMAIN s : i < j => s[i].value < s[j].value
AllBefore(s, t) == \A i \in DOMAIN s, j \in DOMAIN t : s[i].value < t[j].value
InLine ==
  /\ Ascending(delivered) /\ Ascending(queue[Node]) /\ Ascending(cmdIn)
  /\ AllBefore(delivered, queue[Node])
  /\ AllBefore(delivered, cmdIn) /\ AllBefore(queue[Node], cmdIn)
  /\ \A s \in {delivered, queue[Node], cmdIn} :
       \A i \in DOMAIN s : s[i].value < events["command"]

(* The broker has yet to hear of a connection that has not subscribed.     *)
UnheardOf(n) ==
  n \notin subscribers /\ wire[n] = <<>> /\ \A i \in DOMAIN subIn : subIn[i].conn # n
FreshConns ==
  \A n \in Conns : n > conn \/ (n = conn /\ at \in {"panels", "subscribe"}) => UnheardOf(n)

(* The layout a page will show is the last that is on its way to it: still *)
(* in the broker's queue, or in the connection's channel, or shown.        *)
LayoutsIn(s) == {i \in DOMAIN s : s[i].kind = "pid_layout"}
LastLayout(s, content) ==
  \A i \in LayoutsIn(s) : (\A j \in LayoutsIn(s) : j <= i) => s[i].content = content
LayoutComes ==
  /\ LastLayout(rawIn, layoutFile)
  /\ at \in {"subscribe", "snapshot", "stream"} /\ LayoutsIn(rawIn) = {} =>
       /\ LastLayout(wire[conn], layoutFile)
       /\ LayoutsIn(wire[conn]) = {} => PageAgrees
OneSave ==
  \A k \in Consoles : saving[k] # NotSaving =>
    /\ saving[k].step # "opened" => saving[k].content = layoutFile
    /\ saving[k].step = "updated" => panel \in {layoutFile, Unknown}
    /\ \A other \in Consoles \ {k} : saving[other] = NotSaving
SavesInTurn ==
  ~collided =>
    /\ OneSave
    /\ Quiet => panel = layoutFile /\ (~layoutLost => LayoutComes)

(* The status a page will show of a channel is the last one on its way; a  *)
(* snapshot corrects the channels it lists, so that before it a page may   *)
(* show nothing of a channel, but nothing false.                           *)
StatusesIn(s, c) == {i \in DOMAIN s : s[i].kind = "bad_data" /\ s[i].refDes = c}
LastStatus(s, c, status) ==
  \A i \in StatusesIn(s, c) : (\A j \in StatusesIn(s, c) : j <= i) => s[i].status = status
Shown(c) == IF c \in DOMAIN shownBad THEN shownBad[c] ELSE "ok"
StatusComes(c, before) ==
  /\ LastStatus(wire[conn], c, StatusNow(c))
  /\ StatusesIn(wire[conn], c) = {} => Shown(c) \in before \cup {StatusNow(c)}
NothingFalse == DOMAIN shownBad = {} \/ shownBad = bad
StatusesCome ==
  ~badLost =>
    /\ at \in {"closed", "panels", "subscribe"} => NothingFalse
    /\ at = "snapshot" => /\ BadDataUnread \/ NothingFalse
                         /\ \A c \in Checked : StatusComes(c, {"ok"})
    /\ at = "stream" => \A c \in Checked : StatusComes(c, {})
=============================================================================
