----------------------------- MODULE BrokerFeed -----------------------------
(***************************************************************************)
(* The broker's browser side: the frame the next broadcast will carry, the *)
(* range check of each value received, the raw messages, and the channels  *)
(* of the data connections, which lose what they have no room for.  The    *)
(* alert engine's part of a range check is in module Alerts; errors of a   *)
(* node travel like raw messages and are only logged, and are left out.    *)
(***************************************************************************)
EXTENDS BrokerValues, Naturals, Sequences, FiniteSets, Functions

CONSTANTS
  Conns,         \* the data connections, in the order they are opened
  Checked,       \* the channels with bounds
  Status(_, _),  \* "ok", "low" or "high": a value against a channel's bounds
  NonFinite,     \* the values JSON cannot carry
  RawCap,        \* capacity of Broker.rawIn (64 in New)
  WireCap        \* capacity of a connection's channel (64 in Subscribe)

ASSUME FeedAssumption ==
  RawCap \in Nat \ {0} /\ WireCap \in Nat \ {0} /\ IsFiniteSet(Checked)

VARIABLES
  frame,        \* Run's currentValues: what came in since the last broadcast
  sent,         \* the last value broadcast of each channel
  bad,          \* badState and badSnapshot: the channels out of bounds
  rawIn,        \* Broker.rawIn
  subIn,        \* Broker.subIn, whose senders block (its capacity is 64)
  subscribers,  \* the connections fanned out to
  wire          \* per connection: the channel Subscribe has made

feedVars == <<dataVars, frame, sent, bad, rawIn, subIn, subscribers, wire>>

FeedInit ==
  /\ DataInit /\ frame = <<>> /\ sent = <<>> /\ bad = <<>>
  /\ rawIn = <<>> /\ subIn = <<>> /\ subscribers = {}
  /\ wire = [n \in Conns |-> <<>>]

Data(d) == [kind |-> "data", d |-> d]
BadData(c, status) == [kind |-> "bad_data", refDes |-> c, status |-> status]
StateChange(v) == [kind |-> "state_change", state |-> v]
PidLayout(content) == [kind |-> "pid_layout", content |-> content]

FrameCarriable == \A c \in DOMAIN frame : frame[c] \notin NonFinite

Room(n) == WireCap - Len(wire[n])
Fitting(n, msgs) == SubSeq(msgs, 1, IF Room(n) < Len(msgs) THEN Room(n) ELSE Len(msgs))
FannedOut(msgs) ==
  wire' = [n \in Conns |-> IF n \in subscribers THEN wire[n] \o Fitting(n, msgs)
                           ELSE wire[n]]

-----------------------------------------------------------------------------
(* One case of the broker's loop each.                                     *)

StatusNow(c) == IF c \in DOMAIN bad THEN bad[c] ELSE "ok"
StatusAfter(c, event) == IF c \in DOMAIN event THEN Status(c, event[c]) ELSE StatusNow(c)
Transitions(event) == {c \in Checked : StatusAfter(c, event) # StatusNow(c)}

(* Each transition is fanned out at once, in the order of a map.  A value  *)
(* JSON cannot carry could not be: but what is checked comes from a node,  *)
(* as JSON, so the composition has none (SessionAssumption, NodeReports).  *)
HandleValues ==
  /\ HandleData
  /\ frame' = Over(Head(dataIn), frame)
  /\ bad' = [c \in {x \in Checked : StatusAfter(x, Head(dataIn)) # "ok"} |->
               StatusAfter(c, Head(dataIn))]
  /\ LET T == Transitions(Head(dataIn)) IN
     \E turn \in [1 .. Cardinality(T) -> T] :
       /\ IsInjective(turn)
       /\ FannedOut([i \in DOMAIN turn |->
                       BadData(turn[i], StatusAfter(turn[i], Head(dataIn)))])
  /\ UNCHANGED <<sent, rawIn, subIn, subscribers>>

(* Fault: the frame is emptied before it is marshalled.                    *)
TickEmptiesFirst ==
  /\ frame' = <<>>
  /\ IF FrameCarriable THEN FannedOut(<<Data(frame)>>) /\ sent' = Over(frame, sent)
                       ELSE UNCHANGED <<wire, sent>>
  /\ UNCHANGED <<dataVars, bad, rawIn, subIn, subscribers>>

(* A frame that cannot be marshalled is neither sent nor emptied.          *)
Tick ==
  /\ FrameCarriable /\ frame' = <<>>
  /\ FannedOut(<<Data(frame)>>) /\ sent' = Over(frame, sent)
  /\ UNCHANGED <<dataVars, bad, rawIn, subIn, subscribers>>

HandleRaw ==
  /\ rawIn # <<>> /\ rawIn' = Tail(rawIn)
  /\ FannedOut(<<Head(rawIn)>>)
  /\ UNCHANGED <<dataVars, frame, sent, bad, subIn, subscribers>>

HandleSubscription ==
  /\ subIn # <<>> /\ subIn' = Tail(subIn)
  /\ subscribers' = IF Head(subIn).unsub THEN subscribers \ {Head(subIn).conn}
                    ELSE subscribers \cup {Head(subIn).conn}
  /\ UNCHANGED <<dataVars, frame, sent, bad, rawIn, wire>>

-----------------------------------------------------------------------------
(* Calls from other goroutines.                                            *)

Publish(msg) ==
  /\ rawIn' = IF Len(rawIn) < RawCap THEN Append(rawIn, msg) ELSE rawIn
  /\ UNCHANGED <<dataVars, frame, sent, bad, subIn, subscribers, wire>>

PublishValues(event) ==
  /\ PublishData(event)
  /\ UNCHANGED <<frame, sent, bad, rawIn, subIn, subscribers, wire>>

Subscription(n, unsub) ==
  /\ subIn' = Append(subIn, [conn |-> n, unsub |-> unsub])
  /\ UNCHANGED <<dataVars, frame, sent, bad, rawIn, subscribers, wire>>

Received(n) ==
  /\ wire[n] # <<>> /\ wire' = [wire EXCEPT ![n] = Tail(@)]
  /\ UNCHANGED <<dataVars, frame, sent, bad, rawIn, subIn, subscribers>>
=============================================================================
