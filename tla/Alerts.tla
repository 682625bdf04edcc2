------------------------------- MODULE Alerts -------------------------------
(***************************************************************************)
(* The alert registry and the alert engine that drives it.  The registry   *)
(* and the engine's edge state have a lock each; a goroutine changes the   *)
(* engine's state under the one, then calls the registry under the other,  *)
(* and publishes what changed holding neither.  Each is a step of its own. *)
(***************************************************************************)
EXTENDS Naturals, Sequences, FiniteSets, Functions, TLC

CONSTANTS
  Checks,      \* rules, then sensor bands, in the order a tick evaluates them
  Clearing,    \* the rules among them that do not latch
  Bounded,     \* channels the broker checks against their bounds
  Sweep,       \* Engine.nodes: the DAQ nodes, in configuration order
  Template,    \* events of the template that the configuration declares
  Faults,      \* out-of-range conditions ("low", "high"; a rule has one)
  MaxLen,      \* Registry.maxLen (500 in NewRegistry)
  MaxNotices   \* bound: notices pushed

Watches == Range(Checks)
Nodes == Range(Sweep)

ASSUME AlertsAssumption ==
  /\ Checks \in Seq(Watches) /\ IsInjective(Checks)
  /\ Sweep \in Seq(Nodes) /\ IsInjective(Sweep)
  /\ Clearing \subseteq Watches
  /\ Template \subseteq {"disconnect", "reconnect", "bad_data", "stale"}
  /\ "ok" \notin Faults
  /\ MaxLen \in Nat /\ MaxNotices \in Nat

VARIABLES
  rows, order, seq,        \* Registry.byID, order and seq
  status,                  \* Engine.ruleOn and sensorState, per watch
  connected, ever,         \* Engine.connected, everConnected: sets of nodes
  silent,                  \* nodes whose lastSeen is at least staleMs ago
  staleOn,                 \* Engine.staleOn
  bad,                     \* the broker's badState, per channel
  swept,                   \* the tick has still to sweep the stale timers
  todo, out                \* per goroutine: registry calls ahead of it, and
                           \* the message it has still to publish

registryVars == <<rows, order, seq>>
engineVars == <<status, connected, ever, silent, staleOn, bad, swept>>
vars == <<registryVars, engineVars, todo, out>>

Watch(w) == <<"watch", w>>
Conn(n) == <<"conn", n>>
Stale(n) == <<"stale", n>>
Bad(c) == <<"bad", c>>
Notice(k) == <<"notice", ToString(k)>>
Ids == {Watch(w) : w \in Watches} \cup {Conn(n) : n \in Nodes}
         \cup {Stale(n) : n \in Nodes} \cup {Bad(c) : c \in Bounded}
         \cup {Notice(k) : k \in 1..MaxNotices}

(* The goroutines: the engine's tick, the broker, one connection that acks *)
(* and one that pushes notices, and a client and a read loop per node.     *)
Tick == <<"tick", "">>
Broker == <<"broker", "">>
Console == <<"console", "">>
Server == <<"server", "">>
Client(n) == <<"client", n>>
Reader(n) == <<"reader", n>>
Goroutines == {Tick, Broker, Console, Server}
                \cup {Client(n) : n \in Nodes} \cup {Reader(n) : n \in Nodes}

(* What a goroutine asks of the registry, and what that publishes.         *)
Raise(id, what) == [op |-> "raise", id |-> id, what |-> what]
Call(op, id) == [op |-> op, id |-> id]
Nothing == [kind |-> "nothing"]
AlertMsg(id, row) == [kind |-> "alert", id |-> id, row |-> row]
AckedMsg(id) == [kind |-> "alert_acked", id |-> id]

Active(id) == id \in DOMAIN rows /\ ~rows[id].acked /\ ~rows[id].resolved
Raised(id) == id \in DOMAIN rows /\ ~rows[id].acked

(* The elements of a sequence at the positions S, in their order.          *)
Those(s, S) ==
  [i \in 1..Cardinality(S) |-> s[CHOOSE k \in S : Cardinality({j \in S : j <= k}) = i]]

Idle(g) == todo[g] = <<>> /\ out[g] = Nothing
Busy(g, calls) == todo' = [todo EXCEPT ![g] = calls]

Init ==
  /\ rows = <<>> /\ order = <<>> /\ seq = 0
  /\ status = [w \in Watches |-> "ok"] /\ bad = [c \in Bounded |-> "ok"]
  /\ connected = {} /\ ever = {} /\ silent = {} /\ staleOn = {}
  /\ swept = FALSE
  /\ todo = [g \in Goroutines |-> <<>>] /\ out = [g \in Goroutines |-> Nothing]

-----------------------------------------------------------------------------
(* The registry: one call, under its lock.  store appends a new id, then   *)
(* trim drops the oldest acked rows in excess of MaxLen.                    *)

(* Fault: an excess row is dropped whether or not anybody has seen it.      *)
TrimmedAny(o, r) == {o[k] : k \in {j \in DOMAIN o : j <= Len(o) - MaxLen}}

(* Fault: the row that brings the excess is not counted.                    *)
TrimmedLate(o, r) ==
  {o[k] : k \in {j \in DOMAIN o :
     /\ r[o[j]].acked
     /\ Cardinality({i \in 1..j : r[o[i]].acked}) < Len(o) - MaxLen}}

Trimmed(o, r) ==
  {o[k] : k \in {j \in DOMAIN o :
     /\ r[o[j]].acked
     /\ Cardinality({i \in 1..j : r[o[i]].acked}) <= Len(o) - MaxLen}}

Put(r, id, row) == [i \in DOMAIN r \cup {id} |-> IF i = id THEN row ELSE r[i]]

(* Fault: an id that is raised again is listed again.                      *)
storeAppends(id, row) ==
  LET o == Append(order, id)
      r == Put(rows, id, row)
      gone == Trimmed(o, r)
  IN /\ rows' = [i \in DOMAIN r \ gone |-> r[i]]
     /\ order' = Those(o, {k \in DOMAIN o : o[k] \notin gone})

store(id, row) ==
  LET o == IF id \in DOMAIN rows THEN order ELSE Append(order, id)
      r == Put(rows, id, row)
      gone == Trimmed(o, r)
  IN /\ rows' = [i \in DOMAIN r \ gone |-> r[i]]
     /\ order' = Those(o, {k \in DOMAIN o : o[k] \notin gone})

(* What a row can be about; its message and category follow from that.     *)
Conditions == Faults \cup (Template \ {"bad_data"}) \cup {"notice" : k \in 1..MaxNotices}
NewRow(what) == [what |-> what, acked |-> FALSE, resolved |-> FALSE]

Do(g, op) == todo[g] # <<>> /\ out[g] = Nothing /\ Head(todo[g]).op = op
Target(g) == Head(todo[g]).id
Done(g, msg) ==
  /\ todo' = [todo EXCEPT ![g] = Tail(@)]
  /\ out' = [out EXCEPT ![g] = msg]
  /\ UNCHANGED <<engineVars, seq>>

(* Fault: a row nobody has acknowledged counts as showing its condition.   *)
RaiseUnlessRaised(g) ==
  /\ Do(g, "raise")
  /\ LET id == Target(g)
         row == NewRow(Head(todo[g]).what) IN
     IF Raised(id) /\ rows[id].what = row.what
     THEN Done(g, Nothing) /\ UNCHANGED <<rows, order>>
     ELSE Done(g, AlertMsg(id, row)) /\ store(id, row)

RaiseFor(g) ==
  /\ Do(g, "raise")
  /\ LET id == Target(g)
         row == NewRow(Head(todo[g]).what) IN
     IF Active(id) /\ rows[id].what = row.what
     THEN Done(g, Nothing) /\ UNCHANGED <<rows, order>>
     ELSE Done(g, AlertMsg(id, row)) /\ store(id, row)

Update(g, row, msg) ==
  /\ rows' = [rows EXCEPT ![Target(g)] = row]
  /\ Done(g, msg) /\ UNCHANGED order
Ignored(g) == Done(g, Nothing) /\ UNCHANGED <<rows, order>>

(* Fault: recovering acknowledges, as the Clear this replaced did.          *)
ResolveAcks(g) ==
  /\ Do(g, "resolve")
  /\ LET id == Target(g)
         row == [rows[id] EXCEPT !.resolved = TRUE, !.acked = TRUE] IN
     IF id \notin DOMAIN rows \/ rows[id].resolved
     THEN Ignored(g)
     ELSE Update(g, row, AlertMsg(id, row))

Resolve(g) ==
  /\ Do(g, "resolve")
  /\ LET id == Target(g)
         row == [rows[id] EXCEPT !.resolved = TRUE] IN
     IF id \notin DOMAIN rows \/ rows[id].resolved
     THEN Ignored(g)
     ELSE Update(g, row, AlertMsg(id, row))

ResolveAndAck(g) ==
  /\ Do(g, "resolveAndAck")
  /\ LET id == Target(g) IN
     IF id \notin DOMAIN rows \/ rows[id].acked
     THEN Ignored(g)
     ELSE Update(g, [rows[id] EXCEPT !.resolved = TRUE, !.acked = TRUE], AckedMsg(id))

Ack(g) ==
  /\ Do(g, "ack")
  /\ LET id == Target(g) IN
     IF id \in DOMAIN rows
     THEN Update(g, [rows[id] EXCEPT !.acked = TRUE], AckedMsg(id))
     ELSE Done(g, AckedMsg(id)) /\ UNCHANGED <<rows, order>>

RegistryCall(g) == RaiseFor(g) \/ Resolve(g) \/ ResolveAndAck(g) \/ Ack(g)

Published(g) ==
  /\ out[g] # Nothing
  /\ out' = [out EXCEPT ![g] = Nothing]
  /\ UNCHANGED <<registryVars, engineVars, todo>>

-----------------------------------------------------------------------------
(* The engine: what each event changes under the engine's lock, and the    *)
(* registry calls it leaves to make.                                       *)

(* evalRules and sweepSensors: the watches whose condition has changed, in *)
(* program order.  A condition that cannot be evaluated leaves its status. *)
Edge(w, st) ==
  CASE st[w] # "ok" -> Raise(Watch(w), st[w])
    [] st[w] = "ok" /\ w \in Clearing -> Call("resolveAndAck", Watch(w))
    [] OTHER -> Call("resolve", Watch(w))

TickBegins ==
  /\ Idle(Tick) /\ ~swept
  /\ \E st \in [Watches -> {"ok"} \cup Faults] :
       LET changed == Those(Checks, {k \in DOMAIN Checks : st[Checks[k]] # status[Checks[k]]}) IN
       /\ status' = st
       /\ Busy(Tick, [k \in DOMAIN changed |-> Edge(changed[k], st)])
  /\ swept' = TRUE
  /\ UNCHANGED <<registryVars, connected, ever, silent, staleOn, bad, out>>

NowStale(n) == "stale" \in Template /\ n \in (connected \cap silent) \ staleOn

sweepStale ==
  /\ Idle(Tick) /\ swept
  /\ LET stale == Those(Sweep, {k \in DOMAIN Sweep : NowStale(Sweep[k])}) IN
     /\ staleOn' = staleOn \cup Range(stale)
     /\ Busy(Tick, [k \in DOMAIN stale |-> Raise(Stale(stale[k]), "stale")])
  /\ swept' = FALSE
  /\ UNCHANGED <<registryVars, status, connected, ever, silent, bad, out>>

(* Time passes without data from n.                                        *)
Silence(n) ==
  /\ n \in ever /\ silent' = silent \cup {n}
  /\ UNCHANGED <<registryVars, status, connected, ever, staleOn, bad, swept, todo, out>>

NoLongerStale(n) ==
  /\ staleOn' = staleOn \ {n}
  /\ UNCHANGED <<registryVars, status, bad, swept, out>>
Unstale(n) == IF n \in staleOn THEN <<Call("resolve", Stale(n))>> ELSE <<>>

NodeData(n) ==
  /\ Idle(Reader(n)) /\ n \in ever
  /\ silent' = silent \ {n}
  /\ Busy(Reader(n), Unstale(n))
  /\ NoLongerStale(n)
  /\ UNCHANGED <<connected, ever>>

LinkRestored(n) ==
  IF "reconnect" \in Template THEN Raise(Conn(n), "reconnect") ELSE Call("resolve", Conn(n))
NodeConnected(n) ==
  /\ Idle(Client(n)) /\ n \notin connected
  /\ connected' = connected \cup {n} /\ ever' = ever \cup {n}
  /\ silent' = silent \ {n}
  /\ Busy(Client(n), Unstale(n) \o IF n \in ever THEN <<LinkRestored(n)>> ELSE <<>>)
  /\ NoLongerStale(n)

NodeDisconnected(n) ==
  /\ Idle(Client(n)) /\ n \in connected
  /\ connected' = connected \ {n}
  /\ Busy(Client(n), Unstale(n) \o
       IF "disconnect" \in Template THEN <<Raise(Conn(n), "disconnect")>> ELSE <<>>)
  /\ NoLongerStale(n)
  /\ UNCHANGED <<ever, silent>>

(* The broker's checkBounds reports a change of a channel's status.        *)
BadData(c) ==
  /\ Idle(Broker)
  /\ \E s \in ({"ok"} \cup Faults) \ {bad[c]} :
       /\ bad' = [bad EXCEPT ![c] = s]
       /\ Busy(Broker, CASE s = "ok" -> <<Call("resolve", Bad(c))>>
                         [] s # "ok" /\ "bad_data" \in Template -> <<Raise(Bad(c), s)>>
                         [] OTHER -> <<>>)
  /\ UNCHANGED <<registryVars, status, connected, ever, silent, staleOn, swept, out>>

(* Registry.Push: the id is made under the lock, the row is raised after.  *)
Push ==
  /\ Idle(Server) /\ seq < MaxNotices
  /\ seq' = seq + 1
  /\ Busy(Server, <<Raise(Notice(seq + 1), "notice")>>)
  /\ UNCHANGED <<rows, order, engineVars, out>>

(* A browser's ack_alert, for a row it shows, the registry's or not.       *)
AckRequested(id) ==
  /\ Idle(Console)
  /\ Busy(Console, <<Call("ack", id)>>)
  /\ UNCHANGED <<registryVars, engineVars, out>>

Event ==
  \/ TickBegins \/ sweepStale \/ Push
  \/ \E n \in Nodes : \/ Silence(n) \/ NodeData(n)
                      \/ NodeConnected(n) \/ NodeDisconnected(n)
  \/ \E c \in Bounded : BadData(c)

Next ==
  \/ Event
  \/ \E id \in Ids : AckRequested(id)
  \/ \E g \in Goroutines : RegistryCall(g) \/ Published(g)

Spec == Init /\ [][Next]_vars
=============================================================================
