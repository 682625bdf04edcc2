-------------------------- MODULE AlertsProperties --------------------------
(***************************************************************************)
(* What the operators may rely on.                                         *)
(***************************************************************************)
EXTENDS Alerts

Row == [what : Conditions, acked : BOOLEAN, resolved : BOOLEAN]

AlertsTypeOK ==
  /\ DOMAIN rows \subseteq Ids /\ Range(rows) \subseteq Row
  /\ Range(order) = DOMAIN rows /\ IsInjective(order)
  /\ seq \in 0..MaxNotices
  /\ status \in [Watches -> {"ok"} \cup Faults] /\ bad \in [Bounded -> {"ok"} \cup Faults]
  /\ connected \subseteq ever /\ ever \subseteq Nodes /\ silent \subseteq ever
  /\ staleOn \subseteq connected

(* A row nobody has acknowledged never leaves the board: neither trim nor  *)
(* a later raise removes it.                                               *)
UnackedStays == [][\A id \in DOMAIN rows : Raised(id) => id \in DOMAIN rows']_vars

(* A new row leaves the list within its limit, or without a row it could   *)
(* have dropped (store, trim).                                             *)
TrimKeepsBound ==
  [][Len(order') > Len(order) =>
       Len(order') <= MaxLen \/ \A id \in DOMAIN rows' : ~rows'[id].acked]_vars

(* Only a person acknowledges, but for a rule whose author left latch off: *)
(* recovery, reconnection and data resuming never do.                      *)
ByPerson(id) == Do(Console, "ack") /\ Target(Console) = id
LatchedByPerson ==
  [][\A id \in DOMAIN rows :
       (Raised(id) /\ id \in DOMAIN rows' /\ rows'[id].acked)
         => id \in {Watch(w) : w \in Clearing} \/ ByPerson(id)]_vars

(* Once the goroutine that owns a condition has caught up, the row tells   *)
(* its present value: active with the fault that holds now, or not active. *)
(* A person may have acknowledged the row, and trim dropped it since.      *)
Tells(id, fault) ==
  /\ Active(id) => rows[id].what = fault
  /\ fault # "ok" /\ id \in DOMAIN rows /\ ~rows[id].acked => Active(id)
LinkFault(n) ==
  CASE n \notin connected -> "disconnect"
    [] n \in connected /\ "reconnect" \in Template -> "reconnect"
    [] OTHER -> "ok"
RowsTell ==
  /\ Idle(Tick) => \A w \in Watches : Tells(Watch(w), status[w])
  /\ Idle(Broker) /\ "bad_data" \in Template => \A c \in Bounded : Tells(Bad(c), bad[c])
  /\ \A n \in Nodes : Idle(Client(n)) /\ "disconnect" \in Template => Tells(Conn(n), LinkFault(n))

-----------------------------------------------------------------------------
(* What the properties above rest on: which goroutine asks for what.       *)

(* A call that acknowledges comes from a rule whose author left latch off, *)
(* or from a person; every other call on a row that shows a condition      *)
(* comes from the goroutine that sees the condition.                       *)
Asks(g, call) ==
  /\ call.id \in Ids
  /\ call.op = "raise" => call.what \in Conditions
  /\ call.op = "resolveAndAck" => call.id \in {Watch(w) : w \in Clearing}
  /\ call.op = "ack" <=> g = Console
  /\ call.op # "ack" =>
       /\ call.id \in {Watch(w) : w \in Watches} => g = Tick
       /\ call.id \in {Bad(c) : c \in Bounded} => g = Broker
       /\ \A n \in Nodes : call.id = Conn(n) => g = Client(n)
CallsRight == \A g \in Goroutines : \A k \in DOMAIN todo[g] : Asks(g, todo[g][k])

(* Ahead of g are only calls that make the row id tell the condition that  *)
(* g saw last; without one the row tells it already.                       *)
Settles(call, fault) ==
  \/ fault # "ok" /\ call.op = "raise" /\ call.what = fault
  \/ fault = "ok" /\ call.op \in {"resolve", "resolveAndAck"}
About(g, id) == {k \in DOMAIN todo[g] : todo[g][k].id = id}
WillTell(g, id, fault) ==
  /\ \A k \in About(g, id) : Settles(todo[g][k], fault)
  /\ About(g, id) = {} => Tells(id, fault)

(* A row about a link is there only once the link has been up.             *)
OnlyLinksSeen ==
  \A n \in Nodes : Conn(n) \in DOMAIN rows \/ About(Client(n), Conn(n)) # {} => n \in ever
RowsWillTell ==
  /\ \A w \in Watches : WillTell(Tick, Watch(w), status[w])
  /\ "bad_data" \in Template => \A c \in Bounded : WillTell(Broker, Bad(c), bad[c])
  /\ "disconnect" \in Template => \A n \in Nodes : WillTell(Client(n), Conn(n), LinkFault(n))
  /\ OnlyLinksSeen
=============================================================================
