----------------------------- MODULE AlertBoard -----------------------------
(***************************************************************************)
(* The alerts on one browser: what the registry publishes goes through the *)
(* broker's raw queue and the browser's subscription, both of which drop   *)
(* when full, and the browser keeps rows of its own.  A snapshot of every  *)
(* row follows once a second, and opens every connection.                  *)
(***************************************************************************)
EXTENDS Alerts

CONSTANTS
  RawCap,     \* capacity of Broker.rawIn (64 in New)
  WireCap,    \* capacity of a subscription (64 in Subscribe)
  ClicksLost, \* whether an ack may be clicked while the control link is down
  MaxJoins    \* bound: connections of the browser

ASSUME BoardAssumption ==
  /\ RawCap \in Nat \ {0} /\ WireCap \in Nat \ {0}
  /\ ClicksLost \in BOOLEAN /\ MaxJoins \in Nat \ {0}

VARIABLES
  raw,       \* Broker.rawIn
  listed,    \* the broker's loop has added this browser's subscription
  wire,      \* the subscription's channel
  joining,   \* ServeWsData has still to write its snapshot
  joins,     \* connections so far
  snap,      \* the snapshot the one-second ticker is about to publish
  view       \* _alerts: the rows of the browser

boardVars == <<raw, listed, wire, joining, joins, snap, view>>
allVars == <<vars, boardVars>>

BoardInit ==
  /\ Init
  /\ raw = <<>> /\ listed = FALSE /\ wire = <<>> /\ joining = TRUE /\ joins = 1
  /\ snap = Nothing /\ view = <<>>

SnapshotMsg == [kind |-> "alert_snapshot", rows |-> rows]

Queued(msg) == raw' = IF Len(raw) < RawCap THEN Append(raw, msg) ELSE raw

PublishAlert(g) ==
  /\ Published(g) /\ Queued(out[g])
  /\ UNCHANGED <<listed, wire, joining, joins, snap, view>>

(* Fault: rows that have recovered are left out.                           *)
TakeActive ==
  /\ snap = Nothing /\ {id \in DOMAIN rows : Active(id)} # {}
  /\ snap' = [kind |-> "alert_snapshot",
              rows |-> [id \in {i \in DOMAIN rows : Active(i)} |-> rows[id]]]
  /\ UNCHANGED <<vars, raw, listed, wire, joining, joins, view>>

(* The one-second ticker: an empty list publishes nothing.                 *)
TakeSnapshot ==
  /\ snap = Nothing /\ rows # <<>>
  /\ snap' = SnapshotMsg
  /\ UNCHANGED <<vars, raw, listed, wire, joining, joins, view>>

PublishSnapshot ==
  /\ snap # Nothing /\ Queued(snap) /\ snap' = Nothing
  /\ UNCHANGED <<vars, listed, wire, joining, joins, view>>

(* The broker's loop: one case each, when it is not reporting bad data.    *)
FanOut ==
  /\ Idle(Broker) /\ raw # <<>> /\ raw' = Tail(raw)
  /\ wire' = IF listed /\ Len(wire) < WireCap THEN Append(wire, Head(raw)) ELSE wire
  /\ UNCHANGED <<vars, listed, joining, joins, snap, view>>

Subscribed ==
  /\ Idle(Broker) /\ ~listed /\ listed' = TRUE
  /\ UNCHANGED <<vars, raw, wire, joining, joins, snap, view>>

(* ServeWsData: the snapshot is written before anything broadcast.         *)
SendSnapshot ==
  /\ joining /\ joining' = FALSE
  /\ wire' = IF rows = <<>> THEN wire ELSE <<SnapshotMsg>> \o wire
  /\ UNCHANGED <<vars, raw, listed, joins, snap, view>>

(* The data socket closes and the browser dials again; a reload of the     *)
(* page forgets its rows too.                                              *)
Rejoin ==
  /\ joins < MaxJoins /\ joins' = joins + 1
  /\ listed' = FALSE /\ wire' = <<>> /\ joining' = TRUE
  /\ view' \in {view, <<>>}
  /\ UNCHANGED <<vars, raw, snap>>

-----------------------------------------------------------------------------
(* The browser.                                                            *)

(* Rows the server sends, over the rows shown: a row shown as acknowledged *)
(* stays so.                                                               *)
ingestAlert(v, sent) ==
  [id \in DOMAIN v \cup DOMAIN sent |->
     CASE id \notin DOMAIN sent -> v[id]
       [] id \in DOMAIN sent \ DOMAIN v -> sent[id]
       [] OTHER -> [sent[id] EXCEPT !.acked = @ \/ v[id].acked]]

ackAlertLocally(v, id) == IF id \in DOMAIN v THEN [v EXCEPT ![id].acked = TRUE] ELSE v

onDataMessage ==
  /\ ~joining /\ wire # <<>> /\ wire' = Tail(wire)
  /\ LET msg == Head(wire) IN
     \/ msg.kind = "alert" /\ view' = ingestAlert(view, [i \in {msg.id} |-> msg.row])
     \/ msg.kind = "alert_snapshot" /\ view' = ingestAlert(view, msg.rows)
     \/ msg.kind = "alert_acked" /\ view' = ackAlertLocally(view, msg.id)
  /\ UNCHANGED <<vars, raw, listed, joining, joins, snap>>

ackAlert(id) ==
  /\ id \in DOMAIN view /\ ~view[id].acked
  /\ \/ AckRequested(id)
     \/ ClicksLost /\ UNCHANGED vars
  /\ view' = ackAlertLocally(view, id)
  /\ UNCHANGED <<raw, listed, wire, joining, joins, snap>>

Dismiss(id) ==
  /\ id \in DOMAIN view
  /\ view' = [i \in DOMAIN view \ {id} |-> view[i]]
  /\ UNCHANGED <<vars, raw, listed, wire, joining, joins, snap>>

BoardNext ==
  \/ (Event \/ \E g \in Goroutines : RegistryCall(g)) /\ UNCHANGED boardVars
  \/ \E g \in Goroutines : PublishAlert(g)
  \/ TakeSnapshot \/ PublishSnapshot
  \/ FanOut \/ Subscribed \/ SendSnapshot \/ Rejoin
  \/ onDataMessage
  \/ \E id \in Ids : ackAlert(id) \/ Dismiss(id)

BoardSpec == BoardInit /\ [][BoardNext]_allVars

(* The goroutines that raise and clear, the ticker and the connection to   *)
(* its browser keep running, and so does the broker, which takes one of    *)
(* the ready cases at random.                                              *)
FairBoard ==
  /\ BoardSpec
  /\ WF_allVars(\E g \in Goroutines : \/ RegistryCall(g) /\ UNCHANGED boardVars
                                      \/ PublishAlert(g))
  /\ WF_allVars(TakeSnapshot \/ PublishSnapshot)
  /\ WF_allVars(FanOut) /\ WF_allVars(Subscribed)
  /\ WF_allVars(SendSnapshot \/ onDataMessage)

-----------------------------------------------------------------------------
(* A row that stays unacknowledged comes to be shown as it is, whatever    *)
(* messages a full queue, a late subscription or a dismissal lost, and in  *)
(* whatever order the publications of two goroutines arrived.              *)
Shows(id, row) == /\ id \in DOMAIN view
                  /\ view[id].what = row.what /\ view[id].resolved = row.resolved
UnackedRow == [what : Conditions, acked : {FALSE}, resolved : BOOLEAN]
BoardCatchesUp ==
  \A id \in Ids : \A row \in UnackedRow :
    (id \in DOMAIN rows /\ rows[id] = row)
      ~> (Shows(id, row) \/ ~(id \in DOMAIN rows /\ rows[id] = row))

(* RaiseFor "un-acks" a row, "so the operator must acknowledge it again":  *)
(* when nothing is under way, a row the registry holds unacknowledged is   *)
(* not shown as acknowledged.                                              *)
BoardQuiet == /\ \A g \in Goroutines : Idle(g)
              /\ raw = <<>> /\ wire = <<>> /\ snap = Nothing /\ ~joining /\ listed
UnackedShown ==
  BoardQuiet => \A id \in DOMAIN view : Raised(id) => ~view[id].acked
=============================================================================
