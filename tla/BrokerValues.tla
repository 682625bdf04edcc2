---------------------------- MODULE BrokerValues ----------------------------
(***************************************************************************)
(* The broker's data side: events of channel values behind a bounded queue *)
(* and the last value of each channel, which any goroutine may read.       *)
(***************************************************************************)
LOCAL INSTANCE Naturals
LOCAL INSTANCE Sequences

CONSTANT DataCap  \* capacity of Broker.dataIn (256 in New)

ASSUME ValuesAssumption == DataCap \in Nat \ {0}

VARIABLES
  dataIn,  \* Broker.dataIn
  shared   \* Broker.currentValues

dataVars == <<dataIn, shared>>

DataInit == dataIn = <<>> /\ shared = <<>>

(* The values of a map laid over those of another.                         *)
Over(new, old) ==
  [c \in DOMAIN new \cup DOMAIN old |-> IF c \in DOMAIN new THEN new[c] ELSE old[c]]

(* Fault: the queue grows.                                                 *)
PublishUnbounded(event) == dataIn' = Append(dataIn, event) /\ UNCHANGED shared

(* Never blocks: an event that finds the queue full is dropped.            *)
PublishData(event) ==
  /\ dataIn' = IF Len(dataIn) < DataCap THEN Append(dataIn, event) ELSE dataIn
  /\ UNCHANGED shared

HandleData ==
  /\ dataIn # <<>> /\ dataIn' = Tail(dataIn)
  /\ shared' = Over(Head(dataIn), shared)
=============================================================================
