------------------------------ MODULE EventBus ------------------------------
(***************************************************************************)
(* The artifact event bus (utils/events.go).  Publish starts one goroutine *)
(* per subscribed channel, and that goroutine blocks until the channel has *)
(* room: a published event is first in flight, then in the channel, and    *)
(* two events may enter a channel in either order.  The payload is a       *)
(* pointer, so an event is the index of the artifact it points to.         *)
(***************************************************************************)
EXTENDS Naturals, Sequences

CONSTANTS
    Subscriber,  \* the owners of channels, one channel each
    Inputs,      \* Inputs[s]: the event names (artifact types) s subscribes to
    ChannelCap   \* the buffer of a channel (10 in the code)

ASSUME BusAssumption == ChannelCap \in Nat \ {0}

VARIABLES
    inflight,    \* inflight[s]: events held by goroutines that send to s
    chan         \* chan[s]: the buffered events of s

busVars == <<inflight, chan>>

BusInit ==
    /\ inflight = [s \in Subscriber |-> {}]
    /\ chan = [s \in Subscriber |-> <<>>]

Publish(name, e) ==
    /\ inflight' = [s \in Subscriber |->
          IF name \in Inputs[s] THEN inflight[s] \cup {e} ELSE inflight[s]]
    /\ UNCHANGED chan

(* Variant: a send that would block is given up.                           *)
Deliver_NonBlocking(s, e) ==
    /\ e \in inflight[s]
    /\ inflight' = [inflight EXCEPT ![s] = inflight[s] \ {e}]
    /\ chan' = IF Len(chan[s]) = ChannelCap THEN chan
               ELSE [chan EXCEPT ![s] = Append(chan[s], e)]

Deliver(s, e) ==
    /\ e \in inflight[s]
    /\ Len(chan[s]) < ChannelCap
    /\ inflight' = [inflight EXCEPT ![s] = inflight[s] \ {e}]
    /\ chan' = [chan EXCEPT ![s] = Append(chan[s], e)]

(* Only buffered events count; those in flight do not.                     *)
AreEventsInBus == \E s \in Subscriber : chan[s] # <<>>
=============================================================================
