------------------------------ MODULE MqttLink -------------------------------
(***************************************************************************)
(* What the code asks of paho-mqtt and of the broker, for one device: a    *)
(* QoS 1 queue delivers in order and at least once, and after a lost       *)
(* connection delivers again what was not acknowledged; QoS 2 delivers     *)
(* once; the broker keeps the last status, and announces a connection that *)
(* is lost with the will the client registered.                            *)
(***************************************************************************)
EXTENDS Integers, Sequences, FiniteSetsExt

CONSTANTS
    Inflight,   \* MAX_INFLIGHT_MESSAGES, of either side
    MaxFaults   \* bound on crashes, lost connections and exceptions

VARIABLES
    linked,    \* the edge client is connected to the broker
    out,       \* its QoS 1 messages for the broker
    up,        \* the broker's QoS 1 messages for the backend
    retained,  \* the retained message of edge/<device>/status
    down,      \* admin commands for the device (QoS 2, persistent session)
    faults

linkVars == <<linked, out, up, retained, down>>

(* A count has its number, a status is 1 for online and 0 for offline.     *)
Message == [topic : {"crowdCount", "status"}, of : Nat]

(* The messages that were delivered last and are perhaps not acknowledged, *)
(* and those that are still to be delivered.                               *)
Link == [recent : Seq(Message), queue : Seq(Message)]

EmptyLink == [recent |-> << >>, queue |-> << >>]

Publish(l, m) == [l EXCEPT !.queue = Append(@, m)]
Waiting(l) == l.queue # << >>
Pending(l) == {l.queue[i] : i \in 1 .. Len(l.queue)}

LastOf(s, n) == SubSeq(s, Len(s) - n + 1, Len(s))

Deliver(l) ==
    LET r == Append(l.recent, Head(l.queue))
    IN [recent |-> LastOf(r, Min({Inflight, Len(r)})), queue |-> Tail(l.queue)]

(* A new connection: the last n messages had not been acknowledged and are *)
(* delivered again, in their order.                                        *)
Resume(l, n) == [recent |-> << >>, queue |-> LastOf(l.recent, n) \o l.queue]

(* A message published by on_connect overtakes what is delivered again.    *)
ResumeWith(l, n, m) == [Resume(l, n) EXCEPT !.queue = <<m>> \o @]

Count(n) == [topic |-> "crowdCount", of |-> n]
Online == [topic |-> "status", of |-> 1]
Offline == [topic |-> "status", of |-> 0]

Counts(ms) == {m.of : m \in {x \in ms : x.topic = "crowdCount"}}
Statuses(ms) == {m \in ms : m.topic = "status"}

(* Messages arrive at the broker, which keeps the last status.             *)
Arrive(ms) ==
    /\ up' = [up EXCEPT !.queue = @ \o ms]
    /\ retained' = LET said == {i \in 1 .. Len(ms) : ms[i].topic = "status"}
                   IN IF said = {} THEN retained ELSE ms[Max(said)]

Fault == faults < MaxFaults /\ faults' = faults + 1

LinkInit ==
    /\ linked = FALSE
    /\ out = EmptyLink /\ up = EmptyLink
    /\ retained = Offline
    /\ down = << >>
    /\ faults = 0
=============================================================================
