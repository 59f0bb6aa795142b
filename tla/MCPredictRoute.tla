--------------------------- MODULE MCPredictRoute ---------------------------
(***************************************************************************)
(* Small instances of PredictRoute and of the evaluation of its result.    *)
(* Stop sequences differ from positions (2, 5, 7), so an index error shows.*)
(***************************************************************************)
EXTENDS RouteAlert

SequenceNumber == <<2, 5, 7, 8>>

(* A route of Len(w) stops with the given queues; ids[k] is stop k's id.   *)
Route(ids, w) ==
    [k \in DOMAIN w |->
        [id |-> ids[k], sequence |-> SequenceNumber[k], waiting |-> w[k]]]

Fleets(V, seqs, capacities, loads) ==
    [V -> [seq : seqs, capacity : capacities, passengers : loads]]

(* people_waiting is looked up by stop_id, so two visits of a stop see the *)
(* same queue.                                                             *)
Queues(ids, queues) == {w \in queues : \A j, k \in DOMAIN w : ids[j] = ids[k] => w[j] = w[k]}

Families(ids, queues, fleets) ==
    {[stops |-> Route(ids, w), vehicles |-> f] : w \in Queues(ids, queues), f \in fleets}

(* One or two vehicles anywhere: before, at or beyond the terminus, off the *)
(* route, without a stop_sequence, without seats, overloaded.              *)
Corners ==
    Families(<<1, 2, 3>>, UNION {[1 .. n -> {None, 3}] : n \in 1 .. 3},
             Fleets({}, {2}, {2}, {0})
               \cup Fleets({1, 2}, {None, 2, 5, 7, 9}, {0, 2}, {0, 3}))

(* Three vehicles that follow each other over four stops, the third of     *)
(* which may be the first one again.                                       *)
Convoys ==
    UNION {Families(ids, [1 .. 4 -> {0, 3}], Fleets({1, 2, 3}, {2, 5}, {1, 3}, {0})) :
              ids \in {<<1, 2, 3, 4>>, <<1, 2, 1, 4>>}}

MCSnapshots == Corners \cup Convoys
=============================================================================
