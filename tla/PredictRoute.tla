---------------------------- MODULE PredictRoute ----------------------------
(***************************************************************************)
(* PredictionEngine.predict_route (src/Backend/PredictionEngine/engine.py) *)
(* on one RouteSnapshot: the vehicles of a route are simulated one after   *)
(* the other, front to back, over one shared array of waiting passengers.  *)
(* A step of this module is one pass of the loop over vehicles or of the   *)
(* loop over stops.                                                        *)
(*                                                                         *)
(* Stops are named by their position in the array, 1..N (0..N-1 in the     *)
(* code).  Vehicle identifiers are trip ids, compared as strings by the    *)
(* code; they are natural numbers here, which keeps their order.           *)
(***************************************************************************)
EXTENDS Rounding, Sequences, FiniteSetsExt

CONSTANTS
    None,        \* Python's None
    Snapshots,   \* the RouteSnapshots the engine may be given
    AlightNum,   \* alighting_fraction is AlightNum / AlightDen
    AlightDen

StopState == [id : Nat, sequence : Int, waiting : Nat \cup {None}]

VehicleSnapshot == [seq : Int \cup {None}, capacity : Int, passengers : Nat]

(* The stops are ordered by a stop_sequence that is unique in a route      *)
(* (snapshot_builder.py, _query_stops; primary key of route_stops), each   *)
(* vehicle is one trip (_query_vehicles, DISTINCT ON (trip_id)).  A stop   *)
(* may be visited twice by a route.                                        *)
RouteSnapshot(s) ==
    /\ s.stops \in Seq(StopState)
    /\ \A j, k \in DOMAIN s.stops :
          j < k => s.stops[j].sequence < s.stops[k].sequence
    /\ DOMAIN s.vehicles \subseteq Nat
    /\ s.vehicles \in [DOMAIN s.vehicles -> VehicleSnapshot]

ASSUME NoneAssumption == None \notin Int
ASSUME SnapshotsAssumption == \A s \in Snapshots : RouteSnapshot(s)
ASSUME FractionAssumption ==
    /\ AlightNum \in Nat
    /\ AlightDen \in Nat \ {0}

VARIABLES
    snapshot,    \* the argument
    phase,       \* where predict_route is
    pending,     \* the vehicles of sorted_vehicles not yet reached
    remaining,   \* remaining[k]: passengers still waiting at stop k
    cur,         \* the vehicle being simulated
    i,           \* the stop it is at
    load,        \* its load
    stopPreds,   \* every StopPrediction emitted so far
    vehiclePreds,\* vehicle_predictions
    stranded     \* stranded_at_stops

vars == <<snapshot, phase, pending, remaining, cur, i, load,
          stopPreds, vehiclePreds, stranded>>

-----------------------------------------------------------------------------
(* The arithmetic of one stop.                                             *)

Least(a, b) == IF a <= b THEN a ELSE b

Greatest(a, b) == IF a >= b THEN a ELSE b

Alight(onboard) == Least(Round(onboard * AlightNum, AlightDen), onboard)

BoardBeyondQueue(left, capacity, onboard) == Greatest(0, capacity - onboard)

BoardBeyondCapacity(left, capacity, onboard) == left

BoardOneSeatShort(left, capacity, onboard) ==
    Least(left, Greatest(0, capacity - onboard - 1))

Board(left, capacity, onboard) ==
    Least(left, Greatest(0, capacity - onboard))

QueueUntouched(left, boarded) == left

(* remaining[i] -= board                                                   *)
LeftBehind(left, boarded) == left - boarded

-----------------------------------------------------------------------------
(* The snapshot, as the code reads it.                                     *)

N == Len(snapshot.stops)

Stops == 1 .. N

IncludeTerminus == N + 1

(* The first position the loop over stops does not reach: the terminus.    *)
EndIdx == N

Vehicles == DOMAIN snapshot.vehicles

Capacity(v) == snapshot.vehicles[v].capacity

Waiting(k) ==
    IF snapshot.stops[k].waiting = None THEN 0 ELSE snapshot.stops[k].waiting

HasData(k) == snapshot.stops[k].waiting # None

(* seq_to_idx.get(vehicle.current_stop_sequence) is not None, and its value *)
StartsAt(v, k) ==
    k \in Stops /\ snapshot.stops[k].sequence = snapshot.vehicles[v].seq

OnRoute(v) == \E k \in Stops : StartsAt(v, k)

BackToFront(v, w) ==
    \/ snapshot.vehicles[v].seq < snapshot.vehicles[w].seq
    \/ snapshot.vehicles[v].seq = snapshot.vehicles[w].seq /\ v < w

(* The sort key (-current_stop_sequence, vehicle_id).                      *)
SortsBefore(v, w) ==
    \/ snapshot.vehicles[v].seq > snapshot.vehicles[w].seq
    \/ snapshot.vehicles[v].seq = snapshot.vehicles[w].seq /\ v < w

(* The next vehicle of sorted_vehicles.                                    *)
IsNext(v) == v \in pending /\ \A w \in pending \ {v} : SortsBefore(v, w)

-----------------------------------------------------------------------------
Init ==
    /\ snapshot \in Snapshots
    /\ phase = "start"
    /\ pending = {}
    /\ remaining = <<>>
    /\ cur = None
    /\ i = 0
    /\ load = 0
    /\ stopPreds = {}
    /\ vehiclePreds = {}
    /\ stranded = <<>>

(* A route of at most one stop yields an empty result.                     *)
ReturnEmpty ==
    /\ phase = "start"
    /\ N <= 1
    /\ phase' = "done"
    /\ UNCHANGED <<snapshot, pending, remaining, cur, i, load,
                   stopPreds, vehiclePreds, stranded>>

(* Negating the stop_sequence of a trip update that carries none raises    *)
(* TypeError in the sort key; the supervisor's cycle drops the whole route.*)
RaiseTypeError ==
    /\ phase = "start"
    /\ N > 1
    /\ \E v \in Vehicles : snapshot.vehicles[v].seq = None
    /\ phase' = "raised"
    /\ UNCHANGED <<snapshot, pending, remaining, cur, i, load,
                   stopPreds, vehiclePreds, stranded>>

BuildIndexAndSort ==
    /\ phase = "start"
    /\ N > 1
    /\ \A v \in Vehicles : snapshot.vehicles[v].seq # None
    /\ phase' = "vehicle"
    /\ pending' = Vehicles
    /\ remaining' = [k \in Stops |-> Waiting(k)]
    /\ UNCHANGED <<snapshot, cur, i, load, stopPreds, vehiclePreds, stranded>>

OffRouteOnly(v) == ~OnRoute(v)

(* The two `continue`s before the simulation: the stop sequence is not one *)
(* of the route's, or the capacity is not positive.                        *)
Skipped(v) == ~OnRoute(v) \/ Capacity(v) <= 0

SkipVehicle(v) ==
    /\ phase = "vehicle"
    /\ IsNext(v)
    /\ Skipped(v)
    /\ pending' = pending \ {v}
    /\ UNCHANGED <<snapshot, phase, remaining, cur, i, load,
                   stopPreds, vehiclePreds, stranded>>

StartVehicle(v) ==
    /\ phase = "vehicle"
    /\ IsNext(v)
    /\ ~Skipped(v)
    /\ \E k \in Stops : StartsAt(v, k) /\ i' = k
    /\ phase' = "stop"
    /\ pending' = pending \ {v}
    /\ cur' = v
    /\ load' = snapshot.vehicles[v].passengers
    /\ UNCHANGED <<snapshot, remaining, stopPreds, vehiclePreds, stranded>>

(* Every stop but the terminus: alight, board, emit the StopPrediction.    *)
VisitStop ==
    LET alighted == Alight(load)
        boarded == Board(remaining[i], Capacity(cur), load - alighted)
        after == load - alighted + boarded
    IN /\ phase = "stop"
       /\ i < EndIdx
       /\ load' = after
       /\ remaining' = [remaining EXCEPT ![i] = LeftBehind(@, boarded)]
       /\ stopPreds' = stopPreds \cup
             {[vehicle |-> cur, stop |-> i, passengers |-> after,
               boarded |-> boarded, alighted |-> alighted]}
       /\ i' = i + 1
       /\ UNCHANGED <<snapshot, phase, pending, cur, vehiclePreds, stranded>>

PredsOf(v) == {p \in stopPreds : p.vehicle = v}

(* The end of the loop over stops.  A vehicle that visited no stop (it is  *)
(* at the terminus) is dropped, any other gets a VehiclePrediction; its    *)
(* peak_occupancy_pct and confidence are the quotients peak / capacity and *)
(* withData / total.                                                       *)
FinishVehicle ==
    /\ phase = "stop"
    /\ i >= EndIdx
    /\ vehiclePreds' = IF PredsOf(cur) = {} THEN vehiclePreds
          ELSE vehiclePreds \cup
             {[vehicle  |-> cur,
               peak     |-> Max({p.passengers : p \in PredsOf(cur)}),
               withData |-> Cardinality({p \in PredsOf(cur) : HasData(p.stop)}),
               total    |-> Cardinality(PredsOf(cur))]}
    /\ phase' = "vehicle"
    /\ cur' = None
    /\ i' = 0
    /\ load' = 0
    /\ UNCHANGED <<snapshot, pending, remaining, stopPreds, stranded>>

StopIds == {snapshot.stops[k].id : k \in Stops}

(* Step 4: a dict keyed by stop_id, filled in the order of the stops, so   *)
(* the last stop of an id that still has passengers gives its value.       *)
CollectStranded ==
    /\ phase = "vehicle"
    /\ pending = {}
    /\ phase' = "done"
    /\ stranded' =
         LET left(d) == {k \in Stops : snapshot.stops[k].id = d /\ remaining[k] > 0}
         IN [d \in {e \in StopIds : left(e) # {}} |-> remaining[Max(left(d))]]
    /\ UNCHANGED <<snapshot, pending, remaining, cur, i, load,
                   stopPreds, vehiclePreds>>

Returned == phase \in {"done", "raised"} /\ UNCHANGED vars

Next ==
    \/ ReturnEmpty
    \/ RaiseTypeError
    \/ BuildIndexAndSort
    \/ \E v \in pending : SkipVehicle(v) \/ StartVehicle(v)
    \/ VisitStop
    \/ FinishVehicle
    \/ CollectStranded
    \/ Returned

Spec == Init /\ [][Next]_vars

-----------------------------------------------------------------------------
(* Properties                                                              *)

StopPrediction ==
    [vehicle : Vehicles, stop : Stops, passengers : Nat,
     boarded : Nat, alighted : Nat]

(* The types of the engine's local variables.  It is more than typing that *)
(* no queue and no load is ever negative: board and alight are differences *)
(* and products the code has to clamp.                                     *)
TypeOK ==
    /\ snapshot \in Snapshots
    /\ phase \in {"start", "vehicle", "stop", "done", "raised"}
    /\ pending \subseteq Vehicles
    /\ phase \in {"vehicle", "stop"} => remaining \in [Stops -> Nat]
    /\ phase = "stop" => cur \in Vehicles /\ i \in Stops
    /\ load \in Nat
    /\ stopPreds \subseteq StopPrediction

Simulated == phase = "done" /\ N > 1

Boarded(preds) == SumFunction([p \in preds |-> p.boarded])

(* No passenger is lost or boarded twice: at every moment those that have  *)
(* boarded some vehicle at a stop and those still waiting there add up to  *)
(* the people_waiting of the snapshot; in the result, those boarded and    *)
(* those stranded add up to the demand (TestConservationInvariant), if no  *)
(* stop is visited twice: stranded_at_stops has one entry for both visits. *)
Conservation ==
    /\ phase \in {"vehicle", "stop"} =>
          \A k \in Stops :
              Waiting(k) = remaining[k] + Boarded({p \in stopPreds : p.stop = k})
    /\ Simulated /\ Cardinality(StopIds) = N =>
          SumFunction([k \in Stops |-> Waiting(k)]) =
              Boarded(stopPreds) + SumFunction(stranded)

(* A predicted load never exceeds the vehicle's capacity, unless the       *)
(* vehicle was already fuller than that when the snapshot was taken.       *)
LoadBound ==
    \A p \in stopPreds :
        p.passengers <= Greatest(Capacity(p.vehicle),
                                 snapshot.vehicles[p.vehicle].passengers)

(* Nobody is left behind while there is room: passengers still wait at a   *)
(* stop only if every vehicle simulated through it so far left it full.    *)
NoStrandedWithRoom ==
    \A p \in stopPreds :
        remaining[p.stop] > 0 => p.passengers >= Capacity(p.vehicle)

(* Front to back: a vehicle boards at a stop only if every vehicle further *)
(* ahead on the route that also served this stop left it full.             *)
FrontFirst ==
    \A p, q \in stopPreds :
        /\ p.stop = q.stop
        /\ snapshot.vehicles[p.vehicle].seq > snapshot.vehicles[q.vehicle].seq
        /\ q.boarded > 0
        => p.passengers >= Capacity(p.vehicle)

(* Every vehicle that is on the route, has seats and is not yet at the     *)
(* terminus gets one VehiclePrediction, over exactly the stops it has left *)
(* before the terminus, and no other vehicle gets one.                     *)
VehiclesAccounted ==
    Simulated =>
        /\ {vp.vehicle : vp \in vehiclePreds} =
              {v \in Vehicles : Capacity(v) > 0 /\ \E k \in 1 .. N - 1 : StartsAt(v, k)}
        /\ \A vp, wp \in vehiclePreds : vp.vehicle = wp.vehicle => vp = wp
        /\ \A vp \in vehiclePreds :
              \E k \in 1 .. N - 1 :
                 /\ StartsAt(vp.vehicle, k)
                 /\ {p.stop : p \in PredsOf(vp.vehicle)} = k .. N - 1
                 /\ vp.total = N - k
                 /\ vp.withData = Cardinality({j \in k .. N - 1 : HasData(j)})

=============================================================================
