----------------------------- MODULE RouteAlert ------------------------------
(***************************************************************************)
(* ThresholdEvaluator.evaluate on the result of predict_route: whether the *)
(* route needs attention, and which vehicle and stop the alert names.      *)
(* Fractions are compared exactly where the code divides.  The registry of *)
(* evaluators, which nothing uses, is left out.                            *)
(***************************************************************************)
EXTENDS PredictRoute

CONSTANTS
    OccupancyNum, OccupancyDen,     \* occupancy_threshold
    ConfidenceNum, ConfidenceDen,   \* min_confidence
    MinStranded                     \* min_stranded

ASSUME EvaluatorAssumption ==
    /\ {OccupancyNum, ConfidenceNum, MinStranded} \subseteq Nat
    /\ {OccupancyDen, ConfidenceDen} \subseteq Nat \ {0}

Alert == [vehicle : Nat, stop : Nat, passengers : Nat, stranded : Nat]

ASSUME AlertAssumption == None \notin Alert

(* The first in a list, which before orders, of those that none exceeds.   *)
FirstMax(S, Exceeds(_, _), Before(_, _)) ==
    CHOOSE x \in S : /\ \A y \in S : ~ Exceeds(y, x)
                     /\ \A y \in S : y # x /\ ~ Exceeds(x, y) => Before(x, y)

HigherLoad(vp, wp) == vp.peak > wp.peak

(* The order of peak_occupancy_pct.                                        *)
HigherOccupancy(vp, wp) ==
    vp.peak * Capacity(wp.vehicle) > wp.peak * Capacity(vp.vehicle)

WorstVehicle(vps) ==
    FirstMax(vps, HigherOccupancy, LAMBDA x, y : SortsBefore(x.vehicle, y.vehicle))

WorstStop(v) ==
    FirstMax(PredsOf(v), LAMBDA x, y : x.passengers > y.passengers,
             LAMBDA x, y : x.stop < y.stop)

Qualifying == {vp \in vehiclePreds : vp.withData * ConfidenceDen >= ConfidenceNum * vp.total}

OverThreshold(vp) == vp.peak * OccupancyDen >= OccupancyNum * Capacity(vp.vehicle)

OccupancyTriggered == Qualifying # {} /\ OverThreshold(WorstVehicle(Qualifying))

TotalStranded == SumFunction(stranded)

StrandedTriggered == TotalStranded >= MinStranded

(* The Alert, or None.  Without vehicles there is none.                    *)
Evaluate ==
    LET v == WorstVehicle(IF OccupancyTriggered THEN Qualifying ELSE vehiclePreds).vehicle
    IN IF vehiclePreds = {} \/ ~ (OccupancyTriggered \/ StrandedTriggered)
       THEN None
       ELSE [vehicle |-> v, stop |-> WorstStop(v).stop,
             passengers |-> WorstStop(v).passengers, stranded |-> TotalStranded]

-----------------------------------------------------------------------------
(* Passengers whom a vehicle with enough data leaves behind are reported,  *)
(* however few: that vehicle leaves full, so evaluate cannot keep quiet    *)
(* (for a threshold of at most 1), and the alert names a vehicle and a     *)
(* stop where it is full.                                                  *)
FullVehicleIsReported ==
    OccupancyNum <= OccupancyDen =>
        \A vp \in Qualifying :
            (\E p \in PredsOf(vp.vehicle) : remaining[p.stop] > 0) =>
                /\ Evaluate # None
                /\ Evaluate.passengers >= Capacity(Evaluate.vehicle)

(* Passengers left by anybody or nobody are reported from min_stranded on, *)
(* where no stop is visited twice and some vehicle is predicted.           *)
ManyStrandedAreReported ==
    /\ vehiclePreds # {}
    /\ Cardinality(StopIds) = N
    /\ SumFunctionOnSet(remaining, Stops) >= MinStranded
    => Evaluate # None

(* What evaluate makes of a finished prediction.                           *)
StrandingIsReported ==
    phase = "done" => FullVehicleIsReported /\ ManyStrandedAreReported
=============================================================================
