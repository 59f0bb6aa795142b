----------------------------- MODULE MCTripFeed ------------------------------
(***************************************************************************)
(* Two buses of one route, one of another and one of a route of another    *)
(* agency, at two stops, around midnight.                                  *)
(***************************************************************************)
EXTENDS TripFeed, TLC

CONSTANTS a1, a2, b1, x1

MCTrip == {a1, a2, b1, x1}
MCStop == 1 .. 2
MCRouteOf == a1 :> "a" @@ a2 :> "a" @@ b1 :> "b" @@ x1 :> "x"
MCArrival == a1 :> <<23, 24>> @@ a2 :> <<25, 26>> @@ b1 :> <<24, 27>> @@ x1 :> <<26, 29>>
MCAgency == {"a", "b"}
=============================================================================
