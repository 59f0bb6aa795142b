------------------------------ MODULE TripFeed -------------------------------
(***************************************************************************)
(* From the GTFS-RT feed to a snapshot: the fetcher polls the feed, stores *)
(* its trip updates and purges old ones; SnapshotBuilder reads from the    *)
(* table where each vehicle is and which share of a stop's queue waits for *)
(* which route.                                                            *)
(*                                                                         *)
(* One direction; a trip is its own vehicle; a stop is its stop_sequence.  *)
(* The world is the clock: a trip has left the stops whose arrival (the    *)
(* time in stop_times and the delay the feed gives) has passed, and a feed *)
(* has the others.  Times are counted over midnight.  The builder's        *)
(* queries may come between any two steps, so what they return is an       *)
(* operator on the state.                                                  *)
(***************************************************************************)
EXTENDS Rounding, Sequences, FiniteSetsExt

CONSTANTS
    Trip, Stop,   \* stop_sequence numbers
    RouteOf,      \* route of a trip
    Arrival,      \* of a trip at a stop: arrival_seconds and arrival_delay,
                  \* beyond DayLength after midnight
    Agency,       \* the routes of the agency
    DayLength,    \* 86400
    MinEta,       \* min_eta of proportional_split
    Window,       \* the 30 minutes of _ETA_QUERY
    MinGap,       \* _MIN_REQUEST_GAP
    Retain,       \* GTFSR_RETAIN_FETCHES
    StartTime, EndTime,   \* bounds of the clock
    MaxCount,     \* bound on the queue at a stop
    MaxFaults     \* bound on failures and restarts

ASSUME FeedAssumption ==
    /\ Stop \subseteq Nat \ {0}   \* parse_trip_updates takes 0 for absent
    /\ {DayLength, MinEta, Window, MinGap, Retain, StartTime, EndTime, MaxCount,
        MaxFaults} \subseteq Nat
    /\ Retain > 0 /\ MinEta > 0 /\ DayLength > 0
    /\ IsFiniteSet(Trip)
    /\ Arrival \in [Trip -> [Stop -> Int]]   \* a delay may be negative

VARIABLES
    now,
    feeds,     \* times of the two latest feeds: the provider may serve either
    pc,        \* the fetcher: "idle", "write", "purge"
    updates,   \* rows parsed and not yet written
    requested, \* _last_request_at
    filter,    \* route_filter: the routes it keeps
    table,     \* gtfs_rt_trip_updates
    (* history *)
    holes,     \* trips some of whose rows could not be inserted
    faults

world == <<now, feeds>>
fetcher == <<pc, updates, requested, filter>>
feedVars == <<world, fetcher, table, holes, faults>>

Never == -1000
Route == {RouteOf[t] : t \in Trip}

(* A trip update for every stop a trip has not reached.                    *)
Feed(time) ==
    {r \in [time : {time}, trip : Trip, stop : Stop] : Arrival[r.trip][r.stop] > time}

(* _load_route_filter: without an answer from the database every route is  *)
(* kept, for as long as the process lives.                                 *)
LoadRouteFilter == {Agency, Route}

FeedInit ==
    /\ now = StartTime
    /\ feeds = {}
    /\ pc = "idle" /\ updates = {} /\ requested = Never
    /\ filter \in LoadRouteFilter
    /\ table = {}
    /\ holes = {} /\ faults = 0

Fault == faults < MaxFaults /\ faults' = faults + 1

-----------------------------------------------------------------------------
(* The world and the provider                                              *)

Tick ==
    /\ now < EndTime
    /\ now' = now + 1
    /\ UNCHANGED <<feeds, fetcher, table, holes, faults>>

Refresh ==
    /\ now \notin feeds
    /\ feeds' = {now} \cup (IF feeds = {} THEN {} ELSE {Max(feeds)})
    /\ UNCHANGED <<now, fetcher, table, holes, faults>>

-----------------------------------------------------------------------------
(* The fetcher: _fetch_cycle                                               *)

(* parse_trip_updates: rows carry the time of the feed.                    *)
ParseWithFetchTime(feed) ==
    {[r EXCEPT !.time = now] : r \in {x \in feed : RouteOf[x.trip] \in filter}}

ParseTripUpdates(feed) == {r \in feed : RouteOf[r.trip] \in filter}

MayRequest == now >= requested + MinGap

Fetch(time) ==
    /\ pc = "idle" /\ MayRequest
    /\ requested' = now
    /\ updates' = ParseTripUpdates(Feed(time))
    /\ pc' = "write"
    /\ UNCHANGED <<world, filter, table, holes, faults>>

FetchFails ==
    /\ pc = "idle" /\ MayRequest
    /\ Fault
    /\ requested' = now
    /\ UNCHANGED <<world, pc, updates, filter, table, holes>>

(* write_gtfs_trip_updates: one transaction with a savepoint for every     *)
(* row; a row that fails is left out, and the transaction may fail.        *)
WriteTripUpdates ==
    /\ pc = "write"
    /\ \/ table' = table \cup updates /\ UNCHANGED <<holes, faults>>
       \/ \E failed \in SUBSET updates \ {{}} :
             /\ Fault
             /\ table' = table \cup (updates \ failed)
             /\ holes' = holes \cup {r.trip : r \in failed}
    /\ updates' = {}
    /\ pc' = "purge"
    /\ UNCHANGED <<world, requested, filter>>

Times(rows) == {r.time : r \in rows}
Newer(rows, t) == {u \in Times(rows) : u > t}

(* purge_old_trip_updates                                                  *)
Kept(rows) == {r \in rows : Cardinality(Newer(rows, r.time)) < Retain}

Purge ==
    /\ pc = "purge"
    /\ \/ table' = Kept(table) /\ UNCHANGED faults
       \/ Fault /\ UNCHANGED table
    /\ pc' = "idle"
    /\ UNCHANGED <<world, updates, requested, filter, holes>>

(* The supervisor starts the process again.                                *)
Restart ==
    /\ Fault
    /\ pc' = "idle" /\ updates' = {} /\ requested' = Never
    /\ filter' \in LoadRouteFilter
    /\ UNCHANGED <<world, table, holes>>

FeedNext ==
    \/ Tick \/ Refresh
    \/ \E time \in feeds : Fetch(time)
    \/ FetchFails \/ WriteTripUpdates \/ Purge \/ Restart

FeedSpec == FeedInit /\ [][FeedNext]_feedVars

-----------------------------------------------------------------------------
(* The builder: _query_vehicles                                            *)

Newest(rows) == {r \in rows : \A x \in rows : x.time <= r.time}
RowsOf(t) == {r \in table : r.trip = t}
Tracked == {r.trip : r \in table}
CurrentStop(t) == Min({r.stop : r \in Newest(RowsOf(t))})

(* _ETA_QUERY: the newest row of every trip at the stop, in the window,    *)
(* and the earliest arrival of every route among them.                     *)
LatestPerTrip(s) ==
    {r \in table : /\ r.stop = s /\ r.time > now - Window
                   /\ \A x \in table : x.trip = r.trip /\ x.stop = s => x.time <= r.time}
SoonestPerRoute(s) ==
    LET trips == {r.trip : r \in LatestPerTrip(s)}
    IN [g \in {RouteOf[t] : t \in trips} |->
           Min({Arrival[t][s] : t \in {x \in trips : RouteOf[x] = g}})]

(* _compute_crowd_shares: the time until an arrival, over midnight; routes *)
(* whose arrival has passed are dropped.                                   *)
RelativeEta(arrival) ==
    LET eta == arrival - (now % DayLength)
    IN IF eta > DayLength \div 2 THEN eta - DayLength ELSE eta

CompetingBeyondMin(s) ==
    LET arrivals == SoonestPerRoute(s)
        etas == [g \in DOMAIN arrivals |-> RelativeEta(arrivals[g])]
    IN [g \in {h \in DOMAIN etas : etas[h] > MinEta} |-> etas[g]]

Competing(s) ==
    LET arrivals == SoonestPerRoute(s)
        etas == [g \in DOMAIN arrivals |-> RelativeEta(arrivals[g])]
    IN [g \in {h \in DOMAIN etas : etas[h] > 0} |-> etas[g]]

(* proportional_split, as a fraction: the inverse of an ETA over the sum   *)
(* of the inverses, both multiplied by the product of the ETAs.            *)
Clamped(eta) == Max({eta, MinEta})

OwnEta(etas, g) == Clamped(etas[g])

OtherEtas(etas, g) ==
    FoldFunctionOnSet(LAMBDA x, y : x * y, 1, [h \in DOMAIN etas |-> Clamped(etas[h])],
                      DOMAIN etas \ {g})

Share(etas, g) ==
    IF g \in DOMAIN etas
    THEN [num |-> OtherEtas(etas, g),
          den |-> SumFunction([h \in DOMAIN etas |-> OtherEtas(etas, h)])]
    ELSE [num |-> 1, den |-> 1]

(* _apply_share: people_waiting at a stop in the snapshot of a route.      *)
PeopleWaiting(etas, g, count) ==
    LET share == Share(etas, g) IN Round(count * share.num, share.den)

Total(etas, routes, count) ==
    SumFunction([g \in routes |-> PeopleWaiting(etas, g, count)])

-----------------------------------------------------------------------------
(* A vehicle never goes back on its route, whichever feed is served when:  *)
(* rows are ordered by the time of their feed.  Rows that could not be     *)
(* inserted are the exception.                                             *)
VehiclesAdvance ==
    [][\A t \in Tracked :
          t \in Tracked' /\ t \notin holes' => CurrentStop(t)' >= CurrentStop(t)]_feedVars

(* The routes that compete for a stop split its queue: a nearer bus never  *)
(* gets less than a later one, and rounding makes or loses at most half a  *)
(* passenger for each of them (proportional_split, _apply_share).          *)
SplitConserves ==
    \A s \in Stop :
        LET etas == Competing(s)
            routes == DOMAIN etas
        IN routes # {} =>
            \A count \in 0 .. MaxCount :
                /\ 2 * (Total(etas, routes, count) - count)
                      \in -Cardinality(routes) .. Cardinality(routes)
                /\ \A g, h \in routes :
                      etas[g] <= etas[h] =>
                          PeopleWaiting(etas, g, count) >= PeopleWaiting(etas, h, count)

(* The routes that expect a bus at a stop, by the newest feed stored.      *)
Expected(s) ==
    {RouteOf[r.trip] :
        r \in {x \in Newest(table) : x.stop = s /\ Arrival[x.trip][s] > now}}

(* The routes that expect a bus at a stop share its queue, up to rounding. *)
(* Three things make _compute_crowd_shares hand out more passengers than   *)
(* wait: the bus before, which has left the stop and whose row still comes *)
(* first in soonest_per_route, so that its route takes the whole queue     *)
(* while the others split it; a bus more than half a day ahead, which is   *)
(* taken for one of the day before; and a feed older than the window.      *)
OverlapHasCause ==
    \A s \in Stop :
        \/ Total(Competing(s), Expected(s), MaxCount) <= MaxCount + Cardinality(Expected(s))
        \/ \E r \in LatestPerTrip(s) :
              /\ RouteOf[r.trip] \in Expected(s)
              /\ Arrival[r.trip][s] - now \notin 1 .. DayLength \div 2
        \/ \A r \in table : r.time <= now - Window
=============================================================================
