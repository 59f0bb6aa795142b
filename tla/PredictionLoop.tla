--------------------------- MODULE PredictionLoop ----------------------------
(***************************************************************************)
(* _prediction_thread of the runtime supervisor: LISTEN for changes, wait  *)
(* until they stop for Debounce seconds, predict every route; predict      *)
(* anyway after Interval seconds; start over when anything raises.         *)
(*                                                                         *)
(* Time is counted in units of the select timeout of one second.  The      *)
(* state of the database is the number of changes committed by others;     *)
(* the thread's own writes notify as well, with other payloads.            *)
(***************************************************************************)
EXTENDS Integers, FiniteSetsExt

CONSTANTS
    Routes,       \* number of route-directions, predicted in order
    Debounce,     \* PREDICTION_DEBOUNCE
    Interval,     \* PREDICTION_CYCLE_INTERVAL
    MaxChanges,   \* bound on changes by other writers
    MaxFaults     \* bound on exceptions and lost connections

ASSUME ConstantsAssumption ==
    /\ {Routes, Debounce, Interval, MaxChanges, MaxFaults} \subseteq Nat
    /\ Debounce > 0 /\ Interval > 0

VARIABLES
    pc,         \* "start", "listening", "cycle", "top" of the loop, "select",
                \* "backoff", "done"
    shutdown,   \* _shutdown is set
    connected,  \* listen_conn works (nobody is told when it stops working)
    queue,      \* notifications waiting in listen_conn
    pending,
    deadline,   \* debounce_deadline - now, or -1 for None
    age,        \* now - last_cycle
    timeout,    \* what is left of the select timeout
    next,       \* the route _run_cycle is at
    db,         \* changes committed
    (* history *)
    predicted,  \* the state each route's latest prediction was computed from
                \* (write_predictions logs it when it cannot store one)
    covered,    \* the state at the start of the latest cycle
    skipped,    \* routes whose prediction raised in the latest cycle
    external,   \* another writer's trigger since LISTEN or the start of a cycle
                \* in the loop
    faults

loopVars == <<pending, deadline, age, timeout>>
cycleVars == <<next, predicted, covered, skipped>>
vars == <<pc, shutdown, connected, queue, loopVars, cycleVars, db, external, faults>>

Route == 1 .. Routes
Never == -1

(* Payloads of dashboard_update: _TRIGGER_PAYLOADS, and the ones of the    *)
(* other writes, the thread's own predictions among them.                  *)
Trigger == {"crowd_count", "gtfs_trip_updates"}
Payload == Trigger \cup {"predictions", "vehicle"}

Init ==
    /\ pc = "start" /\ shutdown = FALSE
    /\ connected = FALSE /\ queue = {}
    /\ pending = FALSE /\ deadline = Never /\ age = 0 /\ timeout = 0
    /\ next = 1
    /\ db = 0
    /\ predicted = [r \in Route |-> 0] /\ covered = 0 /\ skipped = {}
    /\ external = FALSE /\ faults = 0

Hear(payload) == IF connected THEN queue \cup {payload} ELSE queue

-----------------------------------------------------------------------------
(* Another process commits a change.                                       *)
Commit(payload) ==
    /\ db < MaxChanges
    /\ db' = db + 1
    /\ queue' = Hear(payload)
    /\ external' = (external \/ payload \in Trigger)
    /\ UNCHANGED <<pc, shutdown, connected, loopVars, cycleVars, faults>>

(* The connection stops delivering; select will time out from now on.      *)
LoseConnection ==
    /\ connected
    /\ faults < MaxFaults
    /\ faults' = faults + 1
    /\ connected' = FALSE
    /\ queue' = {}
    /\ UNCHANGED <<pc, shutdown, loopVars, cycleVars, db, external>>

Shutdown ==
    /\ ~shutdown
    /\ shutdown' = TRUE
    /\ UNCHANGED <<pc, connected, queue, loopVars, cycleVars, db, external, faults>>

-----------------------------------------------------------------------------
(* The thread                                                              *)

BeginCycle ==
    /\ pc' = "cycle"
    /\ next' = 1
    /\ covered' = db
    /\ skipped' = {}
    /\ UNCHANGED predicted

(* Pool, engine and LISTEN: changes made before it are not announced.      *)
StartLoop ==
    /\ pc = "start" /\ ~shutdown
    /\ pc' = "listening"
    /\ connected' = TRUE
    /\ queue' = {}
    /\ external' = FALSE
    /\ UNCHANGED <<shutdown, loopVars, cycleVars, db, faults>>

(* The routes are loaded and all predicted, whatever has been announced.   *)
InitialCycle ==
    /\ pc = "listening"
    /\ BeginCycle
    /\ UNCHANGED <<shutdown, connected, queue, loopVars, db, external, faults>>

NextRoute == next + 1

(* One route of _run_cycle: build, predict, write, evaluate.  A route      *)
(* without a snapshot or without vehicles is skipped, after reading the    *)
(* state that makes it so.                                                 *)
PredictRoute ==
    /\ pc = "cycle" /\ next <= Routes
    /\ predicted' = [predicted EXCEPT ![next] = db]
    /\ next' = NextRoute
    /\ \/ queue' = Hear("predictions")
       \/ UNCHANGED queue
    /\ UNCHANGED <<pc, shutdown, connected, loopVars, covered, skipped, db, external,
                   faults>>

StopCycle == Routes + 1

AfterRaise == NextRoute

(* It raises, before or after its predictions are written; the other       *)
(* routes are still predicted.                                             *)
RouteRaises ==
    /\ pc = "cycle" /\ next <= Routes
    /\ faults < MaxFaults
    /\ faults' = faults + 1
    /\ next' = AfterRaise
    /\ skipped' = skipped \cup {next}
    /\ \/ /\ predicted' = [predicted EXCEPT ![next] = db]
          /\ queue' = Hear("predictions")
       \/ UNCHANGED <<predicted, queue>>
    /\ UNCHANGED <<pc, shutdown, connected, loopVars, covered, db, external>>

EndCycleDraining ==
    /\ pc = "cycle" /\ next > Routes
    /\ pc' = "top"
    /\ age' = 0 /\ pending' = FALSE /\ deadline' = Never
    /\ queue' = {}
    /\ UNCHANGED <<shutdown, connected, timeout, cycleVars, db, external, faults>>

(* last_cycle = now; pending and the deadline are cleared, as they are     *)
(* before the loop.                                                        *)
EndCycle ==
    /\ pc = "cycle" /\ next > Routes
    /\ pc' = "top"
    /\ age' = 0 /\ pending' = FALSE /\ deadline' = Never
    /\ UNCHANGED <<shutdown, connected, queue, timeout, cycleVars, db, external,
                   faults>>

UntilInterval == Max({0, Interval - age})

DebounceFirst == IF deadline = Never THEN UntilInterval ELSE deadline

SelectTimeout == Min({1, UntilInterval} \cup ({deadline} \ {Never}))

ComputeTimeout ==
    /\ pc = "top"
    /\ pc' = "select"
    /\ timeout' = SelectTimeout
    /\ UNCHANGED <<shutdown, connected, queue, pending, deadline, age, cycleVars, db,
                   external, faults>>

(* while not _shutdown.is_set(): the timeout for select                    *)
TopOfLoop == ~shutdown /\ ComputeTimeout

Leave ==
    /\ pc \in {"start", "top", "backoff"}
    /\ shutdown
    /\ pc' = "done"
    /\ connected' = FALSE /\ queue' = {}
    /\ UNCHANGED <<shutdown, loopVars, cycleVars, db, external, faults>>

(* A second passes.                                                        *)
Tick ==
    /\ pc = "select" /\ timeout > 0 /\ queue = {}
    /\ timeout' = timeout - 1
    /\ age' = Min({age + 1, Interval + 1})
    /\ deadline' = IF deadline > 0 THEN deadline - 1 ELSE deadline
    /\ UNCHANGED <<pc, shutdown, connected, queue, pending, cycleVars, db, external,
                   faults>>

AnyPayload(q) == q # {}

Triggers(q) == q \cap Trigger # {}

PendingAfter == pending \/ Triggers(queue)

DeadlineAfter == IF Triggers(queue) THEN Debounce ELSE deadline

DebounceOnly == PendingAfter /\ DeadlineAfter = 0

(* The two conditions under which select is followed by a cycle.           *)
CycleDue == (PendingAfter /\ DeadlineAfter = 0) \/ age >= Interval

(* select returns; the notifications are read.                             *)
Wake ==
    /\ pc = "select"
    /\ queue # {} \/ timeout = 0
    /\ queue' = {}
    /\ pending' = PendingAfter
    /\ deadline' = DeadlineAfter
    /\ \/ /\ CycleDue
          /\ BeginCycle
          /\ external' = FALSE
       \/ /\ ~CycleDue
          /\ pc' = "top"
          /\ UNCHANGED <<cycleVars, external>>
    /\ UNCHANGED <<shutdown, connected, age, timeout, db, faults>>

(* poll() raises (or the set-up does): everything is closed, five seconds  *)
(* later the thread starts over.                                           *)
Crash ==
    /\ \/ pc = "start" /\ ~shutdown
       \/ pc \in {"listening", "select"}
    /\ faults < MaxFaults
    /\ faults' = faults + 1
    /\ pc' = "backoff"
    /\ connected' = FALSE /\ queue' = {}
    /\ UNCHANGED <<shutdown, loopVars, cycleVars, db, external>>

StartOver ==
    /\ pc = "backoff" /\ ~shutdown
    /\ pc' = "start"
    /\ UNCHANGED <<shutdown, connected, queue, loopVars, cycleVars, db, external, faults>>

Thread ==
    \/ StartLoop \/ InitialCycle \/ PredictRoute \/ EndCycle \/ TopOfLoop \/ Leave \/ Wake \/ StartOver

Next ==
    \/ \E payload \in Payload \ {"predictions"} : Commit(payload)
    \/ LoseConnection
    \/ Shutdown
    \/ Thread
    \/ RouteRaises
    \/ Tick
    \/ Crash

(* The thread runs and time passes; faults and shutdowns need not happen.  *)
Fairness == WF_vars(Thread) /\ WF_vars(Tick)

Spec == Init /\ [][Next]_vars

FairSpec == Spec /\ Fairness

-----------------------------------------------------------------------------
(* Every variable keeps its type.                                          *)
TypeOK ==
    /\ pc \in {"start", "listening", "cycle", "top", "select", "backoff", "done"}
    /\ shutdown \in BOOLEAN /\ connected \in BOOLEAN /\ pending \in BOOLEAN
    /\ external \in BOOLEAN
    /\ queue \subseteq Payload
    /\ deadline \in Never .. Debounce
    /\ age \in 0 .. Interval + 1
    /\ timeout \in Nat
    /\ next \in 1 .. Routes + 1
    /\ db \in 0 .. MaxChanges
    /\ predicted \in [Route -> 0 .. MaxChanges]
    /\ covered \in 0 .. MaxChanges
    /\ skipped \subseteq Route
    /\ faults \in 0 .. MaxFaults

(* However often new changes put the debounce deadline off, the loop never *)
(* goes without a cycle for longer than the interval.                      *)
IntervalKept ==
    pc \in {"top", "select"} => age <= Interval

(* When a cycle is over, every route whose prediction did not raise has    *)
(* been predicted from a state at least as new as the one at its start:    *)
(* one failing route takes no other with it.                               *)
CycleIsComplete ==
    pc \in {"top", "select"} =>
        \A r \in Route \ skipped : predicted[r] >= covered

(* A debounced change is not forgotten: while the connection works, a      *)
(* trigger that came after the start of the latest cycle is waiting in the *)
(* connection or pending with a deadline.                                  *)
TriggerIsPending ==
    /\ pc \in {"top", "select"} /\ connected /\ external
    => Triggers(queue) \/ (pending /\ deadline # Never)

(* The thread does not wake itself up: between two cycles there is either  *)
(* a full interval or a trigger of another process, never only the         *)
(* notifications of its own predictions.                                   *)
CyclesHaveCause ==
    [][pc = "select" /\ pc' = "cycle" => age >= Interval \/ external]_vars

(* Whatever raises and even if the connection goes quiet, every change     *)
(* ends up in a prediction of every route, unless the supervisor shuts     *)
(* down.                                                                   *)
EventuallyPredicted ==
    \A v \in 1 .. MaxChanges :
        db >= v ~> shutdown \/ \A r \in Route : predicted[r] >= v

(* A shutdown is noticed in every phase.                                   *)
ShutdownEnds == shutdown ~> pc = "done"
=============================================================================
