------------------------ MODULE PredictionLoopProofs -------------------------
(***************************************************************************)
(* Theorems about the prediction loop, for any number of routes, any       *)
(* debounce time and interval, and any number of changes and faults.       *)
(***************************************************************************)
EXTENDS PredictionLoop, TLAPS

(* The smaller and the larger of two integers, as FiniteSetsExt has them.  *)
LEMMA MinMaxOfTwo ==
    ASSUME NEW a \in Int, NEW b \in Int
    PROVE  /\ Min({a, b}) \in {a, b} /\ Min({a, b}) <= a /\ Min({a, b}) <= b
           /\ Max({a, b}) \in {a, b} /\ Max({a, b}) >= a /\ Max({a, b}) >= b
<1>1. \E x \in {a, b} : \A y \in {a, b} : x <= y
    OBVIOUS
<1>2. \E x \in {a, b} : \A y \in {a, b} : x >= y
    OBVIOUS
<1> QED BY <1>1, <1>2 DEF Min, Max

(* The timeout of select is a natural number, one second at the most, and  *)
(* does not reach past the end of the interval.                            *)
LEMMA TimeoutBounds ==
    ASSUME ConstantsAssumption, age \in Nat, deadline \in Never .. Debounce,
           age <= Interval
    PROVE  SelectTimeout \in Nat /\ age + SelectTimeout <= Interval
<1>1. UntilInterval \in Nat /\ UntilInterval = Interval - age
    <2>1. 0 \in Int /\ Interval - age \in Int /\ Interval - age >= 0
        BY DEF ConstantsAssumption
    <2>2. Max({0, Interval - age}) \in {0, Interval - age} /\ Max({0, Interval - age}) >= Interval - age
        BY <2>1, MinMaxOfTwo
    <2> QED BY <2>1, <2>2 DEF UntilInterval
<1> DEFINE S == {1, UntilInterval} \cup ({deadline} \ {Never})
<1>2. S \subseteq Nat
    BY <1>1 DEF Never, ConstantsAssumption
<1>3. \E x \in S : \A y \in S : x <= y
    <2>1. CASE deadline = Never
        BY <1>1, <2>1
    <2>2. CASE deadline # Never
        <3>1. deadline \in Nat /\ S = {1, UntilInterval, deadline}
            BY <2>2 DEF Never, ConstantsAssumption
        <3> QED BY <1>1, <3>1
    <2> QED BY <2>1, <2>2
<1>4. Min(S) \in S /\ Min(S) <= UntilInterval
    BY <1>3 DEF Min
<1> QED BY <1>1, <1>2, <1>4 DEF SelectTimeout

-----------------------------------------------------------------------------
(* While the thread listens, a trigger of another process is in the        *)
(* connection until it is read, also before and during a cycle.            *)
NotYetRead ==
    /\ pc \in {"listening", "cycle"} /\ connected /\ external
    => Triggers(queue)

(* The routes that the cycle has passed are predicted.                     *)
DoneSoFar ==
    pc = "cycle" =>
        \A r \in Route \ skipped : r < next => predicted[r] >= covered

CoveredIsPast == covered <= db

(* What is left of the timeout stays within the interval.                  *)
WithinInterval == pc = "select" => age + timeout <= Interval

Parts ==
    /\ IntervalKept
    /\ WithinInterval
    /\ CoveredIsPast
    /\ DoneSoFar
    /\ CycleIsComplete
    /\ NotYetRead
    /\ TriggerIsPending

IInv == TypeOK /\ Parts

(* TypeOK in two halves, the Boolean flags and the rest.                   *)
Flags ==
    /\ shutdown \in BOOLEAN /\ connected \in BOOLEAN /\ pending \in BOOLEAN
    /\ external \in BOOLEAN

Ranges ==
    /\ pc \in {"start", "listening", "cycle", "top", "select", "backoff", "done"}
    /\ queue \subseteq Payload
    /\ deadline \in Never .. Debounce
    /\ age \in 0 .. Interval + 1
    /\ timeout \in Nat
    /\ next \in 1 .. Routes + 1
    /\ db \in 0 .. MaxChanges
    /\ predicted \in [Route -> 0 .. MaxChanges]
    /\ covered \in 0 .. MaxChanges
    /\ skipped \subseteq Route
    /\ faults \in 0 .. MaxFaults

(* The type invariant, split into what Zenon and what the SMT solver       *)
(* proves.                                                                 *)
LEMMA TypeHalves == TypeOK <=> Flags /\ Ranges
BY Zenon DEF TypeOK, Flags, Ranges

(* The assumptions on the constants, one by one.                           *)
LEMMA Constants ==
    /\ Routes \in Nat /\ Debounce \in Nat /\ Interval \in Nat
    /\ MaxChanges \in Nat /\ MaxFaults \in Nat
    /\ Debounce > 0 /\ Interval > 0
BY ConstantsAssumption DEF ConstantsAssumption

(* The initial state satisfies the invariant.                              *)
LEMMA InitInv == Init => IInv
<1> SUFFICES ASSUME Init PROVE IInv
    OBVIOUS
<1>1. Flags
    BY Zenon DEF Init, Flags
<1>2. Ranges
    <2>1. predicted \in [Route -> 0 .. MaxChanges]
        BY Constants DEF Init
    <2> QED BY <2>1, Constants DEF Init, Ranges, Never
<1>3. Parts
    BY Constants DEF Init, Parts, IntervalKept, WithinInterval, CoveredIsPast, DoneSoFar,
                     CycleIsComplete, NotYetRead, TriggerIsPending
<1> QED BY <1>1, <1>2, <1>3, TypeHalves DEF IInv

(* Every action keeps the flags Boolean.                                   *)
LEMMA NextFlags == ASSUME Flags, [Next]_vars PROVE Flags'
<1> USE DEF Flags, loopVars, cycleVars
<1>1. ASSUME NEW payload \in Payload \ {"predictions"}, Commit(payload) PROVE Flags'
    BY <1>1, Zenon DEF Commit
<1>2. CASE LoseConnection
    BY <1>2, Zenon DEF LoseConnection
<1>3. CASE Shutdown
    BY <1>3, Zenon DEF Shutdown
<1>4. CASE StartLoop
    BY <1>4, Zenon DEF StartLoop
<1>5. CASE InitialCycle
    BY <1>5, Zenon DEF InitialCycle
<1>6. CASE PredictRoute
    BY <1>6, Zenon DEF PredictRoute
<1>7. CASE RouteRaises
    BY <1>7, Zenon DEF RouteRaises
<1>8. CASE EndCycle
    BY <1>8, Zenon DEF EndCycle
<1>9. CASE TopOfLoop
    BY <1>9, Zenon DEF TopOfLoop, ComputeTimeout
<1>10. CASE Leave
    BY <1>10, Zenon DEF Leave
<1>11. CASE Tick
    BY <1>11, Zenon DEF Tick
<1>12. CASE Wake
    BY <1>12, Zenon DEF Wake, PendingAfter, Triggers
<1>13. CASE Crash
    BY <1>13, Zenon DEF Crash
<1>14. CASE StartOver
    BY <1>14, Zenon DEF StartOver
<1>15. CASE UNCHANGED vars
    BY <1>15, Zenon DEF vars
<1> QED
    BY <1>1, <1>2, <1>3, <1>4, <1>5, <1>6, <1>7, <1>8, <1>9, <1>10, <1>11, <1>12,
       <1>13, <1>14, <1>15, Zenon DEF Next, Thread

(* Every action keeps the other variables in range.                        *)
LEMMA NextRanges ==
    ASSUME Ranges, IntervalKept, [Next]_vars PROVE Ranges'
<1> USE Constants DEF Ranges, loopVars, cycleVars
<1>1. ASSUME NEW payload \in Payload \ {"predictions"}, Commit(payload) PROVE Ranges'
    BY <1>1 DEF Commit, Hear
<1>2. CASE LoseConnection
    BY <1>2 DEF LoseConnection
<1>3. CASE Shutdown
    BY <1>3 DEF Shutdown
<1>4. CASE StartLoop
    BY <1>4 DEF StartLoop
<1>5. CASE InitialCycle
    BY <1>5 DEF InitialCycle, BeginCycle
<1>6. CASE PredictRoute
    <2>1. "predictions" \in Payload /\ next \in Route
        BY <1>6 DEF PredictRoute, Payload, Route
    <2> QED BY <1>6, <2>1 DEF PredictRoute, NextRoute, Hear
<1>7. CASE RouteRaises
    <2>1. "predictions" \in Payload /\ next \in Route
        BY <1>7 DEF RouteRaises, Payload, Route
    <2> QED BY <1>7, <2>1 DEF RouteRaises, AfterRaise, NextRoute, Hear
<1>8. CASE EndCycle
    BY <1>8 DEF EndCycle, Never
<1>9. CASE TopOfLoop
    <2>1. SelectTimeout \in Nat
        BY <1>9, TimeoutBounds, ConstantsAssumption
           DEF IntervalKept, TopOfLoop, ComputeTimeout
    <2> QED BY <1>9, <2>1 DEF TopOfLoop, ComputeTimeout
<1>10. CASE Leave
    BY <1>10 DEF Leave
<1>11. CASE Tick
    <2>1. age + 1 \in Int /\ Interval + 1 \in Int
        OBVIOUS
    <2>2. Min({age + 1, Interval + 1}) \in 0 .. Interval + 1
        BY <2>1, MinMaxOfTwo
    <2> QED BY <1>11, <2>2 DEF Tick, Never
<1>12. CASE Wake
    <2>1. deadline' \in Never .. Debounce
        BY <1>12 DEF Wake, DeadlineAfter, Never
    <2>2. CASE CycleDue
        BY <1>12, <2>1, <2>2 DEF Wake, BeginCycle
    <2>3. CASE ~CycleDue
        BY <1>12, <2>1, <2>3 DEF Wake
    <2> QED BY <2>2, <2>3
<1>13. CASE Crash
    BY <1>13 DEF Crash
<1>14. CASE StartOver
    BY <1>14 DEF StartOver
<1>15. CASE UNCHANGED vars
    BY <1>15 DEF vars
<1> QED
    BY <1>1, <1>2, <1>3, <1>4, <1>5, <1>6, <1>7, <1>8, <1>9, <1>10, <1>11, <1>12,
       <1>13, <1>14, <1>15 DEF Next, Thread

(* What the loop promises about time.                                      *)
LEMMA NextTime ==
    ASSUME Ranges, IntervalKept, WithinInterval, [Next]_vars
    PROVE  IntervalKept' /\ WithinInterval'
<1> USE Constants
<1>1. CASE UNCHANGED <<pc, loopVars>>
    BY <1>1 DEF IntervalKept, WithinInterval, loopVars
<1>2. CASE pc' \notin {"top", "select"}
    BY <1>2 DEF IntervalKept, WithinInterval
<1>3. CASE EndCycle
    BY <1>3 DEF EndCycle, IntervalKept, WithinInterval
<1>4. CASE TopOfLoop
    <2>1. age + SelectTimeout <= Interval
        BY <1>4, TimeoutBounds, ConstantsAssumption DEF Ranges, IntervalKept, TopOfLoop, ComputeTimeout
    <2> QED BY <1>4, <2>1 DEF TopOfLoop, ComputeTimeout, IntervalKept, WithinInterval
<1>5. CASE Tick
    <2>1. age + timeout <= Interval /\ timeout > 0 /\ timeout \in Nat /\ age \in Nat
        BY <1>5 DEF Ranges, Tick, WithinInterval
    <2>2. age + 1 \in Int /\ Interval + 1 \in Int
        BY <2>1
    <2>3. age' <= age + 1 /\ age' \in Int
        BY <1>5, <2>2, MinMaxOfTwo DEF Tick
    <2> QED BY <1>5, <2>1, <2>3 DEF Tick, IntervalKept, WithinInterval
<1>6. CASE Wake /\ ~CycleDue
    BY <1>6 DEF Wake, IntervalKept, WithinInterval
<1> QED
    <2>1. ASSUME NEW payload \in Payload, Commit(payload) PROVE UNCHANGED <<pc, loopVars>>
        BY <2>1 DEF Commit
    <2>2. LoseConnection \/ Shutdown \/ PredictRoute \/ RouteRaises
            => UNCHANGED <<pc, loopVars>>
        BY DEF LoseConnection, Shutdown, PredictRoute, RouteRaises
    <2>3. StartLoop \/ InitialCycle \/ Leave \/ Crash \/ StartOver \/ (Wake /\ CycleDue)
            => pc' \notin {"top", "select"}
        BY DEF StartLoop, InitialCycle, Leave, Crash, StartOver, Wake, BeginCycle
    <2> QED BY <1>1, <1>2, <1>3, <1>4, <1>5, <1>6, <2>1, <2>2, <2>3
            DEF Next, Thread, vars
(* The predictions of a cycle are complete as far as it has gone.          *)
LEMMA NextCycle ==
    ASSUME Ranges, CoveredIsPast, DoneSoFar, CycleIsComplete, [Next]_vars
    PROVE  CoveredIsPast' /\ DoneSoFar' /\ CycleIsComplete'
<1> USE DEF CoveredIsPast, DoneSoFar, CycleIsComplete
<1>1. CASE UNCHANGED <<pc, db, cycleVars>>
    BY <1>1 DEF cycleVars
<1>2. ASSUME NEW payload \in Payload \ {"predictions"}, Commit(payload)
      PROVE  CoveredIsPast' /\ DoneSoFar' /\ CycleIsComplete'
    BY <1>2 DEF Commit, Ranges, cycleVars
<1>3. CASE pc' \notin {"cycle", "top", "select"} /\ UNCHANGED <<db, covered>>
    BY <1>3
<1>4. CASE BeginCycle /\ UNCHANGED db
    BY <1>4 DEF BeginCycle, Ranges, Route
<1>5. CASE PredictRoute
    BY <1>5 DEF PredictRoute, NextRoute, Ranges, Route
<1>6. CASE RouteRaises
    <2>1. /\ pc = "cycle" /\ pc' = "cycle" /\ UNCHANGED <<covered, db>>
          /\ next \in Nat /\ next' = next + 1
          /\ skipped' = skipped \cup {next}
        BY <1>6 DEF RouteRaises, AfterRaise, NextRoute, Ranges
    <2>2. \A r \in Route : r # next => predicted'[r] = predicted[r]
        BY <1>6 DEF RouteRaises, Ranges
    <2>3. \A r \in Route \ skipped' : r < next' => r \in Route \ skipped /\ r < next /\ r # next
        BY <2>1 DEF Route
    <2> QED BY <2>1, <2>2, <2>3
<1>7. CASE EndCycle
    <2>1. \A r \in Route : r < next
        BY <1>7, Constants DEF EndCycle, Ranges, Route
    <2> QED BY <1>7, <2>1 DEF EndCycle, cycleVars
<1>8. CASE /\ pc \in {"top", "select"} /\ pc' \in {"top", "select"}
           /\ UNCHANGED <<db, cycleVars>>
    BY <1>8 DEF cycleVars
<1> QED
    <2>1. LoseConnection \/ Shutdown => UNCHANGED <<pc, db, cycleVars>>
        BY DEF LoseConnection, Shutdown
    <2>2. StartLoop \/ Leave \/ Crash \/ StartOver
            => pc' \notin {"cycle", "top", "select"} /\ UNCHANGED <<db, covered>>
        BY DEF StartLoop, Leave, Crash, StartOver, cycleVars
    <2>3. InitialCycle \/ (Wake /\ CycleDue) => BeginCycle /\ UNCHANGED db
        BY DEF InitialCycle, Wake
    <2>4. TopOfLoop \/ Tick \/ (Wake /\ ~CycleDue)
            => /\ pc \in {"top", "select"} /\ pc' \in {"top", "select"}
               /\ UNCHANGED <<db, cycleVars>>
        BY DEF TopOfLoop, ComputeTimeout, Tick, Wake
    <2> QED BY <1>1, <1>2, <1>3, <1>4, <1>5, <1>6, <1>7, <1>8, <2>1, <2>2, <2>3, <2>4
            DEF Next, Thread, vars

(* A trigger goes from the connection to pending and from there to a cycle. *)
LEMMA NextTrigger ==
    ASSUME Ranges, Flags, NotYetRead, TriggerIsPending, [Next]_vars
    PROVE  NotYetRead' /\ TriggerIsPending'
<1> USE DEF NotYetRead, TriggerIsPending, Triggers
<1>1. CASE UNCHANGED <<pc, connected, queue, loopVars, external>>
    BY <1>1 DEF loopVars
<1>2. ASSUME NEW payload \in Payload \ {"predictions"}, Commit(payload)
      PROVE  NotYetRead' /\ TriggerIsPending'
    BY <1>2 DEF Commit, Hear, loopVars
<1>3. CASE connected' = FALSE \/ pc' \notin {"listening", "cycle", "top", "select"}
    BY <1>3
<1>4. CASE external' = FALSE
    BY <1>4
<1>5. CASE InitialCycle
    BY <1>5 DEF InitialCycle, BeginCycle
<1>6. CASE PredictRoute \/ RouteRaises
    BY <1>6 DEF PredictRoute, RouteRaises, Hear
<1>7. CASE EndCycle
    BY <1>7 DEF EndCycle
<1>8. CASE TopOfLoop
    BY <1>8 DEF TopOfLoop, ComputeTimeout
<1>9. CASE Tick
    BY <1>9, Constants DEF Tick, Ranges, Never
<1>10. CASE Wake /\ ~CycleDue
    <2>1. pc = "select" /\ pc' = "top" /\ UNCHANGED <<connected, external>>
        BY <1>10 DEF Wake
    <2>2. CASE Triggers(queue)
        <3>1. pending' = TRUE
            BY <1>10, <2>2, Zenon DEF Wake, PendingAfter
        <3>2. deadline' = Debounce /\ Debounce # Never
            BY <1>10, <2>2, Constants DEF Wake, DeadlineAfter, Never
        <3> QED BY <2>1, <3>1, <3>2
    <2>3. CASE ~Triggers(queue)
        <3>1. pending' = pending /\ deadline' = deadline
            BY <1>10, <2>3, Zenon DEF Wake, PendingAfter, DeadlineAfter, Flags
        <3> QED BY <2>1, <2>3, <3>1
    <2> QED BY <2>2, <2>3
<1> QED
    <2>1. Shutdown => UNCHANGED <<pc, connected, queue, loopVars, external>>
        BY DEF Shutdown
    <2>2. LoseConnection \/ Leave \/ Crash \/ StartOver
            => connected' = FALSE \/ pc' \notin {"listening", "cycle", "top", "select"}
        BY DEF LoseConnection, Leave, Crash, StartOver
    <2>3. StartLoop \/ (Wake /\ CycleDue) => external' = FALSE
        BY DEF StartLoop, Wake
    <2> QED BY <1>1, <1>2, <1>3, <1>4, <1>5, <1>6, <1>7, <1>8, <1>9, <1>10, <2>1, <2>2,
               <2>3 DEF Next, Thread, vars

(* IInv is an invariant.                                                   *)
LEMMA InductiveInvariant == Spec => []IInv
<1>1. ASSUME IInv, [Next]_vars PROVE IInv'
    <2>1. Flags /\ Ranges /\ Parts
        BY <1>1, TypeHalves DEF IInv
    <2>2. Flags' /\ Ranges'
        BY <1>1, <2>1, NextFlags, NextRanges DEF Parts
    <2>3. Parts'
        BY <1>1, <2>1, NextTime, NextCycle, NextTrigger DEF Parts
    <2>4. TypeOK'
        BY <2>2, TypeHalves, PTL
    <2> QED BY <2>3, <2>4 DEF IInv
<1> QED BY <1>1, InitInv, PTL DEF Spec

(* The type invariant of the loop, for all values of the constants.        *)
THEOREM LoopTypeCorrect == Spec => []TypeOK
BY InductiveInvariant, PTL DEF IInv

(* _prediction_thread never goes without a cycle for longer than the       *)
(* interval, however many changes put the debounce deadline off.           *)
THEOREM NoStarvation == Spec => []IntervalKept
BY InductiveInvariant, PTL DEF IInv, Parts

(* _run_cycle predicts every route that does not itself raise, from a      *)
(* state no older than the one the cycle started in.                       *)
THEOREM OneFailureOneRoute == Spec => []CycleIsComplete
BY InductiveInvariant, PTL DEF IInv, Parts

(* No trigger of another process is lost between LISTEN, the connection    *)
(* and the debounce timer, also when it arrives while a cycle runs.        *)
THEOREM NoTriggerForgotten == Spec => []TriggerIsPending
BY InductiveInvariant, PTL DEF IInv, Parts
-----------------------------------------------------------------------------
(* What makes the loop predict comes from outside: a pending change, or a  *)
(* trigger waiting in the connection, is one of another process.           *)
ReadHasCause ==
    pc \in {"top", "select"} /\ pending => external

WaitingHasCause ==
    /\ pc \in {"listening", "cycle", "top", "select"}
    /\ Triggers(queue)
    => external

(* The thread's own notifications are no triggers.                         *)
LEMMA NextCause ==
    ASSUME ReadHasCause, WaitingHasCause, [Next]_vars
    PROVE  ReadHasCause' /\ WaitingHasCause'
<1> USE DEF ReadHasCause, WaitingHasCause, Triggers
<1>1. CASE UNCHANGED <<pc, queue, pending, external>>
    BY <1>1
<1>2. ASSUME NEW payload \in Payload \ {"predictions"}, Commit(payload)
      PROVE  ReadHasCause' /\ WaitingHasCause'
    BY <1>2 DEF Commit, Hear, loopVars
<1>3. CASE pc' \notin {"listening", "cycle", "top", "select"}
    BY <1>3
<1>4. CASE queue' = {} /\ UNCHANGED <<pc, pending, external>>
    BY <1>4
<1>5. CASE StartLoop
    BY <1>5 DEF StartLoop
<1>6. CASE InitialCycle
    BY <1>6 DEF InitialCycle, BeginCycle
<1>7. CASE PredictRoute \/ RouteRaises
    BY <1>7 DEF PredictRoute, RouteRaises, Hear, Trigger, loopVars
<1>8. CASE EndCycle
    BY <1>8 DEF EndCycle
<1>9. CASE TopOfLoop
    BY <1>9 DEF TopOfLoop, ComputeTimeout
<1>10. CASE Wake
    <2>1. queue' = {} /\ pc = "select" /\ (pc' = "cycle" \/ (pc' = "top" /\ external' = external))
        BY <1>10 DEF Wake, BeginCycle
    <2>2. pending' => pending \/ Triggers(queue)
        BY <1>10, Zenon DEF Wake, PendingAfter
    <2> QED BY <2>1, <2>2
<1> QED
    <2>1. Shutdown \/ Tick => UNCHANGED <<pc, queue, pending, external>>
        BY DEF Shutdown, Tick, loopVars
    <2>2. Leave \/ Crash \/ StartOver
            => pc' \notin {"listening", "cycle", "top", "select"}
        BY DEF Leave, Crash, StartOver
    <2>3. LoseConnection => queue' = {} /\ UNCHANGED <<pc, pending, external>>
        BY DEF LoseConnection, loopVars
    <2> QED BY <1>1, <1>2, <1>3, <1>4, <1>5, <1>6, <1>7, <1>8, <1>9, <1>10, <2>1, <2>2,
               <2>3 DEF Next, Thread, vars, loopVars

(* The predictions that _run_cycle writes notify the thread itself, but    *)
(* never make it predict again: select is followed by a cycle only after a *)
(* full interval or after a trigger of another process.                    *)
THEOREM NoSelfTriggering == Spec => CyclesHaveCause
<1>1. Init => ReadHasCause /\ WaitingHasCause
    BY DEF Init, ReadHasCause, WaitingHasCause
<1>2. ASSUME ReadHasCause, WaitingHasCause, Next, pc = "select", pc' = "cycle"
      PROVE  age >= Interval \/ external
    <2>1. Wake
        BY <1>2 DEF Next, Thread, Commit, LoseConnection, Shutdown, StartLoop, InitialCycle,
           PredictRoute, RouteRaises, EndCycle, TopOfLoop, ComputeTimeout, Leave, Tick,
           Crash, StartOver
    <2>2. CycleDue
        BY <1>2, <2>1 DEF Wake
    <2> QED BY <1>2, <2>2 DEF CycleDue, PendingAfter, ReadHasCause, WaitingHasCause
<1>3. ReadHasCause /\ WaitingHasCause /\ [Next]_vars
        => [pc = "select" /\ pc' = "cycle" => age >= Interval \/ external]_vars
    BY <1>2
<1> QED BY <1>1, <1>3, NextCause, PTL DEF Spec, CyclesHaveCause
=============================================================================
