-------------------------- MODULE SupervisorProofs ---------------------------
(***************************************************************************)
(* However often its workers crash, the supervisor has each of them up     *)
(* again within one poll and one backoff per worker.                       *)
(*                                                                         *)
(* The argument follows main around its loop.  A pass over the workers     *)
(* spends at most one backoff, MaxBackoff, on each.  A worker that main    *)
(* has passed was up at that moment, so it has been down for no longer     *)
(* than the backoffs since; one that main has yet to reach has also waited *)
(* for the end of the last pass and for the poll.                          *)
(*                                                                         *)
(* And when main exits, it has stopped them all.                           *)
(***************************************************************************)
EXTENDS Supervisor, TLAPS

(* The time k backoffs take at most.                                       *)
Backoffs(k) == k * MaxBackoff

Types ==
    /\ i \in Nat \ {0} /\ timer \in Nat
    /\ worker \in [Worker -> {"none", "up", "dead"}]
    /\ backoff \in [Worker -> 0 .. MaxBackoff]
    /\ downFor \in [Worker -> Nat]

(* Where main is before a shutdown.                                        *)
Place ==
    \/ pc = "start" /\ i \in Worker /\ timer = 0
    \/ pc = "poll" /\ timer <= Poll
    \/ pc = "check" /\ i \in 1 .. N + 1 /\ timer = 0
    \/ pc = "backoff" /\ i \in Worker /\ timer <= MaxBackoff
    \/ pc = "restart" /\ i \in Worker /\ timer = 0
    \/ pc = "raised" /\ timer = 0

(* The part of the backoff of worker i that is over.                       *)
Spent == CASE pc = "backoff" -> MaxBackoff - timer
           [] pc = "restart" -> MaxBackoff
           [] OTHER -> 0

(* How long a worker can have been down when main comes to worker j.       *)
Ahead(w, j) == IF w < j THEN Backoffs(j - 1 - w) ELSE Poll + Backoffs(N - w + j - 1)

(* How long it can have been down now.                                     *)
Bound(w) ==
    CASE pc = "start" -> 0
      [] pc = "poll" -> Backoffs(N - w) + Poll - timer
      [] OTHER -> Spent + Ahead(w, i)

Waits == \A w \in Worker : downFor[w] <= Bound(w)

(* Only the dead are waited for.                                           *)
OnlyDeadWait == \A w \in Worker : worker[w] # "dead" => downFor[w] = 0

IInv ==
    /\ Types /\ OnlyDeadWait
    /\ ~ shutdown => Place
    /\ ~ shutdown /\ pc # "raised" => Waits

-----------------------------------------------------------------------------
(* What SupervisorAssumption says of each constant.                        *)
LEMMA ConstantsAreNat ==
    /\ N \in Nat /\ Poll \in Nat /\ Base \in Nat /\ MaxBackoff \in Nat
    /\ StopWait \in Nat /\ JoinWait \in Nat
    /\ N > 0 /\ Base > 0 /\ Base <= MaxBackoff
  BY SupervisorAssumption

(* Backoffs adds up and grows.                                             *)
LEMMA BackoffsFacts ==
    /\ Backoffs(0) = 0
    /\ \A k \in Nat : Backoffs(k) \in Nat /\ Backoffs(k + 1) = Backoffs(k) + MaxBackoff
    /\ \A k \in Nat : \A m \in 0 .. k : Backoffs(m) <= Backoffs(k)
<1>1. MaxBackoff \in Nat
  BY SupervisorAssumption
<1>2. Backoffs(0) = 0
  BY <1>1 DEF Backoffs
<1>3. \A k \in Nat : Backoffs(k) \in Nat /\ Backoffs(k + 1) = Backoffs(k) + MaxBackoff
  BY <1>1 DEF Backoffs
<1>4. ASSUME NEW k \in Nat, NEW m \in 0 .. k PROVE Backoffs(m) <= Backoffs(k)
  <2>1. PICK d \in Nat : k = m + d
    <3> DEFINE d == k - m
    <3> WITNESS d \in Nat
    <3> QED
      OBVIOUS
  <2>2. Backoffs(k) = Backoffs(m) + Backoffs(d)
    BY <1>1, <2>1 DEF Backoffs
  <2> QED
    BY <1>3, <2>2
<1> QED
  BY <1>2, <1>3, <1>4

(* What main's next step along the workers adds to the bound of each.      *)
LEMMA AheadFacts ==
    ASSUME NEW w \in Worker
    PROVE  /\ \A j \in 1 .. N + 1 : Ahead(w, j) \in Nat
           /\ \A j \in 1 .. N : w # j => Ahead(w, j + 1) = Ahead(w, j) + MaxBackoff
           /\ \A j \in 1 .. N : Ahead(w, j) + MaxBackoff <= Poll + Backoffs(N)
           /\ Ahead(w, 1) = Poll + Backoffs(N - w)
           /\ Ahead(w, w + 1) = 0
           /\ Ahead(w, N + 1) = Backoffs(N - w)
           /\ Backoffs(N - w) \in Nat /\ Backoffs(N - w) <= Backoffs(N)
           /\ Backoffs(N) \in Nat
<1> USE ConstantsAreNat DEF Worker
<1>1. ASSUME NEW j \in 1 .. N + 1 PROVE Ahead(w, j) \in Nat
  <2>1. CASE w < j
    <3>1. j - 1 - w \in Nat
      BY <2>1
    <3> QED
      BY <2>1, <3>1, BackoffsFacts DEF Ahead
  <2>2. CASE ~ (w < j)
    <3>1. N - w + j - 1 \in Nat
      BY <2>2
    <3>2. Backoffs(N - w + j - 1) \in Nat
      BY <3>1, BackoffsFacts
    <3> QED
      BY <2>2, <3>2 DEF Ahead
  <2> QED
    BY <2>1, <2>2
<1>2. ASSUME NEW j \in 1 .. N, w # j PROVE Ahead(w, j + 1) = Ahead(w, j) + MaxBackoff
  <2>1. CASE w < j
    <3>1. j - 1 - w \in Nat /\ (j + 1) - 1 - w = (j - 1 - w) + 1 /\ w < j + 1
      BY <2>1
    <3>2. Backoffs(j - 1 - w) \in Nat
      BY <3>1, BackoffsFacts
    <3>3. Backoffs((j + 1) - 1 - w) = Backoffs(j - 1 - w) + MaxBackoff
      BY <3>1, BackoffsFacts
    <3> QED
      BY <2>1, <3>1, <3>2, <3>3 DEF Ahead
  <2>2. CASE ~ (w < j)
    <3>1. N - w + j - 1 \in Nat /\ N - w + (j + 1) - 1 = (N - w + j - 1) + 1
      BY <2>2
    <3>2. ~ (w < j + 1)
      BY <1>2, <2>2
    <3>3. Backoffs(N - w + (j + 1) - 1) = Backoffs(N - w + j - 1) + MaxBackoff
      BY <3>1, BackoffsFacts
    <3>4. Backoffs(N - w + j - 1) \in Nat
      BY <3>1, BackoffsFacts
    <3> QED
      BY <2>2, <3>2, <3>3, <3>4 DEF Ahead
  <2> QED
    BY <2>1, <2>2
<1>3. ASSUME NEW j \in 1 .. N PROVE Ahead(w, j) + MaxBackoff <= Poll + Backoffs(N)
  <2>1. CASE w < j
    <3>1. j - 1 - w \in Nat /\ (j - 1 - w) + 1 \in 0 .. N
      BY <2>1
    <3>2. Backoffs(j - 1 - w) + MaxBackoff <= Backoffs(N)
      BY <3>1, BackoffsFacts
    <3> QED
      BY <2>1, <3>1, <3>2, BackoffsFacts DEF Ahead
  <2>2. CASE ~ (w < j)
    <3>1. N - w + j - 1 \in Nat /\ (N - w + j - 1) + 1 \in 0 .. N
      BY <2>2
    <3>2. Backoffs(N - w + j - 1) + MaxBackoff <= Backoffs(N)
      BY <3>1, BackoffsFacts
    <3> QED
      BY <2>2, <3>1, <3>2, BackoffsFacts DEF Ahead
  <2> QED
    BY <2>1, <2>2
<1>4. /\ Ahead(w, 1) = Poll + Backoffs(N - w)
      /\ Ahead(w, w + 1) = 0
      /\ Ahead(w, N + 1) = Backoffs(N - w)
  <2>1. /\ ~ (w < 1) /\ N - w + 1 - 1 = N - w
        /\ w < w + 1 /\ (w + 1) - 1 - w = 0
        /\ w < N + 1 /\ (N + 1) - 1 - w = N - w
    OBVIOUS
  <2> QED
    BY <2>1, BackoffsFacts DEF Ahead
<1>5. /\ Backoffs(N - w) \in Nat /\ Backoffs(N - w) <= Backoffs(N)
      /\ Backoffs(N) \in Nat
  <2>1. N - w \in Nat /\ N - w \in 0 .. N
    OBVIOUS
  <2> QED
    BY <2>1, BackoffsFacts
<1> QED
  BY <1>1, <1>2, <1>3, <1>4, <1>5

(* Every step keeps the types, and lets no worker wait that is not dead.   *)
LEMMA StepTypes ==
    ASSUME Types, OnlyDeadWait, [Next]_vars PROVE Types' /\ OnlyDeadWait'
<1> USE ConstantsAreNat DEF Types, OnlyDeadWait, Worker, Goto
<1>0. ASSUME NEW after \in 0 .. MaxBackoff, Launch(after)
      PROVE  /\ worker' \in [Worker -> {"none", "up", "dead"}]
             /\ backoff' \in [Worker -> 0 .. MaxBackoff]
             /\ downFor' \in [Worker -> Nat]
             /\ OnlyDeadWait'
  <2>1. worker' \in [Worker -> {"none", "up", "dead"}]
    BY <1>0 DEF Launch
  <2>2. backoff' \in [Worker -> 0 .. MaxBackoff]
    BY <1>0 DEF Launch
  <2>3. downFor' \in [Worker -> Nat]
    BY <1>0 DEF Launch
  <2>4. OnlyDeadWait'
    BY <1>0 DEF Launch
  <2> QED
    BY <2>1, <2>2, <2>3, <2>4
<1>1. CASE StartWorker
  <2>1. i' \in Nat \ {0} /\ timer' \in Nat
    BY <1>1 DEF StartWorker
  <2>2. Launch(Base)
    BY <1>1 DEF StartWorker
  <2> QED
    BY <1>0, <2>1, <2>2
<1>2. CASE PollEnds \/ BackoffEnds \/ CheckThread \/ StopWorker \/ JoinThread \/ Exit
  BY <1>2 DEF PollEnds, BackoffEnds, CheckThread, StopWorker, JoinThread, Exit
<1>3. CASE CheckWorker
  BY <1>3 DEF CheckWorker, Passed
<1>4. CASE Restart
  <2>1. i' \in Nat \ {0} /\ timer' \in Nat
    BY <1>4 DEF Restart
  <2>2. BackoffAfterRestart(i) \in 0 .. MaxBackoff
    BY DEF BackoffAfterRestart, Doubled
  <2>3. Launch(BackoffAfterRestart(i))
    BY <1>4 DEF Restart
  <2> QED
    BY <1>0, <2>1, <2>2, <2>3
<1>5. CASE WorkerStops
  BY <1>5 DEF WorkerStops, AfterKill
<1>6. CASE StartRaises \/ ThreadDies \/ ThreadEnds \/ Signal
  BY <1>6 DEF StartRaises, ThreadDies, ThreadEnds, Signal, main
<1>7. CASE Tick
  BY <1>7 DEF Tick
<1>8. ASSUME NEW w \in Worker, Die(w) PROVE Types' /\ OnlyDeadWait'
  BY <1>8 DEF Die, main
<1>9. CASE UNCHANGED vars
  BY <1>9 DEF vars, main
<1> QED
  BY <1>1, <1>2, <1>3, <1>4, <1>5, <1>6, <1>7, <1>8, <1>9 DEF Next, Main

(* Before a shutdown, main is where Place says.                            *)
LEMMA StepPlace ==
    ASSUME Types, Place, ~ shutdown, ~ shutdown', [Next]_vars PROVE Place'
<1> USE ConstantsAreNat DEF Types, Place, Worker, Goto
<1>1. CASE StartWorker
  BY <1>1 DEF StartWorker
<1>2. CASE PollEnds \/ BackoffEnds \/ CheckThread
  BY <1>2 DEF PollEnds, BackoffEnds, CheckThread
<1>3. CASE CheckWorker
  BY <1>3 DEF CheckWorker, Passed
<1>4. CASE Restart
  BY <1>4 DEF Restart
<1>5. CASE StopWorker \/ WorkerStops \/ JoinThread \/ Exit
  BY <1>5 DEF StopWorker, WorkerStops, JoinThread, Exit
<1>6. CASE StartRaises \/ ThreadDies \/ ThreadEnds \/ Signal
  BY <1>6 DEF StartRaises, ThreadDies, ThreadEnds, Signal, main
<1>7. CASE Tick
  BY <1>7 DEF Tick
<1>8. ASSUME NEW w \in Worker, Die(w) PROVE Place'
  BY <1>8 DEF Die, main
<1>9. CASE UNCHANGED vars
  BY <1>9 DEF vars, main
<1> QED
  BY <1>1, <1>2, <1>3, <1>4, <1>5, <1>6, <1>7, <1>8, <1>9 DEF Next, Main

(* Before a shutdown, no worker is down for longer than its bound.         *)
LEMMA StepWaits ==
    ASSUME Types, OnlyDeadWait, Place, Waits, pc # "raised", pc' # "raised",
           ~ shutdown, ~ shutdown', [Next]_vars
    PROVE  Waits'
<1> SUFFICES ASSUME NEW w \in Worker
             PROVE  downFor'[w] <= Bound(w)'
  BY DEF Waits
<1> USE ConstantsAreNat, AheadFacts
<1>0. /\ w \in Worker
      /\ downFor[w] \in Nat /\ downFor[w] <= Bound(w)
      /\ i \in Nat \ {0} /\ timer \in Nat
  BY DEF Waits, Types
<1>1. CASE StartWorker
  <2>1. downFor[w] = 0
    BY <1>0, <1>1 DEF StartWorker, Bound
  <2>2. downFor'[w] = 0
    BY <1>1, <2>1 DEF StartWorker, Launch, Types
  <2>3. Bound(w)' \in {0, Backoffs(N - w)}
    BY <1>0, <1>1 DEF StartWorker, Goto, Bound
  <2> QED
    BY <2>2, <2>3
<1>2. CASE PollEnds
  <2>1. pc = "poll" /\ timer = 0 /\ pc' = "check" /\ i' = 1 /\ downFor' = downFor
    BY <1>2 DEF PollEnds, Goto
  <2>2. Bound(w) = Backoffs(N - w) + Poll
    BY <2>1 DEF Bound
  <2>3. Bound(w)' = Poll + Backoffs(N - w)
    BY <2>1 DEF Bound, Spent
  <2> QED
    BY <1>0, <2>1, <2>2, <2>3
<1>3. CASE CheckWorker
  <2>1. pc = "check" /\ i \in 1 .. N /\ downFor' = downFor /\ Bound(w) = Ahead(w, i)
    BY <1>0, <1>3 DEF CheckWorker, Bound, Spent
  <2>2. CASE ~ Passed(i)
    <3>1. pc' = "backoff" /\ i' = i /\ timer' \in 0 .. MaxBackoff
      BY <1>3, <2>1, <2>2 DEF CheckWorker, Goto, Types, Worker
    <3>2. Bound(w)' = MaxBackoff - timer' + Ahead(w, i)
      BY <3>1 DEF Bound, Spent
    <3> QED
      BY <1>0, <2>1, <3>1, <3>2
  <2>3. CASE Passed(i)
    <3>1. pc' = "check" /\ i' = i + 1
      BY <1>3, <2>3 DEF CheckWorker, Goto
    <3>2. Bound(w)' = Ahead(w, i + 1)
      <4>1. i + 1 \in 1 .. N + 1
        BY <2>1
      <4>2. Ahead(w, i + 1) \in Nat
        BY <4>1
      <4>3. Spent' = 0
        BY <3>1 DEF Spent
      <4>4. Bound(w)' = 0 + Ahead(w, i + 1)
        BY <3>1, <4>3 DEF Bound
      <4> QED BY <4>2, <4>4
    <3>3. CASE w = i
      BY <1>0, <2>1, <2>3, <3>2, <3>3 DEF Passed, OnlyDeadWait
    <3>4. CASE w # i
      BY <1>0, <2>1, <3>2, <3>4
    <3> QED
      BY <3>3, <3>4
  <2> QED
    BY <2>2, <2>3
<1>4. CASE BackoffEnds
  <2>1. /\ pc = "backoff" /\ timer = 0 /\ i \in 1 .. N
        /\ pc' = "restart" /\ i' = i /\ downFor' = downFor
    BY <1>4 DEF BackoffEnds, Goto, Place, Worker
  <2>2. Bound(w) = MaxBackoff + Ahead(w, i) /\ Bound(w)' = MaxBackoff + Ahead(w, i)
    BY <2>1 DEF Bound, Spent
  <2> QED
    BY <1>0, <2>1, <2>2
<1>5. CASE Restart
  <2>1. pc = "restart" /\ i \in 1 .. N /\ pc' = "check" /\ i' = i + 1
    BY <1>5 DEF Restart, Goto, Place, Worker
  <2>2. Bound(w) = MaxBackoff + Ahead(w, i) /\ Bound(w)' = Ahead(w, i + 1)
    BY <2>1 DEF Bound, Spent
  <2>3. CASE w = i
    <3>1. downFor'[w] = 0
      BY <1>5, <2>3 DEF Restart, Launch, Types
    <3> QED
      BY <2>1, <2>2, <2>3, <3>1
  <2>4. CASE w # i
    <3>1. downFor'[w] = downFor[w]
      BY <1>5, <2>4 DEF Restart, Launch, Types
    <3> QED
      BY <1>0, <2>1, <2>2, <2>4, <3>1
  <2> QED
    BY <2>3, <2>4
<1>6. CASE CheckThread
  <2>1. /\ pc = "check" /\ i = N + 1 /\ downFor' = downFor
        /\ pc' = "poll" /\ timer' = Poll
    BY <1>6 DEF CheckThread, Goto, Place
  <2>2. Bound(w) = Backoffs(N - w) /\ Bound(w)' = Backoffs(N - w)
    BY <2>1 DEF Bound, Spent
  <2> QED
    BY <1>0, <2>1, <2>2
<1>7. CASE Tick
  <2>1. /\ timer > 0 /\ timer' = timer - 1 /\ pc' = pc /\ i' = i
        /\ downFor'[w] <= downFor[w] + 1 /\ downFor'[w] \in Nat
    BY <1>0, <1>7 DEF Tick
  <2>2. CASE pc = "poll"
    <3>1. /\ Bound(w) = Backoffs(N - w) + Poll - timer
          /\ Bound(w)' = Backoffs(N - w) + Poll - timer'
      BY <2>1, <2>2 DEF Bound
    <3> QED
      BY <1>0, <2>1, <3>1
  <2>3. CASE pc = "backoff"
    <3>1. i \in 1 .. N
      BY <2>3 DEF Place, Worker
    <3>2. /\ Bound(w) = MaxBackoff - timer + Ahead(w, i)
          /\ Bound(w)' = MaxBackoff - timer' + Ahead(w, i)
      BY <2>1, <2>3 DEF Bound, Spent
    <3> QED
      BY <1>0, <2>1, <3>1, <3>2
  <2> QED
    BY <2>1, <2>2, <2>3 DEF Place
<1>8. CASE StartRaises
  BY <1>8 DEF StartRaises, Goto
<1>9. CASE StopWorker \/ WorkerStops \/ JoinThread \/ Exit
  BY <1>9 DEF StopWorker, WorkerStops, JoinThread, Exit, Place
<1>10. CASE ThreadDies \/ ThreadEnds \/ Signal \/ UNCHANGED vars \/ \E x \in Worker : Die(x)
  <2>1. UNCHANGED <<pc, i, timer, downFor>>
    BY <1>10 DEF ThreadDies, ThreadEnds, Signal, Die, vars, main
  <2> QED
    BY <1>0, <2>1 DEF Bound, Spent
<1> QED
  BY <1>1, <1>2, <1>3, <1>4, <1>5, <1>6, <1>7, <1>8, <1>9, <1>10 DEF Next, Main

(* The invariant holds initially and every step of main, the workers, the  *)
(* signal and the clock preserves it.                                      *)
LEMMA SupervisorInvariant == Init /\ [][Next]_vars => []IInv
<1>1. Init => IInv
  BY ConstantsAreNat DEF Init, IInv, Types, OnlyDeadWait, Place, Waits, Bound, Worker
<1>2. IInv /\ [Next]_vars => IInv'
  <2> SUFFICES ASSUME IInv, [Next]_vars PROVE IInv'
    OBVIOUS
  <2>1. Types' /\ OnlyDeadWait'
    BY StepTypes DEF IInv
  <2>2. ASSUME ~ shutdown' PROVE ~ shutdown
    BY <2>2
    DEF Next, Main, StartWorker, PollEnds, CheckWorker, BackoffEnds, Restart, CheckThread,
        StopWorker, WorkerStops, JoinThread, Exit, StartRaises, Tick, Die, ThreadDies,
        ThreadEnds, Signal, vars
  <2>3. ASSUME ~ shutdown' PROVE Place'
    BY <2>2, <2>3, StepPlace DEF IInv
  <2>4. ASSUME pc' # "raised" PROVE pc # "raised"
    BY <2>4
    DEF Next, Main, StartWorker, PollEnds, CheckWorker, BackoffEnds, Restart, CheckThread,
        StopWorker, WorkerStops, JoinThread, Exit, StartRaises, Tick, Die, ThreadDies,
        ThreadEnds, Signal, vars, main, Goto
  <2>5. ASSUME ~ shutdown', pc' # "raised" PROVE Waits'
    BY <2>2, <2>4, <2>5, StepWaits DEF IInv
  <2> QED
    BY <2>1, <2>3, <2>5 DEF IInv
<1> QED
  BY <1>1, <1>2, PTL

(* Whatever the number of workers and the waits, and however often workers *)
(* crash, a dead worker is up again after at most one poll and one capped  *)
(* backoff of every worker.                                                *)
THEOREM DeadWorkersReturn == Spec => []RestartedInTime
<1>1. IInv => RestartedInTime
  <2> SUFFICES ASSUME IInv, ~ shutdown, pc # "raised", NEW w \in Worker
               PROVE  downFor[w] <= Poll + N * MaxBackoff
    BY DEF RestartedInTime
  <2> USE ConstantsAreNat, AheadFacts
  <2>1. Poll + Backoffs(N) = Poll + N * MaxBackoff
    BY DEF Backoffs
  <2>2. downFor[w] \in Nat /\ downFor[w] <= Bound(w)
    BY DEF IInv, Types, Waits
  <2>3. CASE pc = "start"
    BY <2>1, <2>2, <2>3 DEF Bound
  <2>4. CASE pc = "poll"
    <3>1. Bound(w) = Backoffs(N - w) + Poll - timer /\ timer \in Nat
      BY <2>4 DEF Bound, IInv, Types
    <3> QED
      BY <2>1, <2>2, <3>1
  <2>5. CASE pc = "check"
    <3>1. Bound(w) = Ahead(w, i) /\ i \in 1 .. N + 1
      BY <2>5 DEF Bound, Spent, IInv, Place, Worker
    <3>2. CASE i = N + 1
      BY <2>1, <2>2, <3>1, <3>2
    <3>3. CASE i # N + 1
      BY <2>1, <2>2, <3>1, <3>3
    <3> QED
      BY <3>2, <3>3
  <2>6. CASE pc \in {"backoff", "restart"}
    <3>1. i \in 1 .. N /\ timer \in Nat
      BY <2>6 DEF IInv, Place, Types, Worker
    <3>2. Bound(w) \in {MaxBackoff - timer + Ahead(w, i), MaxBackoff + Ahead(w, i)}
      BY <2>6 DEF Bound, Spent
    <3>3. Ahead(w, i) \in Nat /\ Ahead(w, i) + MaxBackoff <= Poll + Backoffs(N)
      BY <3>1
    <3> QED
      BY <2>1, <2>2, <3>1, <3>2, <3>3
  <2> QED
    BY <2>3, <2>4, <2>5, <2>6 DEF IInv, Place
<1> QED
  BY <1>1, SupervisorInvariant, PTL DEF Spec

-----------------------------------------------------------------------------
(* main reaches its end only after a shutdown, and the workers it has      *)
(* passed on the way there stay down: nothing restarts them any more.      *)
Closing ==
    /\ pc \in {"stop", "stopping", "join", "exited"} => shutdown
    /\ pc \in {"stop", "stopping"} => \A w \in Worker : w < i => worker[w] # "up"
    /\ pc = "stopping" => i <= N
    /\ pc \in {"join", "exited"} => \A w \in Worker : worker[w] # "up"

(* The safety half of NoneLeftRunning, for any number of workers.          *)
NoneUpAtExit == pc = "exited" => shutdown /\ \A w \in Worker : worker[w] # "up"

LEMMA StepClosing == Types /\ Closing /\ [Next]_vars => Closing'
<1> SUFFICES ASSUME Types, Closing, [Next]_vars PROVE Closing'
  OBVIOUS
<1> USE ConstantsAreNat
<1>t. i \in Nat \ {0} /\ worker \in [Worker -> {"none", "up", "dead"}]
  BY DEF Types
<1>1. CASE StartWorker
  BY <1>1, <1>t DEF StartWorker, Goto, Closing, Worker
<1>2. CASE PollEnds \/ CheckWorker \/ BackoffEnds
  BY <1>2 DEF PollEnds, CheckWorker, BackoffEnds, Goto, Closing
<1>3. CASE Restart
  BY <1>3 DEF Restart, Goto, Closing
<1>4. CASE CheckThread
  BY <1>4 DEF CheckThread, Goto, Closing, Worker
<1>5. CASE StopWorker
  <2>1. CASE worker[i] = "up"
    BY <1>5, <2>1, <1>t DEF StopWorker, Goto, Closing, Worker
  <2>2. CASE worker[i] # "up"
    BY <1>5, <2>2, <1>t DEF StopWorker, Goto, Closing, Worker
  <2> QED BY <2>1, <2>2
<1>6. CASE WorkerStops
  <2>1. worker' = [worker EXCEPT ![i] = "dead"]
    BY <1>6 DEF WorkerStops, AfterKill
  <2> QED BY <1>6, <2>1, <1>t DEF WorkerStops, Goto, Closing, Worker
<1>7. CASE JoinThread
  BY <1>7, <1>t DEF JoinThread, Goto, Closing, Worker
<1>8. CASE Exit
  BY <1>8 DEF Exit, Goto, Closing
<1>9. CASE StartRaises
  BY <1>9 DEF StartRaises, Goto, Closing
<1>10. ASSUME NEW v \in Worker, Die(v) PROVE Closing'
  BY <1>10, <1>t DEF Die, Closing, main
<1>11. CASE Tick \/ ThreadDies \/ ThreadEnds \/ Signal \/ UNCHANGED vars
  BY <1>11 DEF Tick, ThreadDies, ThreadEnds, Signal, vars, main, Closing
<1> QED
  BY <1>1, <1>2, <1>3, <1>4, <1>5, <1>6, <1>7, <1>8, <1>9, <1>10, <1>11 DEF Next, Main

(* main exits only after a shutdown, and then no worker is left running,   *)
(* whatever the signal interrupted and whoever died on the way (stop and   *)
(* the end of main).                                                       *)
THEOREM ExitStopsAll == Spec => []NoneUpAtExit
<1>1. Init => Closing
  BY DEF Init, Closing
<1>2. Closing => NoneUpAtExit
  BY DEF Closing, NoneUpAtExit
<1>3. IInv => Types
  BY DEF IInv
<1> QED
  BY <1>1, <1>2, <1>3, StepClosing, SupervisorInvariant, PTL DEF Spec
=============================================================================
