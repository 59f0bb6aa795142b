----------------------------- MODULE Supervisor ------------------------------
(***************************************************************************)
(* main of runtime_supervisor: it starts the worker processes and the      *)
(* prediction thread, looks after them one by one, and stops them.         *)
(* PredictionLoop has what the thread does.                                *)
(*                                                                         *)
(* Time passes in the waits of main, which are interrupted by _shutdown    *)
(* (except for those of stop and join), and is counted in ticks.           *)
(***************************************************************************)
EXTENDS Integers

CONSTANTS
    N,           \* workers: mqtt, api and, with an API key, gtfs_rt
    Poll,        \* the wait of the supervision loop
    Base,        \* first _backoff
    MaxBackoff,  \* _max_backoff
    StopWait,    \* how long stop waits before it kills
    JoinWait,    \* how long the thread is joined
    MaxDeaths,   \* bound on workers that end by themselves
    MaxFaults    \* bound on a start that raises and a thread that dies

ASSUME SupervisorAssumption ==
    /\ {N, Poll, Base, MaxBackoff, StopWait, JoinWait, MaxDeaths, MaxFaults} \subseteq Nat
    /\ N > 0 /\ Base > 0 /\ Base <= MaxBackoff

VARIABLES
    pc,        \* main: "start", "poll", "check", "backoff", "restart", "stop",
               \* "stopping", "join", "exited", or "raised"
    i,         \* the worker it is at
    timer,     \* what is left of its wait
    shutdown,  \* _shutdown
    worker,    \* the processes: "none", "up" or "dead"
    backoff,   \* their _backoff
    thread,    \* the prediction thread: "none", "up" or "dead"
    (* history *)
    downFor,   \* how long a worker has been dead
    deaths, faults

main == <<pc, i, timer>>
bounds == <<deaths, faults>>
vars == <<main, shutdown, worker, backoff, thread, downFor, bounds>>

Worker == 1 .. N

Init ==
    /\ pc = "start" /\ i = 1 /\ timer = 0
    /\ shutdown = FALSE
    /\ worker = [w \in Worker |-> "none"]
    /\ backoff = [w \in Worker |-> Base]
    /\ thread = "none"
    /\ downFor = [w \in Worker |-> 0]
    /\ deaths = 0 /\ faults = 0

Goto(label, w, wait) == pc' = label /\ i' = w /\ timer' = wait

Fault == faults < MaxFaults /\ faults' = faults + 1 /\ UNCHANGED deaths

-----------------------------------------------------------------------------
(* The workers, the thread, signals and time                               *)

Die(w) ==
    /\ worker[w] = "up"
    /\ deaths < MaxDeaths
    /\ deaths' = deaths + 1
    /\ worker' = [worker EXCEPT ![w] = "dead"]
    /\ UNCHANGED <<main, shutdown, backoff, thread, downFor, faults>>

ThreadDies ==
    /\ thread = "up"
    /\ Fault
    /\ thread' = "dead"
    /\ UNCHANGED <<main, shutdown, worker, backoff, downFor>>

ThreadEnds ==
    /\ thread = "up" /\ shutdown
    /\ thread' = "dead"
    /\ UNCHANGED <<main, shutdown, worker, backoff, downFor, bounds>>

Signal ==
    /\ ~ shutdown
    /\ shutdown' = TRUE
    /\ UNCHANGED <<main, worker, backoff, thread, downFor, bounds>>

Tick ==
    /\ timer > 0
    /\ timer' = timer - 1
    /\ downFor' = [w \in Worker |-> IF worker[w] = "dead" THEN downFor[w] + 1 ELSE 0]
    /\ UNCHANGED <<pc, i, shutdown, worker, backoff, thread, bounds>>

-----------------------------------------------------------------------------
(* start and restart_if_dead                                               *)

(* restart_if_dead doubles what it finds in _backoff, but start has just   *)
(* set that to its first value.                                            *)
Doubled(b) == IF 2 * b < MaxBackoff THEN 2 * b ELSE MaxBackoff

BackoffUncapped(w) == 2 * Base

BackoffAfterRestart(w) == Doubled(Base)

Launch(after) ==
    /\ worker' = [worker EXCEPT ![i] = "up"]
    /\ backoff' = [backoff EXCEPT ![i] = after]
    /\ downFor' = [downFor EXCEPT ![i] = 0]

(* The first start of every worker, and of the thread after the last.      *)
StartWorker ==
    /\ pc = "start"
    /\ Launch(Base)
    /\ IF i < N
       THEN Goto("start", i + 1, 0) /\ UNCHANGED thread
       ELSE /\ thread' = "up"
            /\ IF shutdown THEN Goto("stop", 1, 0) ELSE Goto("poll", 1, Poll)
    /\ UNCHANGED <<shutdown, bounds>>

(* Opening the log file or the process raises: main ends, the workers go   *)
(* on without it.                                                          *)
StartRaises ==
    /\ pc \in {"start", "restart"}
    /\ Fault
    /\ Goto("raised", i, 0)
    /\ UNCHANGED <<shutdown, worker, backoff, thread, downFor>>

PollEnds ==
    /\ pc = "poll"
    /\ timer = 0 \/ shutdown
    /\ Goto("check", 1, 0)
    /\ UNCHANGED <<shutdown, worker, backoff, thread, downFor, bounds>>

Passed(w) == shutdown \/ worker[w] = "up"

CheckWorker ==
    /\ pc = "check" /\ i <= N
    /\ IF Passed(i) THEN Goto("check", i + 1, 0) ELSE Goto("backoff", i, backoff[i])
    /\ UNCHANGED <<shutdown, worker, backoff, thread, downFor, bounds>>

BackoffEnds ==
    /\ pc = "backoff"
    /\ \/ shutdown /\ Goto("check", i + 1, 0)
       \/ ~ shutdown /\ timer = 0 /\ Goto("restart", i, 0)
    /\ UNCHANGED <<shutdown, worker, backoff, thread, downFor, bounds>>

(* A signal may have come since the wait.                                  *)
Restart ==
    /\ pc = "restart"
    /\ Launch(BackoffAfterRestart(i))
    /\ Goto("check", i + 1, 0)
    /\ UNCHANGED <<shutdown, thread, bounds>>

(* The end of a pass: the thread, and the test of the while loop.          *)
CheckThread ==
    /\ pc = "check" /\ i > N
    /\ thread' = IF thread = "dead" /\ ~ shutdown THEN "up" ELSE thread
    /\ IF shutdown THEN Goto("stop", 1, 0) ELSE Goto("poll", 1, Poll)
    /\ UNCHANGED <<shutdown, worker, backoff, downFor, bounds>>

-----------------------------------------------------------------------------
(* stop and the end of main                                                *)

StopWorker ==
    /\ pc = "stop" /\ i <= N
    /\ IF worker[i] = "up" THEN Goto("stopping", i, StopWait) ELSE Goto("stop", i + 1, 0)
    /\ UNCHANGED <<shutdown, worker, backoff, thread, downFor, bounds>>

KillSkipped(w) == worker[w]

AfterKill(w) == "dead"

(* The worker ends, or is killed.                                          *)
WorkerStops ==
    /\ pc = "stopping"
    /\ \/ worker' = [worker EXCEPT ![i] = "dead"]
       \/ timer = 0 /\ worker' = [worker EXCEPT ![i] = AfterKill(i)]
    /\ Goto("stop", i + 1, 0)
    /\ UNCHANGED <<shutdown, backoff, thread, downFor, bounds>>

JoinThread ==
    /\ pc = "stop" /\ i > N
    /\ Goto("join", i, JoinWait)
    /\ UNCHANGED <<shutdown, worker, backoff, thread, downFor, bounds>>

(* The thread is a daemon: it ends with the process.                       *)
Exit ==
    /\ pc = "join"
    /\ thread # "up" \/ timer = 0
    /\ Goto("exited", i, 0)
    /\ thread' = "dead"
    /\ UNCHANGED <<shutdown, worker, backoff, downFor, bounds>>

-----------------------------------------------------------------------------
Main ==
    \/ StartWorker \/ PollEnds \/ CheckWorker \/ BackoffEnds \/ Restart \/ CheckThread
    \/ StopWorker \/ WorkerStops \/ JoinThread \/ Exit

Next ==
    \/ Main \/ StartRaises \/ Tick
    \/ \E w \in Worker : Die(w)
    \/ ThreadDies \/ ThreadEnds \/ Signal

(* main runs, and time passes in its waits.                                *)
Spec == Init /\ [][Next]_vars /\ WF_vars(Main) /\ WF_vars(Tick)

-----------------------------------------------------------------------------
(* A dead worker is up again after one poll and one capped backoff of each *)
(* worker at most, however often workers crash: restart_if_dead waits for  *)
(* one after another, and a worker may have to wait for all the others.    *)
RestartedInTime ==
    ~ shutdown /\ pc # "raised" =>
        \A w \in Worker : downFor[w] <= Poll + N * MaxBackoff

(* What restart_if_dead says of itself, "with exponential backoff", and    *)
(* its test, "doubling, capped at _max_backoff": a worker that is          *)
(* restarted waits twice as long the next time, up to _max_backoff.        *)
ExponentialBackoff ==
    [][\A w \in Worker : worker[w] = "dead" /\ worker'[w] = "up"
                            => backoff'[w] = Doubled(backoff[w])]_vars

(* A shutdown, whatever it interrupts (the first starts, a backoff, a      *)
(* restart), ends with main gone and no worker left running, unless        *)
(* starting a worker raises.                                               *)
NoneLeftRunning ==
    shutdown ~> \/ pc = "raised"
                \/ pc = "exited" /\ \A w \in Worker : worker[w] # "up"
=============================================================================
