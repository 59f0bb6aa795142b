# TransitFlow: TLA+ models, checks and proofs

TransitFlow counts people at bus stops with thermal cameras on edge devices,
collects the counts over MQTT, joins them with the GTFS-Realtime feed, predicts
for every route who will not get on a bus, and pushes the result to a dashboard.
This directory models the parts of it whose correctness depends on order,
concurrency, failure or arithmetic. Paths below are relative to the repository.

## 1. Inventory

| Part | State | Operations | Talks to |
|---|---|---|---|
| Edge `ModelReceiver` (`src/Edge/model_receiver.py`) | transfer in progress: meta, chunk files | `handle_meta`, `handle_chunk`, assemble, ACK | MQTT topic `edge/<id>/model`, `ModelManager` |
| Edge `ModelManager`, `CrowdCounter` | current and backup model file, loaded model, paused flag | install, rollback, count, pause, reload | receiver callback, inference thread |
| Edge camera, `FrameBuffer`, inference loop, `RuntimeSettings` | one frame, settings, `pipeline_active` | capture, put/get, count, publish, admin commands | three threads |
| Edge `MQTTComms` | session, callbacks | publish, dispatch, last will | broker |
| Backend `BrokerHandler`, `ModelDistributor` | device table, `_ack_event`, `_ack_data` | one handler per topic, `send_admin`, `distribute_model` | MQTT thread, command loop, database |
| Database `DatabaseWriter` | tables, stop cache, pool | one write per message kind | all back-end threads |
| `SnapshotBuilder`, `PredictionEngine`, evaluators | one snapshot, the array of waiting passengers | build, `predict_route`, `evaluate` | database, prediction loop |
| `runtime_supervisor` | workers, backoff, debounce timer | start, restart, prediction cycle, shutdown | processes, `LISTEN/NOTIFY` |
| API | pending broadcast, clients | notify, build, broadcast, connect, disconnect | PostgreSQL, WebSockets |
| GTFS-RT fetcher | last feed | fetch, parse, write, purge | feed, database |
| Simulator, External API | generators; none | ticks; traffic-light queries | writers; database |

Hard behaviours: two threads share the ACK event and data of the distributor;
devices restart in the middle of a transfer; MQTT repeats QoS 1 messages and
keeps messages for devices that are away; the camera, inference and MQTT threads
of a device share one frame and one set of settings; the database is told what a
device was asked to do, not what it does; the prediction loop and the dashboard
debounce notifications; one failing step of a cycle must not take the rest with
it; a route's vehicles compete for one array of passengers, and the routes of a
stop for its queue; workers are restarted one after another. `PROJECT.json` lists
each hazard at its line with the properties that watch it.

What makes each part correct:

- route simulation: nobody is lost or boarded twice, nobody is left behind while
  there is room, vehicles are served front to back, and passengers who are left behind
  do not go unreported;
- model transfer: a device only ever gets a whole model that was sent to it, the
  backend's answer is about this device and this model, every call returns;
- model swap: the device keeps counting, keeps a model it can start from, and a
  model it turns down leaves no trace;
- edge pipeline: stopping it stops it, after a bounded number of counts, and every
  temporary file is removed by somebody or accounted for;
- telemetry: the database converges to what the device last said, did and was told,
  or there is a nameable reason why not;
- feed and crowd shares: a vehicle never goes back, and the routes of a stop share
  its queue without making or losing passengers;
- supervisor: a dead worker is up again in bounded time, and a shutdown leaves none
  running;
- prediction loop: no change is forgotten, one failing route costs no other, the
  loop neither starves nor feeds on its own writes;
- dashboard: every change reaches every page that stays connected, and the list of
  clients is accurate.

## 2. Modules

| Module | Models |
|---|---|
| `PredictRoute` | `PredictionEngine.predict_route` |
| `RouteAlert` | `ThresholdEvaluator.evaluate`, on the result of `PredictRoute` |
| `PredictionLoop` | `_prediction_thread` of the runtime supervisor |
| `ModelTransfer` | `ModelDistributor`, `BrokerHandler._handle_model`, the MQTT model topics and `ModelReceiver`, composed |
| `ModelInstall` | `ModelManager`, `CrowdCounter` and the start of the edge device, composed |
| `HotSwap` | abstract specification that `ModelInstall` implements |
| `DashboardPush` | `_listen_loop`, `_on_notify`, the timer, `_do_broadcast`, `ConnectionManager`, `dashboard_ws`, the page |
| `EdgeSettings` | `RuntimeSettings` and `handle_admin`: what a command makes of the settings |
| `EdgePipeline` | camera thread, `FrameBuffer`, `inference_loop`, admin commands, start and end of the process |
| `MqttLink` | paho-mqtt and the broker as the code uses them (external): QoS 1 and 2, retained status, will |
| `EdgeClient` | `MQTTComms` and the start and end of the edge process, over `MqttLink` and `EdgeSettings` |
| `CrowdStore` | `BrokerHandler`'s telemetry handlers and `send_admin`, and the `DatabaseWriter` methods they call |
| `Telemetry` | `EdgeClient` and `CrowdStore` composed: the device, the broker and the database |
| `TripFeed` | the GTFS-RT fetcher, its writes and purge, and `SnapshotBuilder`'s vehicles and crowd shares |
| `Supervisor` | `main` and `_Worker` of the runtime supervisor |
| `Rounding` | Python's `round()`, for `PredictRoute` and `TripFeed` |
| `RouteProofs` | the theorems about `PredictRoute`, `RouteAlert` and `TripFeed` |
| other `*Proofs` | the theorems about the module of that name |
| `MC*` | the instances TLC checks |

Mutated definitions (`BoardBeyondQueue`, `StopCycle` and the like) stand before the
definition they are a wrong version of; no specification uses them.

### PredictRoute

State: the local variables of `predict_route`. `remaining` is the shared array of
waiting passengers, `pending` the part of `sorted_vehicles` not yet reached,
`cur`, `i`, `load` the vehicle in the inner loop, `stopPreds`, `vehiclePreds`,
`stranded` the result. `ReturnEmpty`, `RaiseTypeError` and `BuildIndexAndSort` are
the three ways past the first steps; `SkipVehicle` and `StartVehicle` one pass of
the loop over vehicles; `VisitStop` one pass of the loop over stops;
`FinishVehicle` and `CollectStranded` what follows the loops. `load * af` is an
exact quotient rounded half to even where the code rounds a floating point
product, so the two may differ when the product is within an ulp of a half.

`RouteAlert` adds what the evaluator makes of the result: `Evaluate` is the alert or
`None`, `Qualifying` the vehicles with enough data, `WorstVehicle` and `WorstStop`
Python's `max`, which takes the first of equals.

### ModelTransfer

The main thread (`pc`, `job`, `nextChunk`, `missing`, `result`) publishes, waits and
reads; the MQTT thread stores `ackData` (`StoreAck`) and only then sets `ackEvent`
(`SignalAck`); `distribute_model` clears the two in the opposite order, in two
steps. Each device has a FIFO topic in both directions. `meta` and `files` are
the receiver's transfer, `ready` a file that is acknowledged and not yet handed
over, `installed` the one handed over last. `RejectMeta` and `RejectChunk` are a damaged
message; `EdgeRestart` forgets the receiver's state, a prefix of the incoming and
a suffix of the outgoing queue; `DropUnwired` is the window between `loop_start`
and `set_model_receiver`. A timeout (`WaitTimesOut`) may come at any moment of a
wait. SHA-256 is taken as injective and no two models share a chunk.

### ModelInstall and HotSwap

Files (`current`, `backup`) hold a model, nothing, or a torn copy: a copy opens and
so truncates its target in one step and fills it in another, so that a crash
(`Crash`) or an exception (`Raise`) can fall in between. Moving the new file is one
step (`Rename`) when the temporary directory is on the same file system, which is
chosen at the start, and a copy otherwise. `Handler` is the `except`/`finally`
that leads to `rollback` and `Resume`. The inference thread waits for `_paused`
(`PassWait`) and predicts with the loaded model (`Predict`); `Start` and
`StartRaises` load the current file after a crash. `HotSwap` keeps one running model
and one candidate, accepts or rejects it, and promises nothing more after the
first exception or crash.

### PredictionLoop

Time goes in units of the select timeout, and only in `select` (`Tick`), which
does not wait while a notification is there. `queue` is what the LISTEN connection
holds, `pending` and `deadline` the debounce, `age` the time since `last_cycle`. A
cycle is one `PredictRoute` or `RouteRaises` per route, the second of which may
come before or after the write. `EndCycle` clears the debounce. `Crash` is any
exception outside the per-route `try`; `LoseConnection` is a connection that goes
quiet without an error, which the code never notices. The database is the number
of changes committed by others.

### DashboardPush

One asyncio loop: a step runs from one `await` to the next. `handle` is
`_coalesce_handle`, which forgets timers; `timers` counts the live ones; `task` holds the
`_do_broadcast` tasks, each with its position in the live list `clients`. A payload
is the number of changes it has seen at the first of its queries. A socket is one
connection; a page that reconnects is another one. A send to a closed socket
either raises or goes unnoticed.

### EdgeSettings and EdgePipeline

A command is an action and, for `update_config`, the changes in the order of the
dictionary; `Update` sets key after key up to the first value that does not
convert. Two keys stand for all: `pipeline_active`, and `capture_interval` for
those that `float()` converts.

`cam` and `inf` are where the two threads are in their loops, `slot` is
`FrameBuffer._path`, `current` the `image_path` in the inference thread's hands,
`files` the temporary files on disk. `CheckActive`, `Capture`, `CaptureFails`,
`WriteFails` (`imwrite` raises after `mkstemp` has made the file), `Put`
and `CameraStops` are `_capture_loop`; `Get`, `CountFrame`, `SendImage`,
`InferenceRaises`, `RemoveFile`, `RemoveFails` and `InferenceStops` are
`inference_loop`, whose `finally` is `RemoveFile`, or `RemoveFails` for the `OSError`
that is passed over. `ReceiveAdmin` runs on the MQTT thread between any two of
these. `Start`, `Signal`, `Exit` and `Crash` are the process. Captures are taken to be
apart by any time: the interval between them only makes fewer interleavings. `late`
and `dropped` are history.

### MqttLink, EdgeClient, CrowdStore, Telemetry

A QoS 1 link (`out` from the device to the broker, `up` from the broker to the
backend) is a queue and the messages delivered last, any suffix of which may be
delivered again on a new connection (`Resume`). Admin commands (`down`, QoS 2,
persistent session) come once. `Boot` connects before `Wire` sets the callbacks, so
`DropAdmin` can fall in between. `Disconnect(n)` publishes the offline status and
closes: what does not fit beside `n` unacknowledged messages is not sent, and the
will is withdrawn. `Crash` and `LoseLink` leave it to the will.

`CrowdStore` handles one message per step of the network thread (`HandleCrowdCount`,
`HandleStatus`); a write is one transaction and may fail (`Unwritten`), a device that
is not seeded resolves to no stop, and a handler that started without a pool has no
`writer`. `SendAdmin` publishes and `RecordSwitch` writes `stops.pipeline_active`
afterwards. `HandleImageRaises` is an exception outside any `try`, which ends the
network thread of a process that lives on. A count is its number, so its time and its
value are one. `lost`, `unsaid`, `drift`, `missed`, `stale` and `unrecorded` are
history: they name the reasons for which the two sides may disagree.

### TripFeed

The world is a clock: a trip has left the stops whose arrival has passed, and a feed
lists the others. The provider serves either of its two latest feeds. `Fetch`,
`WriteTripUpdates` (one savepoint per row, any of which may fail) and `Purge` are one
`_fetch_cycle`; `Restart` loads the route filter again, which keeps every route when
the database does not answer. `SnapshotBuilder` only reads, so its queries are
operators: `Tracked` and `CurrentStop` are `_query_vehicles`, `SoonestPerRoute` is `_ETA_QUERY`,
`Competing` and `Share` are `_compute_crowd_shares` and `proportional_split`, in exact
fractions where the code has floating point numbers, and `PeopleWaiting` is
`_apply_share`. Clock times wrap at `DayLength` while arrivals go on past it.

### Supervisor

`pc`, `i` and `timer` are `main`: the first starts, the wait of the loop, the pass over
the workers, and the end. `CheckWorker`, `BackoffEnds` and `Restart` are
`restart_if_dead`; `StopWorker` and `WorkerStops` are `stop`. Time passes only in
`main`'s waits (`Tick`). `StartRaises` is a log file or a process that cannot be
opened. What the prediction thread does is `PredictionLoop`; here it lives or not.

## 3. Runs

| Run | Checks | Shows |
|---|---|---|
| `predict_route` | `TypeOK`, `Conservation`, `LoadBound`, `NoStrandedWithRoom`, `FrontFirst`, `VehiclesAccounted`, `StrandingIsReported` | the simulation does what it should for every fleet of the bounds; whoever is left behind by a bus with data is reported, by a vehicle and a stop that are full |
| `transfer` | `InstallIntegrity`, `AckTruthful`, `NoLostAck`, `ErrorAckNeedsDamage`, `AnswerIsRight`, `DistributionEnds`, `EventuallyInstalled` | damage, retries and restarts never get a broken model installed or acknowledged; the two threads lose no ACK, transfers do not mix without damage, answers are right before the first timeout, calls return, models arrive |
| `install` | `FileIsWhatRuns`, `RunnableModelOnDisk`, `FailedStartHasCause`, `ImplementsHotSwap`, `InferenceContinues` | the swap implements `HotSwap`; crashes alone cost no good model; counting goes on |
| `prediction_loop` | `IntervalKept`, `CycleIsComplete`, `TriggerIsPending`, `CyclesHaveCause`, `EventuallyPredicted`, `ShutdownEnds` | debounce, interval, restarts and shutdown of the loop; "predicted" is computed, since `write_predictions` logs its own failures (`writer.py:458`) |
| `dashboard` | `ChangeIsPending`, `StaleHasCause`, `ListIsAccurate`, `ChangeIsServed` | coalescing forgets nothing; a change that is announced reaches every open page but for the causes named (a commit without NOTIFY, such as the purge of old feeds, `writer.py:305`, is outside the model) |
| `edge_pipeline` | `LeakHasCause`, `BoundedAfterStop`, `StopHalts` | at most three counts follow a stop, then silence; a temporary file is left over only when its frame was overwritten in the buffer, it could not be written or removed, or the process ended |
| `telemetry` | `RewindHasCause`, `StatusConverges`, `PipelineFlagHasCause` | redelivery rewinds `current_counts` only for a while; online status and pipeline flag are right but for the causes named |
| `feed` | `SplitConserves`, `OverlapHasCause`, `VehiclesAdvance` | vehicles never go back; shares add up to the queue, also over midnight, except in three cases |
| `supervisor` | `RestartedInTime`, `NoneLeftRunning` | a dead worker waits for one poll and one capped backoff per worker at most; a shutdown at any moment stops them all |

Several of these properties have the form "this is so, unless": the disjuncts are
the complete list, for what is modelled, of the ways in which the code falls short of the
plain statement: they name those hazards and exclude every other cause.

Three runs end in a counterexample to what the repository says:

| Run | Property | What happens |
|---|---|---|
| `transfer_late_ack` | `SuccessMeansDelivered` | an ACK that comes after the timeout of its call makes the next call return True |
| `install_broken` | `NeverLeftBroken` | a backup that failed half-way is restored over the good current model |
| `supervisor_backoff` | `ExponentialBackoff` | a worker that keeps crashing waits 2 s and then always 4 s: `start` resets `_backoff` before `restart_if_dead` doubles it, while `runtime_supervisor.py:116` says "exponential backoff" and `test_supervisor.py:100` "doubling, capped at _max_backoff" |

Seen while modelling, without a run of their own:

- `stranded_at_stops` is keyed by `stop_id`, so a route that visits a stop twice loses
  passengers from its result (`engine.py:173`; `Conservation` leaves those routes out);
- retried chunks make the count exceed the total, the test for equality fails, and the
  retry is never acknowledged (`model_receiver.py:120`); a chunk with a wrong hash is
  dropped and never asked for again: an error ACK, and with it the retry, takes both
  damage and an earlier call that timed out (`NoErrorWithoutDamage`, `NoRetryInTime`); an empty file is never acknowledged;
- the edge acknowledges with `"success"` and the backend registers a version for
  `"ok"`, so nothing is ever registered;
- a page that leaves during a broadcast makes the iterator skip the next one
  (`ws.py:37`); `_listen_loop` does not notice a lost connection;
- `RuntimeSettings.update` says "atomically" (`config.py:132`), but a value that does
  not convert leaves the keys before it set;
- `stops.pipeline_active` is FALSE by default while a device starts with its pipeline
  active, so the two disagree until the first command;
- an image that cannot be saved ends the backend's network thread
  (`broker_handler.py:200`), and nothing starts it again;
- a bus that has left a stop still comes first in `soonest_per_route`; its route drops
  out of the split and takes the whole queue, which `snapshot_builder.py:10` says is
  split;
- a bus more than half a day ahead is taken for one of the day before and left out of
  the split (`snapshot_builder.py:284`);
- `_query_vehicles` has no limit of time, so after an empty feed the last vehicles stay.

### Bounds

- `predict_route`: up to two vehicles at, before and beyond the terminus, off the
  route, without a sequence, without seats or overloaded, on one to three stops;
  three vehicles on four stops, where queues outlast the first vehicle, also on a
  route that visits a stop twice. The
  sequence numbers are not the positions, so index errors show. The properties
  relate at most two vehicles at one stop. A `min_confidence` of 2/3 lets vehicles with
  some data fall below it.
- `transfer`: one device and files of zero, two and three chunks; three calls and three
  damaged messages are what it takes to mix the chunks of two transfers and to have a
  retry answered, and a restart can fall anywhere among them. To the distributor, which
  does not look at the sender of an ACK, a stray ACK of another device is a late one of
  the same device; `transfer_late_ack` has two devices, and the theorems hold for any
  number.
- `install`: one good, one better and one unusable model, three installations (the
  backup of the second is the result of the first), two exceptions (one in the
  handler of the other), two crashes.
- `prediction_loop`: two routes (one fails, one does not), a debounce of 2 and an
  interval of 4 ticks, so that three changes can put the deadline off past the
  interval; two faults, so that a lost connection can be followed by a failing route.
- `dashboard`: two sockets, two overlapping broadcasts, two changes, one fault.
- `edge_pipeline`: five frames, three commands of every kind and two faults: three
  frames can be under way when the pipeline stops, and the pipeline can stop, start
  and stop again with a frame left over from before.
- `telemetry`: one device (the handlers share nothing between devices), two counts and
  an in-flight window of two, so that the window can be full and two messages be
  delivered again; two commands, so that a switch can follow another setting; two
  faults, so that one can fall into the recovery from the other.
- `feed`: two buses of one route, one of another and one of a foreign route, two
  stops, a clock from just before to just after midnight, two feeds kept.
- `supervisor`: three workers that die five times in all, so that two of them wait
  while the third is in its backoff and one dies again at once; a cap below twice the
  first backoff, so that it takes effect although `start` resets the backoff.

The theorems of section 4 do not depend on these bounds.

### Fairness and deadlock

Fairness is weak and only on what a thread, an event loop or a broker does by
itself: the distributor's steps (its wait has a timeout), the MQTT threads and
the delivery of messages (`ModelTransfer`); the installation and the inference
thread (`ModelInstall`); the thread and the clock (`PredictionLoop`); connecting,
notifications, timers, tasks and handlers (`DashboardPush`); the camera and the
inference thread (`EdgePipeline`); `main` and the clock (`Supervisor`). `Telemetry` and
`TripFeed` are checked for safety only. Faults, crashes,
restarts, commits, operators and users are never fair. Deadlock is checked for
`PredictRoute`, whose last state repeats explicitly. The other specifications may
stop when the bounded inputs are used up and every thread is idle, or after a
shutdown, an end of the clock or a device that failed to start, so their configurations do not check it.

## 4. Proofs

The theorems hold for every value of the constants that satisfies the named
assumptions of the module: the bounds are natural numbers, `None` and the like are
none of the values they stand beside (`NoneAssumption`, `AnswerAssumption`,
`AlertAssumption`), snapshots are what `SnapshotBuilder` builds, the timetable has
finitely many trips and integer arrivals, a day and `min_eta` are positive
(`FeedAssumption`). Nothing is assumed of the number of devices, chunks, vehicles,
stops, sockets or workers, or of the length of a queue, beyond being finite.

Every safety property that a run checks is also a theorem:

| Theorem | States | Inductive invariant |
|---|---|---|
| `RouteProofs`: `TypeCorrect`, `LoadBounded`, `StrandedOnlyWhenFull`, `ServedFrontToBack` | `TypeOK`, `LoadBound`, `NoStrandedWithRoom`, `FrontFirst` | `IInv`: vehicles are taken in sort order: who has boarded comes before the current vehicle, and that before the pending ones (`InOrder`); the load of the current one is within bounds (`CurLoadBound`) |
| `RouteProofs`: `EveryVehicleAccounted` | `VehiclesAccounted` | `AInv`: a vehicle that is to be predicted is pending, current or has its prediction (`NoneForgotten`); the stops it is predicted at have no gaps (`UnderWay`, `Summaries`) |
| `RouteProofs`: `PassengersConserved`, `StrandingReported` | `Conservation`, `StrandingIsReported` | `CInv`: queue and boarded add up at every stop and in total (`Balance`, `TotalBalance`), and the result has the rest (`StrandedBalance`) |
| `RouteProofs`: `VehiclesNeverGoBack`, `QueueIsSplit`, `OverlapCaused` | `VehiclesAdvance`, `SplitConserves`, `OverlapHasCause` | `FeedInv`: a row of a trip without holes comes with all the rows of its feed (`Whole`), and no row is from the future |
| `ModelTransferProofs`: `TransferTypeCorrect`, `OnlyIntactModelsInstalled`, `SuccessAcksTruthful` | `TypeOK`, `InstallIntegrity`, `AckTruthful` | `Integrity`: what is queued or in force was sent to this device; what is verified, ready or acknowledged is intact |
| `ModelTransferProofs`: `NoErrorWithoutDamage`, `NoRetryInTime` | `ErrorAckNeedsDamage`, no error ACK and no retry before a timeout | `Stream`: in a topic each message starts a transfer or goes on with the one before it (`InOrder`), and the last is what was published last (`EndsWithLatest`); `Undamaged`: what the receiver has is what goes before the first message in the topic (`FrontFits`, `BackFits`) |
| `ModelTransferProofs`: `AckNeverLost` | `NoLostAck` | `Answering`: once the receiver has read everything, the ACK is on its way, stored or signalled (`AckComing`) |
| `ModelTransferProofs`: `AnswersAreRight` | `AnswerIsRight` | `Timely`: only the device of the call has anything to do (`Alone`), and there is one ACK at most, its own (`OneAck`) |
| `ModelInstallProofs`: `InstallTypeCorrect`, `GoodModelSurvives`, `FileAndMemoryAgree`, `GoodInstallSurvivesCrash`, `InstallImplementsHotSwap` | `TypeOK`, `RunnableModelOnDisk`, `FileIsWhatRuns`, `FailedStartHasCause`, `Spec => Swap!SafeSpec` | until the first exception: which of the two files holds the running model at each `pc` (`Orderly`) |
| `PredictionLoopProofs`: `LoopTypeCorrect`, `NoStarvation`, `OneFailureOneRoute`, `NoTriggerForgotten`, `NoSelfTriggering` | `TypeOK`, `IntervalKept`, `CycleIsComplete`, `TriggerIsPending`, `CyclesHaveCause` | a trigger stays in the connection before and during a cycle (`NotYetRead`); routes before `next` are done (`DoneSoFar`); the timeout does not reach past the interval (`WithinInterval`); what is queued or pending has a cause outside (`ReadHasCause`, `WaitingHasCause`) |
| `DashboardPushProofs`: `DashboardTypeCorrect`, `NoChangeForgotten` | `TypeOK`, `ChangeIsPending` | the counts of timers and the state of the handle agree; every task is a whole record |
| `DashboardPushProofs`: `ListAccurate`, `StalePageHasCause` | `ListIsAccurate`, `StaleHasCause` | `LInv`: a task removes only clients that are closed (`StaleIsClosed`); `SInv`: a page that no broadcast passed by shows the latest state that was read, or a broadcast of it has still to reach it (`Served`) |
| `EdgePipelineProofs`: `EdgeTypeCorrect`, `AtMostThreeAfterStop`, `FilesAreAccountedFor` | `TypeOK`, `BoundedAfterStop`, `LeakHasCause` | counts published since the stop and frames under way are three at most together, and none is late while the pipeline is active (`Stopping`); a thread holds a frame exactly where its `pc` says so (`Owned`), so a file that is not removed is known to be in `dropped` |
| `TelemetryProofs`: `TelemetryTypeCorrect`, `FlagHasCause` | `TypeOK`, `PipelineFlagHasCause` | handling the commands under way leads the device to the flag that is recorded or about to be (`FlagFollows`) |
| `TelemetryProofs`: `StatusHasConverged` | `StatusConverges` | `StatusInv`: the last status under way to the backend, or what it holds, is the retained one (`Told`); that one is or will be online while the device is connected and offline otherwise (`SaysOnline`, `SaidOffline`) |
| `TelemetryProofs`: `RewindCaused` | `RewindHasCause` | `RewindInv`: every count on a link is followed by all that are newer, or these are still to come or lost (`Complete`), and so is the count of the row (`RowInv`) |
| `SupervisorProofs`: `DeadWorkersReturn`, `ExitStopsAll` | `RestartedInTime`, no worker is up when `main` has exited | how long each worker can have been down, for every place of `main` in its pass (`Waits`); the workers passed on the way to the end stay down (`Closing`) |

Why the invariants are needed:

- `FrontFirst`: that a later vehicle boards says nothing about an earlier one unless the
  earlier one is known to have left passengers only when full.
- `InstallIntegrity` needs the meta in force to be one that was sent, since the hash is
  compared with what the meta announced. `NoLostAck` and `AnswerIsRight` speak of the
  backend and need the whole path of a transfer: the topic, the receiver and the way
  back.
- `TriggerIsPending` speaks of the loop between cycles and needs its counterpart for
  the time of a cycle.
- `BoundedAfterStop` is preserved only because what is still under way (being captured,
  buffered, being counted) is counted with what has come out.
- `RestartedInTime` bounds a whole turn of `main`'s loop; a worker that has been passed
  has waited for the backoffs since, one that is still ahead also for the poll and the
  rest of the last pass.
- `RewindHasCause` looks at the database only, while a new connection may repeat any
  suffix of what a link delivered last: the links must be complete for every suffix.
- `VehiclesAdvance` holds because the rows of a feed come and go together: the purge
  counts feeds, not rows.
- `SplitConserves` is arithmetic: a rounded share is within half a passenger of the
  exact one, and the exact ones add up to the queue.

Recursion: `FoldFunctionOnSet` and its kind are defined by `CHOOSE` of a recursive
function. What they compute is proved without an induction rule, by taking a minimal
counterexample among the subsets of a finite set (`MinimalSubset`, `FoldExists`,
`FoldRemoves`), and properties of queues by a least index (`LeastNatural`).

Only model-checked: liveness (`DistributionEnds`, `EventuallyInstalled`,
`InferenceContinues`, `EventuallyPredicted`, `ShutdownEnds`, `ChangeIsServed`,
`StopHalts`, `NoneLeftRunning`, the fairness of `HotSwap`), which the prover does not
handle.

## 5. Not modelled, and what is left

Not modelled: `EvaluatorRegistry` (which nothing but the tests uses), REST read queries (SQL and JSON, no state), the React views, the simulator
(random generators that write through the same writers), the External API (a request
and an answer, no state), seeding scripts (run once by hand; `Seed` is their effect on
a stop), training of the vision model, log entries, saved images and the audit of admin
commands (rows and files that are only added), temporary directories that are never
removed, the shutdown of the API server.

Left to do: the bounds on faults, deaths and commands are in the guards of the
specifications, so the theorems hold for every bound but the liveness checks only for
those of section 3. The safety halves of `ShutdownEnds` and `StopHalts` could be stated
and proved the way `ExitStopsAll` is.
