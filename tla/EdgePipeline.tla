---------------------------- MODULE EdgePipeline -----------------------------
(***************************************************************************)
(* The threads of an edge device: camera, one-frame buffer, inference, and *)
(* the settings that admin commands change from the MQTT thread, through   *)
(* crashes and shutdowns.  Telemetry models the MQTT client.               *)
(*                                                                         *)
(* A frame is the number of its capture, and so are its file and its       *)
(* crowd count.                                                            *)
(***************************************************************************)
EXTENDS EdgeSettings

CONSTANTS
    Commands,     \* the admin commands that arrive
    MaxFrames,    \* bound on captures
    MaxCommands,  \* bound on admin commands
    MaxFaults     \* bound on crashes, shutdowns and exceptions

ASSUME EdgeAssumption ==
    /\ {MaxFrames, MaxCommands, MaxFaults} \subseteq Nat
    /\ \A c \in Commands : IsCommand(c)

VARIABLES
    proc,       \* "down", "run", "stopping"
    settings,   \* RuntimeSettings
    cam,        \* camera thread: "off", or at "check", "read", "put"
    slot,       \* FrameBuffer._path, or NoFrame
    inf,        \* inference thread: "off", or at "get", "count", "image",
                \* "remove"
    current,    \* image_path of the inference thread, or NoFrame
    frames,     \* frames captured
    files,      \* frames whose temporary file is on disk
    (* history *)
    late,       \* counts published since the pipeline was stopped
    dropped,    \* frames whose file nobody is going to remove: overwritten in the
                \* buffer, not written, not removed, or held when a process ended
    commands, faults

cameraVars == <<cam, frames>>
inferenceVars == <<inf, current, late>>
bounds == <<commands, faults>>
vars == <<proc, settings, cameraVars, slot, inferenceVars, files, dropped, bounds>>

NoFrame == 0
Frame == 1 .. MaxFrames
Active == settings["pipeline_active"]

Init ==
    /\ proc = "down" /\ settings = Defaults
    /\ cam = "off" /\ slot = NoFrame /\ inf = "off" /\ current = NoFrame
    /\ frames = 0 /\ files = {}
    /\ late = 0 /\ dropped = {}
    /\ commands = 0 /\ faults = 0

Fault ==
    /\ faults < MaxFaults
    /\ faults' = faults + 1
    /\ UNCHANGED commands

-----------------------------------------------------------------------------
(* The camera thread: _capture_loop                                        *)

MayCaptureAlways == TRUE

MayCapture == Active

CheckActive ==
    /\ cam = "check" /\ proc = "run"
    /\ MayCapture
    /\ frames < MaxFrames
    /\ cam' = "read"
    /\ UNCHANGED <<proc, settings, frames, slot, inferenceVars, files, dropped, bounds>>

Capture ==
    /\ cam = "read"
    /\ frames' = frames + 1
    /\ files' = files \cup {frames'}
    /\ cam' = "put"
    /\ UNCHANGED <<proc, settings, slot, inferenceVars, dropped, bounds>>

(* The camera gives no frame, and the loop tries again later; or there is  *)
(* no temporary file to be had: nothing catches that exception, and        *)
(* nothing starts the thread again.                                        *)
CaptureFails ==
    /\ cam = "read"
    /\ Fault
    /\ cam' \in {"check", "off"}
    /\ UNCHANGED <<proc, settings, frames, slot, inferenceVars, files, dropped>>

(* The frame cannot be written to the file that mkstemp has made: the      *)
(* thread ends with an exception, and the file stays.                      *)
WriteFails ==
    /\ cam = "read"
    /\ Fault
    /\ frames' = frames + 1
    /\ files' = files \cup {frames'}
    /\ dropped' = dropped \cup {frames'}
    /\ cam' = "off"
    /\ UNCHANGED <<proc, settings, slot, inferenceVars>>

(* FrameBuffer.put: the file of the frame it replaces stays.               *)
Put ==
    /\ cam = "put"
    /\ slot' = frames
    /\ dropped' = dropped \cup ({slot} \ {NoFrame})
    /\ cam' = "check"
    /\ UNCHANGED <<proc, settings, frames, inferenceVars, files, bounds>>

CameraStops ==
    /\ cam = "check" /\ proc = "stopping"
    /\ cam' = "off"
    /\ UNCHANGED <<proc, settings, frames, slot, inferenceVars, files, dropped, bounds>>

-----------------------------------------------------------------------------
(* The inference thread: inference_loop                                    *)

SlotKept == slot

SlotAfterGet == NoFrame

(* FrameBuffer.get                                                         *)
Get ==
    /\ inf = "get" /\ slot # NoFrame
    /\ inf' = "count"
    /\ current' = slot
    /\ slot' = SlotAfterGet
    /\ UNCHANGED <<proc, settings, cameraVars, late, files, dropped, bounds>>

(* count and send_crowd_count                                              *)
CountFrame ==
    /\ inf = "count"
    /\ inf' = "image"
    /\ late' = IF Active THEN late ELSE late + 1
    /\ UNCHANGED <<proc, settings, cameraVars, slot, current, files, dropped, bounds>>

(* The image goes out too when image_send_interval has passed.             *)
SendImage ==
    /\ inf = "image"
    /\ inf' = "remove"
    /\ UNCHANGED <<proc, settings, cameraVars, slot, current, late, files, dropped, bounds>>

AfterRaiseSkipping == "get"

AfterRaiseEnds == "off"

AfterRaise == "remove"

(* count or send_image raises.                                             *)
InferenceRaises ==
    /\ inf \in {"count", "image"}
    /\ Fault
    /\ inf' = AfterRaise
    /\ UNCHANGED <<proc, settings, cameraVars, slot, current, late, files, dropped>>

(* The end of an iteration, and the test of the while loop.                *)
LeaveFrame ==
    /\ inf = "remove"
    /\ current' = NoFrame
    /\ inf' = IF proc = "stopping" THEN "off" ELSE "get"
    /\ UNCHANGED <<proc, settings, cameraVars, slot, late>>

RemoveFile ==
    /\ LeaveFrame
    /\ files' = files \ {current}
    /\ UNCHANGED <<dropped, bounds>>

(* An OSError of os.remove is passed over, and nobody tries again.         *)
RemoveFails ==
    /\ LeaveFrame
    /\ Fault
    /\ dropped' = dropped \cup {current}
    /\ UNCHANGED files

(* get times out, and the loop finds the shutdown event.                   *)
InferenceStops ==
    /\ inf = "get" /\ slot = NoFrame /\ proc = "stopping"
    /\ inf' = "off"
    /\ UNCHANGED <<proc, settings, cameraVars, slot, current, late, files, dropped, bounds>>

-----------------------------------------------------------------------------
(* The MQTT thread and the process                                         *)

ReceiveAdmin(c) ==
    /\ proc # "down"
    /\ commands < MaxCommands
    /\ commands' = commands + 1
    /\ settings' = HandleAdmin(settings, c)
    /\ late' = IF settings'["pipeline_active"] THEN 0 ELSE late
    /\ UNCHANGED <<proc, cameraVars, slot, inf, current, files, dropped, faults>>

(* main starts the threads; a camera that does not open is logged, and the *)
(* device runs without its thread.                                         *)
Start ==
    /\ proc = "down"
    /\ proc' = "run"
    /\ settings' = Defaults
    /\ inf' = "get"
    /\ late' = 0
    /\ \/ cam' = "check" /\ UNCHANGED bounds
       \/ cam' = "off" /\ Fault
    /\ UNCHANGED <<frames, slot, current, files, dropped>>

Signal ==
    /\ proc = "run"
    /\ Fault
    /\ proc' = "stopping"
    /\ UNCHANGED <<settings, cameraVars, slot, inferenceVars, files, dropped>>

(* Frames whose files are still in somebody's hands.                       *)
Held == ({slot, current} \cup IF cam = "put" THEN {frames} ELSE {}) \ {NoFrame}

ProcessEnds ==
    /\ proc' = "down"
    /\ cam' = "off" /\ inf' = "off"
    /\ slot' = NoFrame /\ current' = NoFrame
    /\ dropped' = dropped \cup Held
    /\ UNCHANGED <<settings, frames, late, files>>

(* camera.stop and main join the threads for five seconds each, and leave  *)
(* whichever has not ended to the end of the process.                      *)
Exit ==
    /\ proc = "stopping"
    /\ ProcessEnds
    /\ UNCHANGED bounds

Crash ==
    /\ proc # "down"
    /\ ProcessEnds
    /\ Fault

-----------------------------------------------------------------------------
Camera ==
    CheckActive \/ Capture \/ CaptureFails \/ WriteFails \/ Put \/ CameraStops
Inference ==
    \/ Get \/ CountFrame \/ SendImage \/ InferenceRaises
    \/ RemoveFile \/ RemoveFails \/ InferenceStops

Next ==
    \/ Camera \/ Inference
    \/ \E c \in Commands : ReceiveAdmin(c)
    \/ Start \/ Signal \/ Exit \/ Crash

Spec == Init /\ [][Next]_vars

(* Both threads loop for ever; count waits for a model swap, which ends.   *)
FairSpec == Spec /\ WF_vars(Camera) /\ WF_vars(Inference)

-----------------------------------------------------------------------------
TypeOK ==
    /\ proc \in {"down", "run", "stopping"}
    /\ DOMAIN settings = Key
    /\ cam \in {"off", "check", "read", "put"}
    /\ inf \in {"off", "get", "count", "image", "remove"}
    /\ {slot, current} \subseteq 0 .. frames
    /\ frames \in 0 .. MaxFrames
    /\ files \subseteq Frame /\ dropped \subseteq Frame
    /\ late \in Nat
    /\ commands \in 0 .. MaxCommands /\ faults \in 0 .. MaxFaults

(* A temporary file that no thread is about to remove was overwritten in   *)
(* the buffer (FrameBuffer.put), could not be written or removed, or was   *)
(* held when its process ended: whatever count or send_image raise, the    *)
(* finally clause of inference_loop tries to remove the file.              *)
LeakHasCause == files \subseteq Held \cup dropped

(* stop_pipeline does not take back what is under way, but lets through no *)
(* more than the frame being captured, the one in the buffer and the one   *)
(* being counted.                                                          *)
BoundedAfterStop == ~ Active => late <= 3

(* A pipeline that is stopped falls silent: nothing captured, buffered or  *)
(* being counted, until somebody starts it again or the process ends.      *)
StopHalts ==
    (proc = "run" /\ ~ Active) ~>
        \/ proc # "run" \/ Active
        \/ cam \in {"off", "check"} /\ slot = NoFrame /\ inf = "get"
=============================================================================
