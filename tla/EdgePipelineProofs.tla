------------------------- MODULE EdgePipelineProofs --------------------------
(***************************************************************************)
(* The theorems about EdgePipeline, for any number of captures, commands   *)
(* and faults.                                                             *)
(***************************************************************************)
EXTENDS EdgePipeline, TLAPS

One(b) == IF b THEN 1 ELSE 0

(* What has been published since the stop, and what may still be.          *)
UnderWay ==
    late + One(cam \in {"read", "put"}) + One(slot # NoFrame) + One(inf = "count")

Stopping ==
    /\ Active => late = 0
    /\ ~ Active => UnderWay <= 3

(* Who holds a frame, thread by thread.                                    *)
Owned ==
    /\ inf \in {"off", "get"} => current = NoFrame
    /\ proc = "down" => cam = "off" /\ inf = "off"
    /\ inf \in {"count", "image", "remove"} => current # NoFrame
    /\ cam = "read" => frames < MaxFrames

IInv == TypeOK /\ Stopping /\ Owned /\ LeakHasCause

(* Every step of the threads, of the MQTT thread and of the process keeps  *)
(* the invariant.                                                          *)
LEMMA EdgeStep == IInv /\ [Next]_vars => IInv'
<1> SUFFICES ASSUME IInv, [Next]_vars
             PROVE  IInv'
  OBVIOUS
<1>a. {MaxFrames, MaxCommands, MaxFaults} \subseteq Nat
  BY EdgeAssumption
<1> USE <1>a DEF IInv, TypeOK, Stopping, Owned, LeakHasCause, Held, UnderWay, One, NoFrame, Frame,
                 cameraVars, inferenceVars, bounds
<1>1. CASE CheckActive
  BY <1>1 DEF CheckActive, MayCapture, Active
<1>2. CASE Capture
  BY <1>2 DEF Capture, Active
<1>3. CASE CaptureFails
  BY <1>3 DEF CaptureFails, Fault, Active
<1>3a. CASE WriteFails
  <2>1. frames' \in Frame /\ frames' = frames + 1
    BY <1>3a DEF WriteFails
  <2>2. LeakHasCause'
    BY <1>3a DEF WriteFails
  <2>3. Stopping'
    BY <1>3a DEF WriteFails, Active
  <2>4. TypeOK' /\ Owned'
    BY <1>3a, <2>1 DEF WriteFails, Fault
  <2> QED
    BY <2>2, <2>3, <2>4
<1>4. CASE Put
  BY <1>4 DEF Put, Active
<1>5. CASE CameraStops
  BY <1>5 DEF CameraStops, Active
<1>6. CASE Get
  BY <1>6 DEF Get, SlotAfterGet, Active
<1>7. CASE CountFrame
  BY <1>7 DEF CountFrame, Active
<1>8. CASE SendImage
  BY <1>8 DEF SendImage, Active
<1>9. CASE InferenceRaises
  BY <1>9 DEF InferenceRaises, Fault, AfterRaise, Active
<1>c. ASSUME LeaveFrame
      PROVE  /\ Stopping' /\ Owned'
             /\ (files \subseteq Frame /\ dropped \subseteq Frame)'
                /\ (commands \in 0 .. MaxCommands /\ faults \in 0 .. MaxFaults)' => TypeOK'
  <2>1. inf' \in {"off", "get"}
    BY <1>c DEF LeaveFrame
  <2>2. Stopping'
    BY <1>c DEF LeaveFrame, Active
  <2>3. Owned'
    BY <1>c, <2>1 DEF LeaveFrame
  <2> QED
    BY <1>c, <2>1, <2>2, <2>3 DEF LeaveFrame
<1>10. CASE RemoveFile
  <2>1. LeakHasCause'
    BY <1>10 DEF RemoveFile, LeaveFrame
  <2>2. (files \subseteq Frame /\ dropped \subseteq Frame)'
    BY <1>10 DEF RemoveFile
  <2>3. (commands \in 0 .. MaxCommands /\ faults \in 0 .. MaxFaults)'
    BY <1>10 DEF RemoveFile
  <2> QED
    BY <1>10, <1>c, <2>1, <2>2, <2>3 DEF RemoveFile
<1>10a. CASE RemoveFails
  <2>1. LeakHasCause'
    BY <1>10a DEF RemoveFails, LeaveFrame
  <2>2. current \in Frame
    <3>1. inf = "remove" /\ current \in 0 .. frames /\ frames \in 0 .. MaxFrames
      BY <1>10a DEF RemoveFails, LeaveFrame
    <3>2. current # 0
      BY <3>1
    <3> QED BY <3>1, <3>2
  <2>3. (files \subseteq Frame /\ dropped \subseteq Frame)'
    BY <1>10a, <2>2 DEF RemoveFails
  <2>4. (commands \in 0 .. MaxCommands /\ faults \in 0 .. MaxFaults)'
    BY <1>10a DEF RemoveFails, Fault
  <2> QED
    BY <1>10a, <1>c, <2>1, <2>3, <2>4 DEF RemoveFails
<1>11. CASE InferenceStops
  BY <1>11 DEF InferenceStops, Active
<1>12. ASSUME NEW c \in Commands, ReceiveAdmin(c)
       PROVE  IInv'
  <2>1. DOMAIN HandleAdmin(settings, c) = Key
    BY DEF HandleAdmin, Update, Key
  <2> QED
    BY <1>12, <2>1 DEF ReceiveAdmin, Active
<1>13. CASE Start
  <2>1. Active' /\ DOMAIN settings' = Key
    BY <1>13 DEF Start, Active, Defaults, Key
  <2> QED
    BY <1>13, <2>1 DEF Start, Fault
<1>14. CASE Signal
  BY <1>14 DEF Signal, Fault, Active
<1>b. ASSUME ProcessEnds
      PROVE  /\ Stopping' /\ Owned' /\ LeakHasCause'
             /\ (commands \in 0 .. MaxCommands /\ faults \in 0 .. MaxFaults)' => TypeOK'
  <2>1. Held \subseteq Frame
    OBVIOUS
  <2>2. LeakHasCause'
    BY <1>b DEF ProcessEnds
  <2>3. Stopping'
    BY <1>b DEF ProcessEnds, Active
  <2>4. Owned'
    BY <1>b DEF ProcessEnds
  <2>5. dropped' \subseteq Frame
    BY <1>b, <2>1 DEF ProcessEnds
  <2> QED
    BY <1>b, <2>2, <2>3, <2>4, <2>5 DEF ProcessEnds
<1>15. CASE Exit
  BY <1>15, <1>b DEF Exit
<1>16. CASE Crash
  <2>1. (commands \in 0 .. MaxCommands /\ faults \in 0 .. MaxFaults)'
    BY <1>16 DEF Crash, Fault
  <2> QED
    BY <1>16, <1>b, <2>1 DEF Crash
<1>17. CASE UNCHANGED vars
  BY <1>17 DEF vars, Active
<1> QED
  BY <1>1, <1>2, <1>3, <1>3a, <1>4, <1>5, <1>6, <1>7, <1>8, <1>9, <1>10, <1>10a, <1>11, <1>12, <1>13, <1>14,
     <1>15, <1>16, <1>17 DEF Next, Camera, Inference

(* The invariant holds in every state of the edge device.                  *)
LEMMA EdgeInvariant == Spec => []IInv
<1>1. Init => IInv
  BY EdgeAssumption
     DEF Init, IInv, TypeOK, Stopping, Owned, LeakHasCause, Held, UnderWay, One, NoFrame, Frame,
         Active, Defaults, Key
<1> QED
  BY <1>1, EdgeStep, PTL DEF Spec

(* The type invariant of the threads of an edge device.                    *)
THEOREM EdgeTypeCorrect == Spec => []TypeOK
  BY EdgeInvariant, PTL DEF IInv

(* stop_pipeline lets at most three more counts out: the frame being       *)
(* captured, the one in the buffer and the one being counted, whatever the *)
(* threads, further commands and restarts do.                              *)
THEOREM AtMostThreeAfterStop == Spec => []BoundedAfterStop
<1>1. IInv => BoundedAfterStop
  BY DEF IInv, TypeOK, Stopping, UnderWay, One, BoundedAfterStop
<1> QED
  BY <1>1, EdgeInvariant, PTL

(* No exception in count or send_image, no restart and no command makes    *)
(* the inference thread forget a temporary file: the files left over were  *)
(* overwritten in the buffer, could not be written or removed, or were     *)
(* held by a process that ended.                                           *)
THEOREM FilesAreAccountedFor == Spec => []LeakHasCause
  BY EdgeInvariant, PTL DEF IInv
=============================================================================
