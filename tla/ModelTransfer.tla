---------------------------- MODULE ModelTransfer ----------------------------
(***************************************************************************)
(* Distribution of a model file to an edge device over MQTT.  Composed:    *)
(*                                                                         *)
(*  - ModelDistributor.distribute_model, called from the backend's command *)
(*    loop, one call at a time, in the main thread;                        *)
(*  - BrokerHandler._handle_model and ModelDistributor.on_model_ack, in    *)
(*    the backend's MQTT thread;                                           *)
(*  - ModelReceiver, in the MQTT thread of every edge device;              *)
(*  - the topics edge/<device>/model: one FIFO queue each way.  QoS 2 and  *)
(*    persistent sessions neither lose nor repeat a message, except that a *)
(*    device that restarts loses what its client held in memory.           *)
(*                                                                         *)
(* A file is its model: chunk k of model m is the pair (k, m), and two     *)
(* models have no chunk in common.  SHA-256 is taken as injective.         *)
(***************************************************************************)
EXTENDS Integers, Sequences, FiniteSets

CONSTANTS
    Device,
    Model,
    Chunks,            \* Chunks[m]: number of chunks of m; 0 for an empty file
    Filename,          \* Filename[m]: the name it is distributed under
    None,
    MaxDistributions,  \* bound on calls of distribute_model
    MaxCorruptions,    \* bound on messages damaged on the way to a device
    MaxRestarts        \* bound on restarts of edge devices

ASSUME ChunksAssumption == Chunks \in [Model -> Nat]
ASSUME NoneAssumption == None \notin Model
ASSUME BoundsAssumption ==
    {MaxDistributions, MaxCorruptions, MaxRestarts} \subseteq Nat

VARIABLES
    (* distribute_model *)
    pc, job, nextChunk, missing, result,
    (* ModelDistributor's fields, shared with the MQTT thread *)
    ackEvent, ackData,
    (* the MQTT thread is between the two statements of on_model_ack *)
    signalling,
    (* model_versions *)
    registered,
    (* the MQTT queues *)
    down, up,
    (* ModelReceiver: the meta in force, and the chunk files of temp_dir *)
    meta, files,
    (* Edge/main.py has come as far as set_model_receiver                  *)
    wired,
    (* verified and acknowledged, on_model_ready not called yet; last file *)
    (* handed to on_model_ready                                            *)
    ready, installed,
    (* history: models sent to a device, files it has verified, whether a  *)
    (* wait has timed out; and the counters behind the bounds              *)
    sent, verified, timedOut, distributions, corruptions, restarts

distributorVars == <<pc, job, nextChunk, missing, result, timedOut, distributions>>
ackVars == <<ackEvent, ackData, signalling, registered>>
receiverVars == <<meta, files, wired, ready, installed, verified>>
faultVars == <<corruptions, restarts>>

vars == <<distributorVars, ackVars, receiverVars, faultVars, down, up, sent>>

-----------------------------------------------------------------------------
ChunksOf(m) == 0 .. Chunks[m] - 1

Index == UNION {ChunksOf(m) : m \in Model}

NoFiles == [k \in Index |-> None]

MetaMessage(m) == [type |-> "meta", model |-> m]

ChunkMessage(m, k) == [type |-> "chunk", model |-> m, index |-> k]

Jobs == [device : Device, model : Model]

Messages == [type : {"meta"}, model : Model]
              \cup [type : {"chunk"}, model : Model, index : Index]

Acks == [status : {"success", "error"}, filename : {Filename[m] : m \in Model},
         missing : SUBSET Index]

(* None is neither the bool that distribute_model returns nor an ACK.      *)
ASSUME AnswerAssumption ==
    None \notin BOOLEAN /\ None \notin [device : Device, ack : Acks]

(* An assembled file: the model its meta announced, and the models its     *)
(* chunks really came from.                                                *)
Assembled == [model : Model, parts : SUBSET (Model \cup {None})]

Init ==
    /\ pc = "idle" /\ job = None /\ nextChunk = 0 /\ missing = {} /\ result = None
    /\ ackEvent = FALSE /\ ackData = None /\ signalling = FALSE
    /\ registered = {}
    /\ down = [d \in Device |-> <<>>]
    /\ up = [d \in Device |-> <<>>]
    /\ meta = [d \in Device |-> None]
    /\ files = [d \in Device |-> NoFiles]
    /\ wired = [d \in Device |-> TRUE]
    /\ ready = [d \in Device |-> None]
    /\ installed = [d \in Device |-> None]
    /\ sent = [d \in Device |-> {}]
    /\ verified = [d \in Device |-> {}]
    /\ timedOut = FALSE
    /\ distributions = 0 /\ corruptions = 0 /\ restarts = 0

-----------------------------------------------------------------------------
(* distribute_model.  Its locals are kept after it returns, so that the    *)
(* result can be compared with the job; the next call resets them.         *)

StartCall(d, m) ==
    /\ pc = "idle"
    /\ distributions < MaxDistributions
    /\ distributions' = distributions + 1
    /\ job' = [device |-> d, model |-> m]
    /\ nextChunk' = 0
    /\ missing' = {}
    /\ result' = None
    /\ UNCHANGED <<timedOut, ackData, signalling, registered, receiverVars,
                   faultVars, down, up, sent>>

DistributeWithoutClearing(d, m) ==
    StartCall(d, m) /\ pc' = "meta" /\ UNCHANGED ackEvent

(* The call, up to and including _ack_event.clear().                       *)
Distribute(d, m) ==
    StartCall(d, m) /\ pc' = "clear" /\ ackEvent' = FALSE

(* with self._ack_lock: self._ack_data = None                              *)
ClearAckData ==
    /\ pc = "clear"
    /\ ackData' = None
    /\ pc' = "meta"
    /\ UNCHANGED <<job, nextChunk, missing, result, timedOut, distributions,
                   ackEvent, signalling, registered, receiverVars, faultVars,
                   down, up, sent>>

Publish(message) ==
    down' = [down EXCEPT ![job.device] = Append(@, message)]

PublishMeta ==
    /\ pc = "meta"
    /\ Publish(MetaMessage(job.model))
    /\ sent' = [sent EXCEPT ![job.device] = @ \cup {job.model}]
    /\ pc' = "chunks"
    /\ UNCHANGED <<job, nextChunk, missing, result, timedOut, distributions,
                   ackVars, receiverVars, faultVars, up>>

OneChunkTooFew == nextChunk < Chunks[job.model] - 1

(* for i in range(total_chunks)                                            *)
MoreToPublish == nextChunk < Chunks[job.model]

PublishChunk ==
    /\ pc = "chunks"
    /\ MoreToPublish
    /\ Publish(ChunkMessage(job.model, nextChunk))
    /\ nextChunk' = nextChunk + 1
    /\ UNCHANGED <<pc, job, missing, result, timedOut, distributions, ackVars,
                   receiverVars, faultVars, up, sent>>

ClearAfterPublishing ==
    /\ pc = "chunks"
    /\ ~MoreToPublish
    /\ pc' = "wait"
    /\ ackEvent' = FALSE
    /\ UNCHANGED <<job, nextChunk, missing, result, timedOut, distributions,
                   ackData, signalling, registered, receiverVars, faultVars,
                   down, up, sent>>

AllPublished ==
    /\ pc = "chunks"
    /\ ~MoreToPublish
    /\ pc' = "wait"
    /\ UNCHANGED <<job, nextChunk, missing, result, timedOut, distributions,
                   ackVars, receiverVars, faultVars, down, up, sent>>

(* _ack_event.wait() returns True: the ACK is read in a later step.        *)
WaitReturns ==
    /\ \/ pc = "wait" /\ pc' = "read"
       \/ pc = "retryWait" /\ pc' = "retryRead"
    /\ ackEvent
    /\ UNCHANGED <<job, nextChunk, missing, result, timedOut, distributions,
                   ackVars, receiverVars, faultVars, down, up, sent>>

WaitForever == pc \in {"wait", "retryWait"} /\ ~ackEvent /\ UNCHANGED vars

(* _ack_event.wait() returns False after MODEL_ACK_TIMEOUT.                *)
WaitTimesOut ==
    /\ pc \in {"wait", "retryWait"}
    /\ ~ackEvent
    /\ timedOut' = TRUE
    /\ result' = FALSE
    /\ pc' = "idle"
    /\ UNCHANGED <<job, nextChunk, missing, distributions, ackVars,
                   receiverVars, faultVars, down, up, sent>>

(* The ACK is taken for an answer to this call whoever sent it.            *)
Succeeded == ackData # None /\ ackData.ack.status = "success"

(* missing_chunks of an ACK that is not a success.                         *)
MissingChunks ==
    IF ackData = None \/ Succeeded THEN {} ELSE ackData.ack.missing

ReadAck ==
    /\ pc = "read"
    /\ \/ /\ MissingChunks # {}
          /\ missing' = MissingChunks
          /\ pc' = "retry"
          /\ UNCHANGED result
       \/ /\ MissingChunks = {}
          /\ result' = Succeeded
          /\ pc' = "idle"
          /\ UNCHANGED missing
    /\ UNCHANGED <<job, nextChunk, timedOut, distributions, ackVars,
                   receiverVars, faultVars, down, up, sent>>

(* _retry_chunks: the missing chunks in ascending order, sliced out of     *)
(* this call's file.                                                       *)
RetryChunk ==
    /\ pc = "retry"
    /\ \E k \in missing :
          /\ \A j \in missing : k <= j
          /\ Publish(ChunkMessage(job.model, k))
          /\ missing' = missing \ {k}
    /\ UNCHANGED <<pc, job, nextChunk, result, timedOut, distributions, ackVars,
                   receiverVars, faultVars, up, sent>>

(* Only now are the event and then the data cleared.                       *)
RetryClearEvent ==
    /\ pc = "retry"
    /\ missing = {}
    /\ ackEvent' = FALSE
    /\ pc' = "retryClear"
    /\ UNCHANGED <<job, nextChunk, missing, result, timedOut, distributions,
                   ackData, signalling, registered, receiverVars, faultVars,
                   down, up, sent>>

RetryClearData ==
    /\ pc = "retryClear"
    /\ ackData' = None
    /\ pc' = "retryWait"
    /\ UNCHANGED <<job, nextChunk, missing, result, timedOut, distributions,
                   ackEvent, signalling, registered, receiverVars, faultVars,
                   down, up, sent>>

RetryReadAck ==
    /\ pc = "retryRead"
    /\ result' = Succeeded
    /\ pc' = "idle"
    /\ UNCHANGED <<job, nextChunk, missing, timedOut, distributions, ackVars,
                   receiverVars, faultVars, down, up, sent>>

-----------------------------------------------------------------------------
(* The backend's MQTT thread.                                              *)

(* _handle_model and the locked part of on_model_ack.  A model version is  *)
(* registered for status "ok" only.                                        *)
StoreAck(d) ==
    /\ ~signalling
    /\ up[d] # <<>>
    /\ up' = [up EXCEPT ![d] = Tail(@)]
    /\ registered' = IF Head(up[d]).status = "ok"
                       THEN registered \cup {Head(up[d]).filename} ELSE registered
    /\ ackData' = [device |-> d, ack |-> Head(up[d])]
    /\ signalling' = TRUE
    /\ UNCHANGED <<distributorVars, ackEvent, receiverVars, faultVars, down, sent>>

(* self._ack_event.set(), after the lock is released.                      *)
SignalAck ==
    /\ signalling
    /\ signalling' = FALSE
    /\ ackEvent' = TRUE
    /\ UNCHANGED <<distributorVars, ackData, registered, receiverVars, faultVars,
                   down, up, sent>>

-----------------------------------------------------------------------------
(* ModelReceiver on device d.                                              *)

(* The MQTT thread of d takes the next message of the given type; it is    *)
(* free only when no on_model_ready is running.                            *)
Takes(d, type) ==
    /\ wired[d]
    /\ ready[d] = None
    /\ down[d] # <<>>
    /\ Head(down[d]).type = type
    /\ down' = [down EXCEPT ![d] = Tail(@)]

(* handle_meta: a new transfer replaces the one in progress.               *)
HandleMeta(d) ==
    /\ Takes(d, "meta")
    /\ meta' = [meta EXCEPT ![d] = Head(down[d]).model]
    /\ files' = [files EXCEPT ![d] = NoFiles]
    /\ UNCHANGED <<distributorVars, ackVars, wired, ready, installed, verified,
                   faultVars, up, sent>>

(* A meta that does not decode is logged; the old transfer stays active.   *)
RejectMeta(d) ==
    /\ Takes(d, "meta")
    /\ corruptions < MaxCorruptions
    /\ corruptions' = corruptions + 1
    /\ UNCHANGED <<distributorVars, ackVars, receiverVars, restarts, up, sent>>

(* A chunk that is too short or whose hash differs is logged and dropped.  *)
RejectChunk(d) ==
    /\ Takes(d, "chunk")
    /\ corruptions < MaxCorruptions
    /\ corruptions' = corruptions + 1
    /\ UNCHANGED <<distributorVars, ackVars, receiverVars, restarts, up, sent>>

(* No active transfer (temp_dir is None).                                  *)
IgnoreChunk(d) ==
    /\ Takes(d, "chunk")
    /\ meta[d] = None
    /\ UNCHANGED <<distributorVars, ackVars, receiverVars, faultVars, up, sent>>

(* temp_dir with the chunk file written, an older one of this index lost.  *)
Written(d) == [files[d] EXCEPT ![Head(down[d]).index] = Head(down[d]).model]

Received(f) == {k \in Index : f[k] # None}

CompleteOneEarly(d) == Cardinality(Received(Written(d))) + 1 >= Chunks[meta[d]]

(* len(_received_chunks) == _total_chunks, whichever chunks they are.      *)
Complete(d) == Cardinality(Received(Written(d))) = Chunks[meta[d]]

StoreChunk(d) ==
    /\ Takes(d, "chunk")
    /\ meta[d] # None
    /\ ~Complete(d)
    /\ files' = [files EXCEPT ![d] = Written(d)]
    /\ UNCHANGED <<distributorVars, ackVars, meta, wired, ready, installed,
                   verified, faultVars, up, sent>>

AlwaysAckSuccess(d, status, gaps) ==
    up' = [up EXCEPT ![d] = Append(@, [status |-> "success", missing |-> {},
                                       filename |-> Filename[meta[d]]])]

SendAck(d, status, gaps) ==
    up' = [up EXCEPT ![d] = Append(@, [status |-> status, missing |-> gaps,
                                       filename |-> Filename[meta[d]]])]

NothingMissing(d, f) == ChunksOf(meta[d]) \subseteq Received(f)

(* The full-file SHA-256 is the announced one.                             *)
HashMatches(d, f) == \A k \in ChunksOf(meta[d]) : f[k] = meta[d]

(* _assemble_and_verify fails: a chunk file is missing, or the hash        *)
(* differs.  The transfer stays active.                                    *)
AssembleFails(d) ==
    /\ Takes(d, "chunk")
    /\ meta[d] # None
    /\ Complete(d)
    /\ ~HashMatches(d, Written(d))
    /\ SendAck(d, "error", ChunksOf(meta[d]) \ Received(Written(d)))
    /\ files' = [files EXCEPT ![d] = Written(d)]
    /\ UNCHANGED <<distributorVars, ackVars, meta, wired, ready, installed,
                   verified, faultVars, sent>>

(* It succeeds: the ACK is published and the state reset before            *)
(* on_model_ready is called.                                               *)
AssembleSucceeds(d) ==
    /\ Takes(d, "chunk")
    /\ meta[d] # None
    /\ Complete(d)
    /\ HashMatches(d, Written(d))
    /\ SendAck(d, "success", {})
    /\ LET file == [model |-> meta[d],
                    parts |-> {Written(d)[k] : k \in ChunksOf(meta[d])}]
       IN /\ ready' = [ready EXCEPT ![d] = file]
          /\ verified' = [verified EXCEPT ![d] = @ \cup {file}]
    /\ meta' = [meta EXCEPT ![d] = None]
    /\ files' = [files EXCEPT ![d] = NoFiles]
    /\ UNCHANGED <<distributorVars, ackVars, wired, installed, faultVars, sent>>

OnModelReady(d) ==
    /\ ready[d] # None
    /\ installed' = [installed EXCEPT ![d] = ready[d]]
    /\ ready' = [ready EXCEPT ![d] = None]
    /\ UNCHANGED <<distributorVars, ackVars, meta, files, wired, verified,
                   faultVars, down, up, sent>>

(* The device's process ends and starts again.  The receiver's state is    *)
(* gone, and with it the messages its MQTT client held in memory: those it *)
(* had taken over from the broker, and ACKs not yet sent.                  *)
EdgeRestart(d) ==
    /\ restarts < MaxRestarts
    /\ restarts' = restarts + 1
    /\ meta' = [meta EXCEPT ![d] = None]
    /\ files' = [files EXCEPT ![d] = NoFiles]
    /\ ready' = [ready EXCEPT ![d] = None]
    /\ wired' = [wired EXCEPT ![d] = FALSE]
    /\ \E n \in 0 .. Len(down[d]) :
          down' = [down EXCEPT ![d] = SubSeq(@, n + 1, Len(@))]
    /\ \E n \in 0 .. Len(up[d]) : up' = [up EXCEPT ![d] = SubSeq(@, 1, n)]
    /\ UNCHANGED <<distributorVars, ackVars, installed, verified, corruptions, sent>>

(* The MQTT loop of a starting device runs before set_model_receiver: the  *)
(* model messages that arrive until then are logged and dropped.           *)
DropUnwired(d) ==
    /\ ~wired[d]
    /\ down[d] # <<>>
    /\ down' = [down EXCEPT ![d] = Tail(@)]
    /\ UNCHANGED <<distributorVars, ackVars, receiverVars, faultVars, up, sent>>

SetModelReceiver(d) ==
    /\ ~wired[d]
    /\ wired' = [wired EXCEPT ![d] = TRUE]
    /\ UNCHANGED <<distributorVars, ackVars, meta, files, ready, installed,
                   verified, faultVars, down, up, sent>>

-----------------------------------------------------------------------------
DistributorStep ==
    \/ ClearAckData \/ PublishMeta \/ PublishChunk \/ AllPublished
    \/ WaitReturns \/ WaitTimesOut \/ ReadAck
    \/ RetryChunk \/ RetryClearEvent \/ RetryClearData \/ RetryReadAck

HandleChunk(d) ==
    IgnoreChunk(d) \/ StoreChunk(d) \/ AssembleFails(d) \/ AssembleSucceeds(d)

EdgeStep(d) == HandleMeta(d) \/ HandleChunk(d) \/ OnModelReady(d)
                 \/ SetModelReceiver(d)

Next ==
    \/ \E d \in Device, m \in Model : Distribute(d, m)
    \/ DistributorStep
    \/ SignalAck
    \/ \E d \in Device :
          \/ StoreAck(d)
          \/ EdgeStep(d)
          \/ DropUnwired(d)
          \/ RejectMeta(d) \/ RejectChunk(d)
          \/ EdgeRestart(d)

(* Threads keep running and MQTT keeps delivering; the operator need not   *)
(* call distribute_model, and no fault has to happen.                      *)
Fairness ==
    /\ WF_vars(DistributorStep)
    /\ WF_vars(SignalAck)
    /\ \A d \in Device : WF_vars(StoreAck(d)) /\ WF_vars(EdgeStep(d))

Spec == Init /\ [][Next]_vars /\ Fairness

-----------------------------------------------------------------------------
(* Properties                                                              *)

(* Every variable of the distributor, the MQTT thread, the topics and the  *)
(* receivers keeps its type; a call in progress has a device and a model.  *)
TypeOK ==
    /\ pc \in {"idle", "clear", "meta", "chunks", "wait", "read",
              "retry", "retryClear", "retryWait", "retryRead"}
    /\ job \in Jobs \cup {None}
    /\ pc # "idle" => job \in Jobs
    /\ nextChunk \in Nat
    /\ missing \subseteq Index
    /\ result \in BOOLEAN \cup {None}
    /\ ackEvent \in BOOLEAN
    /\ ackData \in [device : Device, ack : Acks] \cup {None}
    /\ signalling \in BOOLEAN
    /\ down \in [Device -> Seq(Messages)]
    /\ up \in [Device -> Seq(Acks)]
    /\ meta \in [Device -> Model \cup {None}]
    /\ files \in [Device -> [Index -> Model \cup {None}]]
    /\ wired \in [Device -> BOOLEAN]
    /\ ready \in [Device -> Assembled \cup {None}]
    /\ installed \in [Device -> Assembled \cup {None}]
    /\ sent \in [Device -> SUBSET Model]
    /\ verified \in [Device -> SUBSET Assembled]

Intact(d, file) == file.model \in sent[d] /\ file.parts \subseteq {file.model}

(* Whatever is damaged, dropped or mixed up on the way, the file a device  *)
(* hands to its model manager is, chunk for chunk, one model that was      *)
(* distributed to this device.                                             *)
InstallIntegrity ==
    \A d \in Device : installed[d] # None => Intact(d, installed[d])

Acknowledged(d, ack) ==
    ack.status = "success" =>
        \E file \in verified[d] :
            Filename[file.model] = ack.filename /\ Intact(d, file)

(* A success ACK, on its way or in _ack_data, is the truth about the       *)
(* device that sent it: it has verified an intact model of that name.      *)
AckTruthful ==
    /\ \A d \in Device : \A n \in 1 .. Len(up[d]) : Acknowledged(d, up[d][n])
    /\ ackData # None => Acknowledged(ackData.device, ackData.ack)

Quiet ==
    /\ \A d \in Device : down[d] = <<>> /\ up[d] = <<>>
    /\ ~signalling

(* The event is cleared early enough ("to avoid race condition"): as long  *)
(* as no message is damaged and no device restarts, distribute_model never *)
(* waits for an ACK that has come and gone.                                *)
NoLostAck ==
    /\ pc = "wait" /\ Quiet
    /\ Chunks[job.model] > 0
    /\ corruptions = 0 /\ restarts = 0
    => ackEvent

(* The order meta, chunks, meta, chunks of a FIFO topic never leaves a     *)
(* receiver with the chunks of two transfers: without damage on the way no *)
(* error ACK is sent and the retry path is not taken.                      *)
ErrorAckNeedsDamage ==
    corruptions = 0 =>
        /\ \A d \in Device : \A n \in 1 .. Len(up[d]) : up[d][n].status = "success"
        /\ pc \notin {"retry", "retryClear", "retryWait", "retryRead"}

Delivered(d, m) == \E file \in verified[d] : file.model = m

(* Until some wait has timed out, the answer of distribute_model is right, *)
(* over any number of calls: True means that this device has this model,   *)
(* and False is not answered, whatever is damaged or restarted.            *)
AnswerIsRight ==
    ~timedOut =>
        /\ result = TRUE => Delivered(job.device, job.model)
        /\ result # FALSE

(* Every call of distribute_model returns.                                 *)
DistributionEnds == pc # "idle" ~> pc = "idle"

Faulty == corruptions > 0 \/ restarts > 0

(* Without faults a model that is not an empty file reaches the model      *)
(* manager of its device, even if the backend has stopped waiting for it.  *)
EventuallyInstalled ==
    \A d \in Device, m \in Model :
        (pc = "wait" /\ job = [device |-> d, model |-> m] /\ Chunks[m] > 0)
            ~> (installed[d] # None /\ installed[d].model = m) \/ Faulty

-----------------------------------------------------------------------------
(* What the repository says and the code does not do.                      *)

(* "Returns True on successful delivery"                                   *)
SuccessMeansDelivered == result = TRUE => Delivered(job.device, job.model)
=============================================================================
