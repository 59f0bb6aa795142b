------------------------- MODULE ModelTransferProofs -------------------------
(***************************************************************************)
(* The safety of ModelTransfer for every set of devices and models, any    *)
(* file sizes and any number of calls, damaged messages and restarts:      *)
(* type correctness, integrity, and what holds without damage, without     *)
(* faults at all, and until the first wait that times out.                 *)
(***************************************************************************)
EXTENDS ModelTransfer, FiniteSetTheorems, TLAPS

(* The queue operations of the MQTT topics.                                *)

(* Publishing adds one element at the end.                                 *)
LEMMA AppendFacts ==
    ASSUME NEW S, NEW q \in Seq(S), NEW e \in S
    PROVE  /\ Append(q, e) \in Seq(S)
           /\ Len(Append(q, e)) = Len(q) + 1
           /\ \A n \in 1 .. Len(Append(q, e)) :
                 IF n = Len(q) + 1 THEN Append(q, e)[n] = e
                 ELSE n \in 1 .. Len(q) /\ Append(q, e)[n] = q[n]
OBVIOUS

(* Taking a message leaves the others in their order.                      *)
LEMMA TailFacts ==
    ASSUME NEW S, NEW q \in Seq(S), q # <<>>
    PROVE  /\ Tail(q) \in Seq(S)
           /\ Head(q) = q[1] /\ 1 \in 1 .. Len(q) /\ Head(q) \in S
           /\ \A n \in 1 .. Len(Tail(q)) :
                 n + 1 \in 1 .. Len(q) /\ Tail(q)[n] = q[n + 1]
OBVIOUS

(* Only the empty queue has length zero.                                   *)
LEMMA EmptyFacts ==
    ASSUME NEW S, NEW q \in Seq(S)
    PROVE  Len(q) \in Nat /\ (q = <<>> <=> Len(q) = 0)
OBVIOUS

(* A restart keeps a contiguous part of a queue.                           *)
LEMMA SubSeqFacts ==
    ASSUME NEW S, NEW q \in Seq(S), NEW a \in 1 .. Len(q) + 1, NEW b \in 0 .. Len(q)
    PROVE  /\ SubSeq(q, a, b) \in Seq(S)
           /\ \A n \in 1 .. Len(SubSeq(q, a, b)) :
                 a + n - 1 \in 1 .. Len(q) /\ SubSeq(q, a, b)[n] = q[a + n - 1]
<1>1. \A n \in a .. b : q[n] \in S
  OBVIOUS
<1>2. Len(SubSeq(q, a, b)) = IF a <= b THEN b - a + 1 ELSE 0
  OBVIOUS
<1>3. \A n \in 1 .. Len(SubSeq(q, a, b)) :
         a + n - 1 \in 1 .. Len(q) /\ SubSeq(q, a, b)[n] = q[a + n - 1]
  BY <1>2
<1> QED BY <1>1, <1>2, <1>3

-----------------------------------------------------------------------------
(* Type correctness                                                        *)

(* The constants' sets the type invariant is made of.                      *)
LEMMA IndexFacts ==
    /\ \A m \in Model : ChunksOf(m) \subseteq Index /\ Chunks[m] \in Nat
    /\ Index \subseteq Nat
    /\ NoFiles \in [Index -> Model \cup {None}]
<1>1. \A m \in Model : ChunksOf(m) \subseteq Index /\ Chunks[m] \in Nat
  BY ChunksAssumption DEF Index
<1>2. \A m \in Model : ChunksOf(m) \subseteq Nat
  BY <1>1 DEF ChunksOf
<1>3. Index \subseteq Nat
  BY <1>2 DEF Index
<1> QED BY <1>1, <1>3 DEF NoFiles

(* What a device finds at the head of its queue.                           *)
LEMMA HeadFacts ==
    ASSUME TypeOK, NEW d \in Device, down[d] # <<>>
    PROVE  /\ Head(down[d]) \in Messages
           /\ Head(down[d]).model \in Model
           /\ Head(down[d]).type = "chunk" => Head(down[d]).index \in Index
           /\ Head(down[d]).type = "chunk" =>
                 Written(d) \in [Index -> Model \cup {None}]
           /\ [down EXCEPT ![d] = Tail(@)] \in [Device -> Seq(Messages)]
<1>1. down[d] \in Seq(Messages)
  BY DEF TypeOK
<1>2. Head(down[d]) \in Messages /\ Tail(down[d]) \in Seq(Messages)
  BY <1>1, TailFacts
<1>3. /\ Head(down[d]).model \in Model
      /\ Head(down[d]).type = "chunk" => Head(down[d]).index \in Index
  BY <1>2 DEF Messages
<1> QED BY <1>2, <1>3 DEF TypeOK, Written

(* An ACK the receiver publishes is an ACK.                                *)
LEMMA SendAckFacts ==
    ASSUME TypeOK, NEW d \in Device, meta[d] # None,
           NEW status \in {"success", "error"}, NEW gaps \in SUBSET Index,
           SendAck(d, status, gaps)
    PROVE  up' \in [Device -> Seq(Acks)]
<1>1. [status |-> status, missing |-> gaps, filename |-> Filename[meta[d]]] \in Acks
  BY DEF TypeOK, Acks
<1>2. up[d] \in Seq(Acks)
  BY DEF TypeOK
<1>3. Append(up[d], [status |-> status, missing |-> gaps,
                     filename |-> Filename[meta[d]]]) \in Seq(Acks)
  BY <1>1, <1>2, AppendFacts
<1> QED BY <1>3 DEF SendAck, TypeOK

(* A message the distributor publishes goes to the end of the queue.       *)
LEMMA PublishFacts ==
    ASSUME TypeOK, job \in Jobs, NEW message \in Messages, Publish(message)
    PROVE  down' \in [Device -> Seq(Messages)]
<1>1. job.device \in Device /\ down[job.device] \in Seq(Messages)
  BY DEF TypeOK, Jobs
<1>2. Append(down[job.device], message) \in Seq(Messages)
  BY <1>1, AppendFacts
<1> QED BY <1>1, <1>2 DEF Publish, TypeOK

(* Nothing has happened yet.                                               *)
LEMMA InitType == Init => TypeOK
<1> SUFFICES ASSUME Init PROVE TypeOK
  OBVIOUS
<1>1. /\ down \in [Device -> Seq(Messages)] /\ up \in [Device -> Seq(Acks)]
      /\ sent \in [Device -> SUBSET Model]
      /\ verified \in [Device -> SUBSET Assembled]
      /\ ready \in [Device -> Assembled \cup {None}]
      /\ installed \in [Device -> Assembled \cup {None}]
  BY DEF Init
<1>2. /\ meta \in [Device -> Model \cup {None}]
      /\ files \in [Device -> [Index -> Model \cup {None}]]
      /\ wired \in [Device -> BOOLEAN]
  BY IndexFacts DEF Init
<1> QED BY <1>1, <1>2 DEF Init, TypeOK

(* Every step keeps the types.                                             *)
LEMMA StepType == TypeOK /\ [Next]_vars => TypeOK'
<1> SUFFICES ASSUME TypeOK, [Next]_vars PROVE TypeOK'
  OBVIOUS
<1> USE DEF distributorVars, ackVars, receiverVars, faultVars
<1>1. ASSUME NEW d \in Device, NEW m \in Model, Distribute(d, m) PROVE TypeOK'
  BY <1>1 DEF TypeOK, Distribute, StartCall, Jobs
<1>2. CASE ClearAckData
  BY <1>2 DEF TypeOK, ClearAckData
<1>3. CASE PublishMeta
  <2>1. job \in Jobs /\ job.device \in Device /\ job.model \in Model
    BY <1>3 DEF PublishMeta, TypeOK, Jobs
  <2>2. MetaMessage(job.model) \in Messages
    BY <2>1 DEF MetaMessage, Messages
  <2>3. down' \in [Device -> Seq(Messages)]
    BY <1>3, <2>1, <2>2, PublishFacts DEF PublishMeta
  <2>4. sent' \in [Device -> SUBSET Model]
    BY <1>3, <2>1 DEF PublishMeta, TypeOK
  <2> QED BY <1>3, <2>1, <2>3, <2>4 DEF PublishMeta, TypeOK
<1>4. CASE PublishChunk
  <2>1. job \in Jobs /\ job.model \in Model
    BY <1>4 DEF PublishChunk, TypeOK, Jobs
  <2>2. nextChunk \in Index
    <3>1. nextChunk \in Nat /\ nextChunk < Chunks[job.model]
      BY <1>4 DEF PublishChunk, MoreToPublish, TypeOK
    <3>2. nextChunk \in ChunksOf(job.model)
      BY <2>1, <3>1, IndexFacts DEF ChunksOf
    <3> QED BY <2>1, <3>2, IndexFacts
  <2>3. ChunkMessage(job.model, nextChunk) \in Messages
    BY <2>1, <2>2 DEF ChunkMessage, Messages
  <2>4. down' \in [Device -> Seq(Messages)]
    BY <1>4, <2>1, <2>3, PublishFacts DEF PublishChunk
  <2> QED BY <1>4, <2>1, <2>4 DEF PublishChunk, TypeOK
<1>5. CASE AllPublished
  BY <1>5 DEF TypeOK, AllPublished
<1>6. CASE WaitReturns
  BY <1>6 DEF TypeOK, WaitReturns
<1>7. CASE WaitTimesOut
  BY <1>7 DEF TypeOK, WaitTimesOut
<1>8. CASE ReadAck
  <2>1. MissingChunks \subseteq Index
    BY DEF TypeOK, MissingChunks, Acks
  <2>2. Succeeded \in BOOLEAN
    BY DEF Succeeded
  <2> QED BY <1>8, <2>1, <2>2 DEF TypeOK, ReadAck
<1>9. CASE RetryChunk
  <2>1. job \in Jobs /\ job.model \in Model
    BY <1>9 DEF RetryChunk, TypeOK, Jobs
  <2>2. PICK k \in missing : /\ Publish(ChunkMessage(job.model, k))
                             /\ missing' = missing \ {k}
    BY <1>9 DEF RetryChunk
  <2>3. ChunkMessage(job.model, k) \in Messages
    BY <2>1 DEF ChunkMessage, Messages, TypeOK
  <2>4. down' \in [Device -> Seq(Messages)]
    BY <2>1, <2>2, <2>3, PublishFacts
  <2> QED BY <1>9, <2>1, <2>2, <2>4 DEF RetryChunk, TypeOK
<1>10. CASE RetryClearEvent
  BY <1>10 DEF TypeOK, RetryClearEvent
<1>11. CASE RetryClearData
  BY <1>11 DEF TypeOK, RetryClearData
<1>12. CASE RetryReadAck
  BY <1>12 DEF TypeOK, RetryReadAck, Succeeded
<1>13. CASE SignalAck
  BY <1>13 DEF TypeOK, SignalAck
<1>14. ASSUME NEW d \in Device, StoreAck(d) PROVE TypeOK'
  <2>1. up[d] \in Seq(Acks) /\ up[d] # <<>>
    BY <1>14 DEF StoreAck, TypeOK
  <2>2. Head(up[d]) \in Acks /\ Tail(up[d]) \in Seq(Acks)
    BY <2>1, TailFacts
  <2> QED BY <1>14, <2>2 DEF StoreAck, TypeOK
<1>15. ASSUME NEW d \in Device, HandleMeta(d) PROVE TypeOK'
  BY <1>15, HeadFacts, IndexFacts DEF TypeOK, HandleMeta, Takes
<1>16. ASSUME NEW d \in Device, RejectMeta(d) \/ RejectChunk(d) PROVE TypeOK'
  <2>1. CASE RejectMeta(d)
    BY <2>1, HeadFacts DEF TypeOK, RejectMeta, Takes
  <2>2. CASE RejectChunk(d)
    BY <2>2, HeadFacts DEF TypeOK, RejectChunk, Takes
  <2> QED BY <1>16, <2>1, <2>2
<1>17. ASSUME NEW d \in Device, IgnoreChunk(d) PROVE TypeOK'
  BY <1>17, HeadFacts DEF TypeOK, IgnoreChunk, Takes
<1>18. ASSUME NEW d \in Device, StoreChunk(d) PROVE TypeOK'
  BY <1>18, HeadFacts DEF TypeOK, StoreChunk, Takes
<1>19. ASSUME NEW d \in Device, AssembleFails(d) PROVE TypeOK'
  <2>1. meta[d] \in Model
    BY <1>19 DEF AssembleFails, TypeOK
  <2>2. ChunksOf(meta[d]) \ Received(Written(d)) \in SUBSET Index
    BY <2>1, IndexFacts
  <2>3. up' \in [Device -> Seq(Acks)]
    BY <1>19, <2>2, SendAckFacts DEF AssembleFails
  <2> QED BY <1>19, <2>3, HeadFacts DEF TypeOK, AssembleFails, Takes
<1>20. ASSUME NEW d \in Device, AssembleSucceeds(d) PROVE TypeOK'
  <2> DEFINE file == [model |-> meta[d],
                      parts |-> {Written(d)[k] : k \in ChunksOf(meta[d])}]
  <2>1. meta[d] \in Model /\ up' \in [Device -> Seq(Acks)]
    BY <1>20, SendAckFacts DEF AssembleSucceeds, TypeOK
  <2>2. down' \in [Device -> Seq(Messages)]
        /\ Written(d) \in [Index -> Model \cup {None}]
    BY <1>20, HeadFacts DEF AssembleSucceeds, Takes
  <2>3. file \in Assembled
    BY <2>1, <2>2, IndexFacts DEF Assembled
  <2>4. /\ ready' = [ready EXCEPT ![d] = file]
        /\ verified' = [verified EXCEPT ![d] = @ \cup {file}]
    BY <1>20 DEF AssembleSucceeds
  <2> HIDE DEF file
  <2>5. ready' \in [Device -> Assembled \cup {None}]
        /\ verified' \in [Device -> SUBSET Assembled]
    BY <2>3, <2>4 DEF TypeOK
  <2> QED BY <1>20, <2>1, <2>2, <2>5, IndexFacts DEF TypeOK, AssembleSucceeds
<1>21. ASSUME NEW d \in Device, OnModelReady(d) PROVE TypeOK'
  BY <1>21 DEF TypeOK, OnModelReady
<1>22. ASSUME NEW d \in Device, EdgeRestart(d) PROVE TypeOK'
  <2>1. down[d] \in Seq(Messages) /\ up[d] \in Seq(Acks)
    BY DEF TypeOK
  <2>2. \A n \in 0 .. Len(down[d]) : SubSeq(down[d], n + 1, Len(down[d])) \in Seq(Messages)
    BY <2>1, SubSeqFacts
  <2>3. \A n \in 0 .. Len(up[d]) : SubSeq(up[d], 1, n) \in Seq(Acks)
    BY <2>1, SubSeqFacts
  <2> QED BY <1>22, <2>2, <2>3, IndexFacts DEF TypeOK, EdgeRestart
<1>23. ASSUME NEW d \in Device, DropUnwired(d) PROVE TypeOK'
  BY <1>23, HeadFacts DEF TypeOK, DropUnwired
<1>24. ASSUME NEW d \in Device, SetModelReceiver(d) PROVE TypeOK'
  BY <1>24 DEF TypeOK, SetModelReceiver
<1>25. CASE UNCHANGED vars
  BY <1>25 DEF TypeOK, vars
<1> QED
  BY <1>1, <1>2, <1>3, <1>4, <1>5, <1>6, <1>7, <1>8, <1>9, <1>10, <1>11, <1>12,
     <1>13, <1>14, <1>15, <1>16, <1>17, <1>18, <1>19, <1>20, <1>21, <1>22, <1>23,
     <1>24, <1>25 DEF Next, DistributorStep, EdgeStep, HandleChunk

(* The state of the distributor, the queues and the receivers is what the  *)
(* code takes it for, whatever order threads, messages and faults come in: *)
(* no ACK names a chunk no model has, and no call runs without a job.      *)
THEOREM TransferTypeCorrect == Spec => []TypeOK
BY InitType, StepType, PTL DEF Spec

-----------------------------------------------------------------------------
(* Integrity.  The inductive invariant follows a model's name from the     *)
(* meta message in the queue over the meta in force to the verified file:  *)
(* only models sent to a device can be announced there, and the hash of    *)
(* the whole file ties every chunk to what was announced.                  *)

QueueSent ==
    \A d \in Device : \A n \in 1 .. Len(down[d]) :
        down[d][n].type = "meta" => down[d][n].model \in sent[d]

MetaSent == \A d \in Device : meta[d] # None => meta[d] \in sent[d]

VerifiedIntact == \A d \in Device : \A file \in verified[d] : Intact(d, file)

ReadyIntact == \A d \in Device : ready[d] # None => Intact(d, ready[d])

AcksTruthful ==
    \A d \in Device : \A n \in 1 .. Len(up[d]) : Acknowledged(d, up[d][n])

AckDataTruthful == ackData # None => Acknowledged(ackData.device, ackData.ack)

Integrity ==
    /\ QueueSent /\ MetaSent
    /\ VerifiedIntact /\ ReadyIntact /\ InstallIntegrity
    /\ AcksTruthful /\ AckDataTruthful

(* Nothing has been announced, verified or acknowledged yet.               *)
LEMMA InitIntegrity == Init => Integrity
BY DEF Init, Integrity, QueueSent, MetaSent, VerifiedIntact, ReadyIntact,
       InstallIntegrity, AcksTruthful, AckDataTruthful

(* What is intact stays intact and what is acknowledged stays true, since  *)
(* the sets of models sent and of files verified only grow.                *)
LEMMA Grows ==
    ASSUME NEW d \in Device, sent[d] \subseteq sent'[d], verified[d] \subseteq verified'[d]
    PROVE  /\ \A file : Intact(d, file) => Intact(d, file)'
           /\ \A ack : Acknowledged(d, ack) => Acknowledged(d, ack)'
BY DEF Intact, Acknowledged

(* Taking a message, or losing some, announces nothing new.                *)
LEMMA TakeQueueSent ==
    ASSUME TypeOK, QueueSent, UNCHANGED sent, NEW d \in Device, down[d] # <<>>,
           down' = [down EXCEPT ![d] = Tail(@)]
    PROVE  /\ QueueSent'
           /\ Head(down[d]).type = "meta" => Head(down[d]).model \in sent[d]
<1>1. down[d] \in Seq(Messages) /\ DOMAIN down = Device
  BY DEF TypeOK
<1>2. /\ Head(down[d]) = down[d][1] /\ 1 \in 1 .. Len(down[d])
      /\ \A n \in 1 .. Len(Tail(down[d])) :
            n + 1 \in 1 .. Len(down[d]) /\ Tail(down[d])[n] = down[d][n + 1]
  BY <1>1, TailFacts
<1>3. ASSUME NEW e \in Device, NEW n \in 1 .. Len(down'[e]), down'[e][n].type = "meta"
      PROVE  down'[e][n].model \in sent'[e]
  <2>1. CASE e = d
    BY <1>1, <1>2, <1>3, <2>1 DEF QueueSent
  <2>2. CASE e # d
    BY <1>1, <1>3, <2>2 DEF QueueSent
  <2> QED BY <2>1, <2>2
<1> QED BY <1>2, <1>3 DEF QueueSent

(* A chunk at the end of a queue announces nothing.                        *)
LEMMA PublishQueueSent ==
    ASSUME TypeOK, QueueSent, job \in Jobs, NEW message \in Messages, Publish(message),
           \A d \in Device : sent[d] \subseteq sent'[d],
           message.type = "meta" => message.model \in sent'[job.device]
    PROVE  QueueSent'
<1> DEFINE d == job.device
<1>1. d \in Device /\ down[d] \in Seq(Messages) /\ DOMAIN down = Device
  BY DEF TypeOK, Jobs
<1>2. \A n \in 1 .. Len(Append(down[d], message)) :
         IF n = Len(down[d]) + 1 THEN Append(down[d], message)[n] = message
         ELSE n \in 1 .. Len(down[d]) /\ Append(down[d], message)[n] = down[d][n]
  BY <1>1, AppendFacts
<1>3. ASSUME NEW e \in Device, NEW n \in 1 .. Len(down'[e]), down'[e][n].type = "meta"
      PROVE  down'[e][n].model \in sent'[e]
  <2>1. CASE e = d
    <3>1. down'[e] = Append(down[d], message)
      BY <1>1, <2>1 DEF Publish
    <3> QED BY <1>1, <1>2, <1>3, <2>1, <3>1 DEF QueueSent
  <2>2. CASE e # d
    <3>1. down'[e] = down[e]
      BY <1>1, <2>2 DEF Publish
    <3> QED BY <1>3, <3>1 DEF QueueSent
  <2> QED BY <2>1, <2>2
<1> QED BY <1>3 DEF QueueSent

(* An ACK that tells the truth leaves all ACKs truthful.                   *)
LEMMA SendAcksTruthful ==
    ASSUME TypeOK, AcksTruthful, NEW d \in Device, meta[d] # None,
           NEW status \in {"success", "error"}, NEW gaps \in SUBSET Index,
           SendAck(d, status, gaps), UNCHANGED sent,
           \A e \in Device : verified[e] \subseteq verified'[e],
           status = "success" =>
              \E file \in verified'[d] : file.model = meta[d] /\ Intact(d, file)'
    PROVE  AcksTruthful'
<1>0. PICK ack : ack = [status |-> status, missing |-> gaps,
                        filename |-> Filename[meta[d]]]
  OBVIOUS
<1>1. ack \in Acks /\ up[d] \in Seq(Acks) /\ DOMAIN up = Device
  BY <1>0 DEF TypeOK, Acks
<1>2. Acknowledged(d, ack)'
  BY <1>0 DEF Acknowledged
<1>3. up' = [up EXCEPT ![d] = Append(@, ack)]
  BY <1>0 DEF SendAck
<1>4. \A n \in 1 .. Len(Append(up[d], ack)) :
         IF n = Len(up[d]) + 1 THEN Append(up[d], ack)[n] = ack
         ELSE n \in 1 .. Len(up[d]) /\ Append(up[d], ack)[n] = up[d][n]
  BY <1>1, AppendFacts
<1>5. ASSUME NEW e \in Device, NEW n \in 1 .. Len(up'[e]), NEW a, a = up'[e][n]
      PROVE  Acknowledged(e, a)'
  <2>0. Acknowledged(e, a) => Acknowledged(e, a)'
    BY Grows
  <2>1. CASE e = d /\ n = Len(up[d]) + 1
    <3>1. a = ack
      BY <1>1, <1>3, <1>4, <1>5, <2>1
    <3> QED BY <1>2, <2>1, <3>1
  <2>2. CASE e = d /\ n # Len(up[d]) + 1
    <3>1. n \in 1 .. Len(up[d]) /\ a = up[d][n]
      BY <1>1, <1>3, <1>4, <1>5, <2>2
    <3> QED BY <2>0, <2>2, <3>1 DEF AcksTruthful
  <2>3. CASE e # d
    <3>1. up'[e] = up[e]
      BY <1>1, <1>3, <2>3
    <3> QED BY <1>5, <2>0, <3>1 DEF AcksTruthful
  <2> QED BY <2>1, <2>2, <2>3
<1> QED BY <1>5 DEF AcksTruthful, Acknowledged

(* A step that touches neither the queues nor the receivers, and that      *)
(* leaves _ack_data alone or clears it, preserves integrity.               *)
LEMMA FrameIntegrity ==
    ASSUME Integrity,
           UNCHANGED <<down, up, sent, meta, ready, installed, verified>>,
           ackData' \in {ackData, None}
    PROVE  Integrity'
<1>1. /\ \A d, file : Intact(d, file)' = Intact(d, file)
      /\ \A d, ack : Acknowledged(d, ack)' = Acknowledged(d, ack)
  BY DEF Intact, Acknowledged
<1>2. QueueSent' /\ MetaSent' /\ VerifiedIntact' /\ ReadyIntact' /\ InstallIntegrity'
  BY DEF Integrity, QueueSent, MetaSent, VerifiedIntact, ReadyIntact,
         InstallIntegrity, Intact
<1>3. AcksTruthful' /\ AckDataTruthful'
  BY DEF Integrity, AcksTruthful, AckDataTruthful, Acknowledged, Intact
<1> QED BY <1>2, <1>3 DEF Integrity

(* Every step preserves integrity.                                         *)
LEMMA StepIntegrity == TypeOK /\ Integrity /\ [Next]_vars => Integrity'
<1> SUFFICES ASSUME TypeOK, Integrity, [Next]_vars PROVE Integrity'
  OBVIOUS
<1> USE DEF distributorVars, ackVars, receiverVars, faultVars
<1>1. ASSUME NEW d \in Device, NEW m \in Model, Distribute(d, m) PROVE Integrity'
  BY <1>1, FrameIntegrity DEF Distribute, StartCall
<1>2. CASE \/ ClearAckData \/ AllPublished \/ WaitReturns \/ WaitTimesOut \/ ReadAck
           \/ RetryClearEvent \/ RetryClearData \/ RetryReadAck \/ SignalAck
           \/ UNCHANGED vars
  BY <1>2, FrameIntegrity DEF ClearAckData, AllPublished, WaitReturns, WaitTimesOut,
     ReadAck, RetryClearEvent, RetryClearData, RetryReadAck, SignalAck, vars
<1>3. CASE PublishMeta
  <2>1. /\ job \in Jobs /\ job.device \in Device /\ job.model \in Model
        /\ MetaMessage(job.model) \in Messages
    BY <1>3 DEF PublishMeta, TypeOK, Jobs, MetaMessage, Messages
  <2>2. \A e \in Device : sent[e] \subseteq sent'[e] /\ verified'[e] = verified[e]
    BY <1>3, <2>1 DEF PublishMeta, TypeOK
  <2>3. job.model \in sent'[job.device]
    BY <1>3, <2>1 DEF PublishMeta, TypeOK
  <2>4. QueueSent'
    BY <1>3, <2>1, <2>2, <2>3, PublishQueueSent
       DEF PublishMeta, MetaMessage, Integrity
  <2>5. MetaSent' /\ VerifiedIntact' /\ ReadyIntact' /\ InstallIntegrity'
    BY <1>3, <2>2 DEF PublishMeta, Integrity, MetaSent, VerifiedIntact, ReadyIntact,
       InstallIntegrity, Intact
  <2>6. AcksTruthful'
    BY <1>3, <2>2 DEF PublishMeta, Integrity, AcksTruthful, Acknowledged, Intact
  <2>7. AckDataTruthful'
    BY <1>3, <2>2 DEF PublishMeta, Integrity, AckDataTruthful, Acknowledged, Intact, TypeOK
  <2> QED BY <2>4, <2>5, <2>6, <2>7 DEF Integrity
<1>4. ASSUME Integrity, QueueSent',
             UNCHANGED <<up, sent, meta, ready, installed, verified, ackData>>
      PROVE  Integrity'
  BY <1>4 DEF Integrity, MetaSent, VerifiedIntact, ReadyIntact, InstallIntegrity,
     AcksTruthful, AckDataTruthful, Acknowledged, Intact
<1>5. CASE PublishChunk
  <2>1. job \in Jobs /\ job.model \in Model
    BY <1>5 DEF PublishChunk, TypeOK, Jobs
  <2>2. nextChunk \in Index
    <3>1. nextChunk \in ChunksOf(job.model)
      BY <1>5, <2>1, IndexFacts DEF PublishChunk, MoreToPublish, TypeOK, ChunksOf
    <3> QED BY <2>1, <3>1, IndexFacts
  <2>3. ChunkMessage(job.model, nextChunk) \in Messages
    BY <2>1, <2>2 DEF ChunkMessage, Messages
  <2>4. QueueSent'
    BY <1>5, <2>1, <2>3, PublishQueueSent DEF PublishChunk, ChunkMessage, Integrity
  <2> QED BY <1>4, <1>5, <2>4 DEF PublishChunk
<1>6. CASE RetryChunk
  <2>1. job \in Jobs /\ job.model \in Model
    BY <1>6 DEF RetryChunk, TypeOK, Jobs
  <2>2. PICK k \in missing : Publish(ChunkMessage(job.model, k))
    BY <1>6 DEF RetryChunk
  <2>3. ChunkMessage(job.model, k) \in Messages
    BY <2>1 DEF ChunkMessage, Messages, TypeOK
  <2>4. QueueSent'
    BY <1>6, <2>1, <2>2, <2>3, PublishQueueSent DEF RetryChunk, ChunkMessage, Integrity
  <2> QED BY <1>4, <1>6, <2>4 DEF RetryChunk
<1>7. ASSUME NEW d \in Device, StoreAck(d) PROVE Integrity'
  <2>1. up[d] \in Seq(Acks) /\ up[d] # <<>> /\ DOMAIN up = Device
    BY <1>7 DEF StoreAck, TypeOK
  <2>2. /\ Head(up[d]) = up[d][1] /\ 1 \in 1 .. Len(up[d])
        /\ \A n \in 1 .. Len(Tail(up[d])) :
              n + 1 \in 1 .. Len(up[d]) /\ Tail(up[d])[n] = up[d][n + 1]
    BY <2>1, TailFacts
  <2>3. QueueSent' /\ MetaSent' /\ VerifiedIntact' /\ ReadyIntact' /\ InstallIntegrity'
    BY <1>7 DEF StoreAck, Integrity, QueueSent, MetaSent, VerifiedIntact, ReadyIntact,
       InstallIntegrity, Intact
  <2>4. ASSUME NEW e \in Device, NEW n \in 1 .. Len(up'[e]), NEW a, a = up'[e][n]
        PROVE  Acknowledged(e, a)
    <3>1. CASE e = d
      <4>1. up'[e] = Tail(up[d])
        BY <1>7, <2>1, <3>1 DEF StoreAck
      <4> QED BY <2>2, <2>4, <3>1, <4>1 DEF Integrity, AcksTruthful
    <3>2. CASE e # d
      <4>1. up'[e] = up[e]
        BY <1>7, <2>1, <3>2 DEF StoreAck
      <4> QED BY <2>4, <4>1 DEF Integrity, AcksTruthful
    <3> QED BY <3>1, <3>2
  <2>5. AcksTruthful'
    <3>1. \A e \in Device : \A a : Acknowledged(e, a) => Acknowledged(e, a)'
      BY <1>7, Grows DEF StoreAck
    <3>2. ASSUME NEW e \in Device, NEW n \in 1 .. Len(up'[e]), NEW a, a = up'[e][n]
          PROVE  Acknowledged(e, a)'
      BY <2>4, <3>1, <3>2
    <3> QED BY <3>2 DEF AcksTruthful, Acknowledged
  <2>6. Acknowledged(d, up[d][1])
    BY <2>2 DEF Integrity, AcksTruthful
  <2>7. AckDataTruthful'
    BY <1>7, <2>2, <2>6 DEF StoreAck, AckDataTruthful, Acknowledged, Intact
  <2> QED BY <2>3, <2>5, <2>7 DEF Integrity
<1>8. ASSUME NEW d \in Device,
             RejectMeta(d) \/ RejectChunk(d) \/ IgnoreChunk(d) \/ StoreChunk(d)
               \/ DropUnwired(d)
      PROVE  Integrity'
  <2>1. QueueSent'
    BY <1>8, TakeQueueSent DEF RejectMeta, RejectChunk, IgnoreChunk, StoreChunk,
       DropUnwired, Takes, Integrity
  <2> QED BY <1>4, <1>8, <2>1 DEF RejectMeta, RejectChunk, IgnoreChunk, StoreChunk,
             DropUnwired, Takes
<1>9. ASSUME NEW d \in Device, HandleMeta(d) PROVE Integrity'
  <2>1. QueueSent' /\ Head(down[d]).model \in sent[d]
    BY <1>9, TakeQueueSent DEF HandleMeta, Takes, Integrity
  <2>2. MetaSent'
    BY <1>9, <2>1 DEF HandleMeta, Integrity, MetaSent, TypeOK
  <2> QED
    BY <1>9, <2>1, <2>2 DEF HandleMeta, Integrity, VerifiedIntact, ReadyIntact,
       InstallIntegrity, AcksTruthful, AckDataTruthful, Acknowledged, Intact
<1>10. ASSUME NEW d \in Device, AssembleFails(d) PROVE Integrity'
  <2>1. QueueSent'
    BY <1>10, TakeQueueSent DEF AssembleFails, Takes, Integrity
  <2>2. meta[d] \in Model
    BY <1>10 DEF AssembleFails, TypeOK
  <2>3. ChunksOf(meta[d]) \ Received(Written(d)) \in SUBSET Index
    BY <2>2, IndexFacts
  <2>4. AcksTruthful'
    BY <1>10, <2>3, SendAcksTruthful DEF AssembleFails, Integrity
  <2> QED
    BY <1>10, <2>1, <2>4 DEF AssembleFails, Integrity, MetaSent, VerifiedIntact,
       ReadyIntact, InstallIntegrity, AckDataTruthful, Acknowledged, Intact
<1>11. ASSUME NEW d \in Device, AssembleSucceeds(d) PROVE Integrity'
  <2>0. PICK file : file = [model |-> meta[d],
                            parts |-> {Written(d)[k] : k \in ChunksOf(meta[d])}]
    OBVIOUS
  <2>1. /\ ready' = [ready EXCEPT ![d] = file]
        /\ verified' = [verified EXCEPT ![d] = @ \cup {file}]
        /\ UNCHANGED <<sent, installed, ackData>>
    BY <1>11, <2>0 DEF AssembleSucceeds
  <2>2. Intact(d, file)
    <3>1. file.parts \subseteq {meta[d]}
      BY <1>11, <2>0 DEF AssembleSucceeds, HashMatches
    <3> QED BY <1>11, <2>0, <3>1 DEF AssembleSucceeds, Intact, Integrity, MetaSent
  <2>3. \A e, f : Intact(e, f)' = Intact(e, f)
    BY <2>1 DEF Intact
  <2>4. /\ \A e \in Device : verified[e] \subseteq verified'[e]
        /\ file \in verified'[d]
    BY <2>1 DEF TypeOK
  <2>5. QueueSent'
    BY <1>11, TakeQueueSent DEF AssembleSucceeds, Takes, Integrity
  <2>6. MetaSent'
    BY <1>11 DEF AssembleSucceeds, Integrity, MetaSent, TypeOK
  <2>7. VerifiedIntact' /\ ReadyIntact' /\ InstallIntegrity'
    BY <2>1, <2>2 DEF Integrity, VerifiedIntact, ReadyIntact, InstallIntegrity,
       Intact, TypeOK
  <2>8. AcksTruthful'
    <3>1. file.model = meta[d] /\ Intact(d, file)'
      BY <2>0, <2>2, <2>3
    <3> QED BY <1>11, <2>1, <2>4, <3>1, SendAcksTruthful DEF AssembleSucceeds, Integrity
  <2>9. AckDataTruthful'
    <3>1. \A e \in Device : \A a : Acknowledged(e, a) => Acknowledged(e, a)'
      BY <2>1, <2>4, Grows
    <3>2. ackData # None => ackData.device \in Device
      BY DEF TypeOK
    <3>3. ackData # None => Acknowledged(ackData.device, ackData.ack)
      BY DEF Integrity, AckDataTruthful
    <3> QED BY <2>1, <3>1, <3>2, <3>3 DEF AckDataTruthful, Acknowledged
  <2> QED BY <2>5, <2>6, <2>7, <2>8, <2>9 DEF Integrity
<1>12. ASSUME NEW d \in Device, OnModelReady(d) PROVE Integrity'
  <2>1. InstallIntegrity' /\ ReadyIntact'
    BY <1>12 DEF OnModelReady, Integrity, InstallIntegrity, ReadyIntact, Intact, TypeOK
  <2> QED
    BY <1>12, <2>1 DEF OnModelReady, Integrity, QueueSent, MetaSent, VerifiedIntact,
       AcksTruthful, AckDataTruthful, Acknowledged, Intact
<1>13. ASSUME NEW d \in Device, EdgeRestart(d) PROVE Integrity'
  <2>1. /\ down[d] \in Seq(Messages) /\ DOMAIN down = Device
        /\ up[d] \in Seq(Acks) /\ DOMAIN up = Device
    BY DEF TypeOK
  <2>2. PICK i \in 0 .. Len(down[d]) :
            down' = [down EXCEPT ![d] = SubSeq(@, i + 1, Len(@))]
    BY <1>13 DEF EdgeRestart
  <2>3. PICK j \in 0 .. Len(up[d]) : up' = [up EXCEPT ![d] = SubSeq(@, 1, j)]
    BY <1>13 DEF EdgeRestart
  <2>4. \A e \in Device : \A n \in 1 .. Len(down'[e]) :
            \E k \in 1 .. Len(down[e]) : down'[e][n] = down[e][k]
    <3>1. \A n \in 1 .. Len(SubSeq(down[d], i + 1, Len(down[d]))) :
              /\ (i + 1) + n - 1 \in 1 .. Len(down[d])
              /\ SubSeq(down[d], i + 1, Len(down[d]))[n] = down[d][(i + 1) + n - 1]
      BY <2>1, SubSeqFacts
    <3> QED BY <2>1, <2>2, <3>1
  <2>5. \A e \in Device : \A n \in 1 .. Len(up'[e]) :
            \E k \in 1 .. Len(up[e]) : up'[e][n] = up[e][k]
    <3>1. \A n \in 1 .. Len(SubSeq(up[d], 1, j)) :
              1 + n - 1 \in 1 .. Len(up[d]) /\ SubSeq(up[d], 1, j)[n] = up[d][1 + n - 1]
      BY <2>1, SubSeqFacts
    <3> QED BY <2>1, <2>3, <3>1
  <2>6. QueueSent'
    <3>1. ASSUME NEW e \in Device, NEW n \in 1 .. Len(down'[e]), down'[e][n].type = "meta"
          PROVE  down'[e][n].model \in sent'[e]
      <4>1. PICK k \in 1 .. Len(down[e]) : down'[e][n] = down[e][k]
        BY <2>4
      <4>2. down[e][k].type = "meta" => down[e][k].model \in sent[e]
        BY DEF Integrity, QueueSent
      <4> QED BY <1>13, <3>1, <4>1, <4>2 DEF EdgeRestart
    <3> QED BY <3>1 DEF QueueSent
  <2>7. AcksTruthful'
    <3>1. ASSUME NEW e \in Device, NEW n \in 1 .. Len(up'[e]), NEW a, a = up'[e][n]
          PROVE  Acknowledged(e, a)
      BY <2>5, <3>1 DEF Integrity, AcksTruthful
    <3>2. verified' = verified /\ sent' = sent
      BY <1>13 DEF EdgeRestart
    <3>3. ASSUME NEW e \in Device, NEW n \in 1 .. Len(up'[e])
          PROVE  Acknowledged(e, up[e][n])'
      <4>1. Acknowledged(e, up'[e][n])
        BY <3>1
      <4> QED BY <3>2, <4>1 DEF Acknowledged, Intact
    <3> QED BY <3>3 DEF AcksTruthful
  <2>8. MetaSent' /\ ReadyIntact' /\ VerifiedIntact' /\ InstallIntegrity'
    BY <1>13 DEF EdgeRestart, Integrity, MetaSent, ReadyIntact, VerifiedIntact,
       InstallIntegrity, Intact, TypeOK
  <2>9. AckDataTruthful'
    BY <1>13 DEF EdgeRestart, Integrity, AckDataTruthful, Acknowledged, Intact
  <2> QED BY <2>6, <2>7, <2>8, <2>9 DEF Integrity
<1>14. ASSUME NEW d \in Device, SetModelReceiver(d) PROVE Integrity'
  BY <1>14, FrameIntegrity DEF SetModelReceiver
<1> QED
  BY <1>1, <1>2, <1>3, <1>5, <1>6, <1>7, <1>8, <1>9, <1>10, <1>11, <1>12, <1>13, <1>14
     DEF Next, DistributorStep, EdgeStep, HandleChunk

(* For any number of devices, models, damaged messages and restarts: the   *)
(* file a device installs is one model, whole, that was distributed to it. *)
THEOREM OnlyIntactModelsInstalled == Spec => []InstallIntegrity
<1>1. Integrity => InstallIntegrity
  BY DEF Integrity
<1> QED BY <1>1, InitType, StepType, InitIntegrity, StepIntegrity, PTL DEF Spec

(* A success ACK always tells the truth about the device that sent it.     *)
THEOREM SuccessAcksTruthful == Spec => []AckTruthful
<1>1. Integrity => AckTruthful
  BY DEF Integrity, AckTruthful, AcksTruthful, AckDataTruthful
<1> QED BY <1>1, InitType, StepType, InitIntegrity, StepIntegrity, PTL DEF Spec
-----------------------------------------------------------------------------
(* The order of a topic.  A queue loses messages at its front only, and    *)
(* while no retry interferes a chunk follows the chunk before it, or the   *)
(* meta it belongs to.                                                     *)

(* The queue of d loses its first i messages.                              *)
Drops(d, i) ==
    /\ i \in 0 .. Len(down[d])
    /\ \A e \in Device \ {d} : down'[e] = down[e]
    /\ down'[d] \in Seq(Messages)
    /\ Len(down'[d]) = Len(down[d]) - i
    /\ \A n \in 1 .. Len(down'[d]) :
          n + i \in 1 .. Len(down[d]) /\ down'[d][n] = down[d][n + i]

(* The queue of d gets one more message.                                   *)
Gains(d, message) ==
    /\ \A e \in Device \ {d} : down'[e] = down[e]
    /\ Len(down'[d]) = Len(down[d]) + 1
    /\ \A n \in 1 .. Len(down[d]) : down'[d][n] = down[d][n]
    /\ down'[d][Len(down[d]) + 1] = message

(* A message is taken by the receiver or dropped.                          *)
LEMMA TakeDrops ==
    ASSUME TypeOK, NEW d \in Device, down[d] # <<>>,
           down' = [down EXCEPT ![d] = Tail(@)]
    PROVE  Drops(d, 1) /\ Head(down[d]) = down[d][1]
<1>1. down[d] \in Seq(Messages) /\ DOMAIN down = Device
  BY DEF TypeOK
<1>2. down'[d] = Tail(down[d]) /\ \A e \in Device \ {d} : down'[e] = down[e]
  BY <1>1
<1>3. /\ Head(down[d]) = down[d][1] /\ 1 \in 1 .. Len(down[d])
      /\ Len(Tail(down[d])) = Len(down[d]) - 1
      /\ \A n \in 1 .. Len(Tail(down[d])) :
            n + 1 \in 1 .. Len(down[d]) /\ Tail(down[d])[n] = down[d][n + 1]
  BY <1>1, TailFacts
<1>4. 1 \in 0 .. Len(down[d]) /\ Tail(down[d]) \in Seq(Messages)
  BY <1>1, <1>3
<1> HIDE DEF TypeOK
<1>5. PICK q : q = Tail(down[d])
  OBVIOUS
<1> QED BY <1>2, <1>3, <1>4, <1>5 DEF Drops

(* A restart loses what the client held in memory.                         *)
LEMMA RestartDrops ==
    ASSUME TypeOK, NEW d \in Device, EdgeRestart(d)
    PROVE  \E i \in 0 .. Len(down[d]) : Drops(d, i)
<1>1. down[d] \in Seq(Messages) /\ DOMAIN down = Device /\ Len(down[d]) \in Nat
  BY DEF TypeOK
<1>2. PICK i \in 0 .. Len(down[d]) :
          down' = [down EXCEPT ![d] = SubSeq(@, i + 1, Len(@))]
  BY DEF EdgeRestart
<1>3. /\ down'[d] = SubSeq(down[d], i + 1, Len(down[d]))
      /\ \A e \in Device \ {d} : down'[e] = down[e]
  BY <1>1, <1>2
<1>4. Len(down'[d]) = Len(down[d]) - i /\ down'[d] \in Seq(Messages)
  BY <1>1, <1>3, SubSeqFacts
<1>5. \A n \in 1 .. Len(SubSeq(down[d], i + 1, Len(down[d]))) :
          /\ (i + 1) + n - 1 \in 1 .. Len(down[d])
          /\ SubSeq(down[d], i + 1, Len(down[d]))[n] = down[d][(i + 1) + n - 1]
  BY <1>1, SubSeqFacts
<1>6. \A n \in 1 .. Len(down'[d]) :
          n + i \in 1 .. Len(down[d]) /\ down'[d][n] = down[d][n + i]
  BY <1>1, <1>3, <1>5
<1> QED BY <1>3, <1>4, <1>6 DEF Drops

(* The distributor publishes.                                              *)
LEMMA PublishGains ==
    ASSUME TypeOK, job \in Jobs, NEW message \in Messages, Publish(message)
    PROVE  Gains(job.device, message)
<1>1. job.device \in Device /\ down[job.device] \in Seq(Messages) /\ DOMAIN down = Device
  BY DEF TypeOK, Jobs
<1>2. /\ down'[job.device] = Append(down[job.device], message)
      /\ \A e \in Device \ {job.device} : down'[e] = down[e]
  BY <1>1 DEF Publish
<1> HIDE DEF Jobs
<1>3. PICK q \in Seq(Messages) : q = down[job.device]
  BY <1>1
<1>4. /\ Len(Append(q, message)) = Len(q) + 1
      /\ \A n \in 1 .. Len(q) : Append(q, message)[n] = q[n]
      /\ Append(q, message)[Len(q) + 1] = message
  BY <1>3
<1> QED BY <1>2, <1>3, <1>4 DEF Gains

(* b may come behind a: it starts a transfer or goes on with the one of a. *)
Follows(a, b) ==
    \/ b.type = "meta"
    \/ /\ b.type = "chunk" /\ b.model = a.model
       /\ b.index = IF a.type = "meta" THEN 0 ELSE a.index + 1

InOrder ==
    \A d \in Device : \A n \in 1 .. Len(down[d]) :
        n + 1 \in 1 .. Len(down[d]) => Follows(down[d][n], down[d][n + 1])

ChunksExist ==
    \A d \in Device : \A n \in 1 .. Len(down[d]) :
        down[d][n].type = "chunk" => down[d][n].index \in ChunksOf(down[d][n].model)

Publishing == pc \in {"chunks", "wait", "read"}

(* What distribute_model has published last.                               *)
Latest ==
    IF nextChunk = 0 THEN MetaMessage(job.model)
    ELSE ChunkMessage(job.model, nextChunk - 1)

Counter ==
    /\ pc \in {"clear", "meta"} => nextChunk = 0
    /\ Publishing => nextChunk <= Chunks[job.model]
    /\ pc \in {"wait", "read"} => nextChunk = Chunks[job.model]

EndsWithLatest ==
    Publishing /\ down[job.device] # <<>>
        => down[job.device][Len(down[job.device])] = Latest

AcksSucceed ==
    /\ \A d \in Device : \A n \in 1 .. Len(up[d]) : up[d][n].status = "success"
    /\ ackData # None => ackData.ack.status = "success"

NoRetry == pc \notin {"retry", "retryClear", "retryWait", "retryRead"}

Stream ==
    /\ InOrder /\ ChunksExist
    /\ Counter /\ EndsWithLatest
    /\ AcksSucceed /\ NoRetry

(* Losing messages at the front keeps the order of the rest and the last   *)
(* message.                                                                *)
LEMMA DropStream ==
    ASSUME TypeOK, InOrder, ChunksExist, EndsWithLatest, NEW d \in Device,
           NEW i \in 0 .. Len(down[d]), Drops(d, i), UNCHANGED <<pc, job, nextChunk>>
    PROVE  InOrder' /\ ChunksExist' /\ EndsWithLatest'
<1>0. /\ \A e \in Device : down[e] \in Seq(Messages) /\ Len(down[e]) \in Nat
      /\ Publishing => job.device \in Device
  BY DEF TypeOK, Jobs, Publishing
<1>1. InOrder'
  <2>1. ASSUME NEW e \in Device, NEW n \in 1 .. Len(down'[e]), n + 1 \in 1 .. Len(down'[e])
        PROVE  Follows(down'[e][n], down'[e][n + 1])
    <3>1. CASE e = d
      <4>1. /\ n + i \in 1 .. Len(down[d]) /\ (n + 1) + i \in 1 .. Len(down[d])
            /\ down'[d][n] = down[d][n + i] /\ down'[d][n + 1] = down[d][(n + 1) + i]
        BY <2>1, <3>1 DEF Drops
      <4>2. (n + 1) + i = (n + i) + 1
        OBVIOUS
      <4> QED BY <3>1, <4>1, <4>2 DEF InOrder
    <3>2. CASE e # d
      BY <2>1, <3>2 DEF Drops, InOrder
    <3> QED BY <3>1, <3>2
  <2> QED BY <2>1 DEF InOrder, Follows
<1>2. ChunksExist'
  BY DEF ChunksExist, Drops
<1>3. EndsWithLatest'
  <2> SUFFICES ASSUME Publishing, down'[job.device] # <<>>
               PROVE  down'[job.device][Len(down'[job.device])] = Latest
    BY DEF EndsWithLatest, Publishing, Latest
  <2>1. CASE job.device = d
    <3>1. Len(down'[d]) \in 1 .. Len(down'[d])
      BY <2>1 DEF Drops
    <3>2. Len(down'[d]) = Len(down[d]) - i
      BY DEF Drops
    <3>3. /\ Len(down'[d]) + i = Len(down[d])
          /\ down'[d][Len(down'[d])] = down[d][Len(down'[d]) + i]
      BY <3>1, <3>2 DEF Drops
    <3>4. down[d] # <<>>
      BY <3>1, <3>3 DEF Drops
    <3>5. Publishing /\ down[d] # <<>> => down[d][Len(down[d])] = Latest
      BY <2>1 DEF EndsWithLatest
    <3> QED BY <1>0, <2>1, <3>3, <3>4, <3>5
  <2>2. CASE job.device # d
    BY <1>0, <2>2 DEF Drops, EndsWithLatest
  <2> QED BY <2>1, <2>2
<1> QED BY <1>1, <1>2, <1>3
(* So does publishing what comes next.                                     *)
LEMMA GainStream ==
    ASSUME TypeOK, InOrder, ChunksExist, NEW d \in Device, NEW message \in Messages,
           Gains(d, message),
           message.type = "chunk" => message.index \in ChunksOf(message.model),
           down[d] # <<>> => Follows(down[d][Len(down[d])], message)
    PROVE  InOrder' /\ ChunksExist' /\ down'[d][Len(down'[d])] = message
<1>0. \A e \in Device : down[e] \in Seq(Messages) /\ Len(down[e]) \in Nat
  BY DEF TypeOK
<1>1. InOrder'
  <2>1. ASSUME NEW e \in Device, NEW n \in 1 .. Len(down'[e]), n + 1 \in 1 .. Len(down'[e])
        PROVE  Follows(down'[e][n], down'[e][n + 1])
    <3>1. CASE e = d /\ n = Len(down[d])
      <4>1. down[d] # <<>> /\ down'[e][n] = down[d][n] /\ down'[e][n + 1] = message
        BY <1>0, <2>1, <3>1 DEF Gains
      <4> QED BY <3>1, <4>1
    <3>2. CASE e = d /\ n # Len(down[d])
      <4>1. n \in 1 .. Len(down[d]) /\ n + 1 \in 1 .. Len(down[d])
        BY <1>0, <2>1, <3>2 DEF Gains
      <4>2. down'[e][n] = down[d][n] /\ down'[e][n + 1] = down[d][n + 1]
        BY <3>2, <4>1 DEF Gains
      <4> QED BY <4>1, <4>2 DEF InOrder
    <3>3. CASE e # d
      BY <2>1, <3>3 DEF Gains, InOrder
    <3> QED BY <3>1, <3>2, <3>3
  <2> QED BY <2>1 DEF InOrder, Follows
<1>2. ChunksExist'
  <2>1. ASSUME NEW e \in Device, NEW n \in 1 .. Len(down'[e]), down'[e][n].type = "chunk"
        PROVE  down'[e][n].index \in ChunksOf(down'[e][n].model)
    <3>1. CASE e = d /\ n = Len(down[d]) + 1
      BY <2>1, <3>1 DEF Gains
    <3>2. CASE e = d /\ n # Len(down[d]) + 1
      <4>1. n \in 1 .. Len(down[d]) /\ down'[e][n] = down[d][n]
        BY <1>0, <2>1, <3>2 DEF Gains
      <4> QED BY <2>1, <4>1 DEF ChunksExist
    <3>3. CASE e # d
      BY <2>1, <3>3 DEF Gains, ChunksExist
    <3> QED BY <3>1, <3>2, <3>3
  <2> QED BY <2>1 DEF ChunksExist, ChunksOf
<1> QED BY <1>1, <1>2 DEF Gains

(* The chunk that is published next.                                       *)
LEMMA ChunkFacts ==
    ASSUME TypeOK, Counter, EndsWithLatest, PublishChunk
    PROVE  /\ job \in Jobs /\ job.device \in Device /\ job.model \in Model
           /\ nextChunk \in ChunksOf(job.model)
           /\ ChunkMessage(job.model, nextChunk) \in Messages
           /\ Gains(job.device, ChunkMessage(job.model, nextChunk))
           /\ down[job.device] # <<>> =>
                 Follows(down[job.device][Len(down[job.device])],
                         ChunkMessage(job.model, nextChunk))
<1>1. job \in Jobs /\ job.device \in Device /\ job.model \in Model
  BY DEF PublishChunk, TypeOK, Jobs
<1>2. nextChunk \in ChunksOf(job.model)
  BY <1>1, IndexFacts DEF PublishChunk, MoreToPublish, TypeOK, ChunksOf
<1>3. ChunkMessage(job.model, nextChunk) \in Messages
  BY <1>1, <1>2, IndexFacts DEF ChunkMessage, Messages
<1>4. Gains(job.device, ChunkMessage(job.model, nextChunk))
  BY <1>1, <1>3, PublishGains DEF PublishChunk
<1>5. ASSUME down[job.device] # <<>>
      PROVE  Follows(Latest, ChunkMessage(job.model, nextChunk))
  BY <1>2 DEF Follows, Latest, ChunkMessage, MetaMessage, ChunksOf, TypeOK
<1> QED BY <1>1, <1>2, <1>3, <1>4, <1>5 DEF EndsWithLatest, Publishing, PublishChunk

(* Whatever happens to messages and devices, the stream stays in order as  *)
(* long as no receiver fails to assemble a file.                           *)
LEMMA StepStream ==
    ASSUME TypeOK, Stream, [Next]_vars, \A d \in Device : ~AssembleFails(d)
    PROVE  Stream'
<1> USE DEF distributorVars, ackVars, receiverVars, faultVars
<1>0. Publishing => job \in Jobs /\ job.device \in Device
  BY DEF Publishing, TypeOK, Jobs
<1>1. ASSUME UNCHANGED <<down, up, ackData>>, Counter', NoRetry',
             Publishing' => Publishing, Publishing' => UNCHANGED <<job, nextChunk>>
      PROVE  Stream'
  BY <1>1 DEF Stream, InOrder, ChunksExist, EndsWithLatest, AcksSucceed, Latest
<1>2. ASSUME NEW d \in Device, NEW m \in Model, Distribute(d, m) PROVE Stream'
  <2>1. Counter' /\ NoRetry' /\ ~Publishing'
    BY <1>2 DEF Distribute, StartCall, Counter, NoRetry, Publishing
  <2>2. UNCHANGED <<down, up, ackData>>
    BY <1>2 DEF Distribute, StartCall
  <2> QED BY <1>1, <2>1, <2>2
<1>3. CASE ClearAckData
  BY <1>3 DEF ClearAckData, Stream, InOrder, ChunksExist, EndsWithLatest, AcksSucceed,
     Counter, NoRetry, Publishing
<1>4. CASE PublishMeta
  <2>1. /\ job \in Jobs /\ job.device \in Device /\ job.model \in Model
        /\ MetaMessage(job.model) \in Messages /\ MetaMessage(job.model).type = "meta"
    BY <1>4 DEF PublishMeta, TypeOK, Jobs, MetaMessage, Messages
  <2>2. Gains(job.device, MetaMessage(job.model))
    BY <1>4, <2>1, PublishGains DEF PublishMeta
  <2>3. down[job.device] # <<>> =>
           Follows(down[job.device][Len(down[job.device])], MetaMessage(job.model))
    BY <2>1 DEF Follows
  <2>4. /\ InOrder' /\ ChunksExist'
        /\ down'[job.device][Len(down'[job.device])] = MetaMessage(job.model)
    BY <2>1, <2>2, <2>3, GainStream DEF Stream
  <2>5. nextChunk' = 0 /\ job' = job /\ Chunks[job.model] \in Nat
    BY <1>4, <2>1, IndexFacts DEF PublishMeta, Stream, Counter
  <2>6. EndsWithLatest' /\ Counter' /\ NoRetry'
    BY <1>4, <2>4, <2>5 DEF PublishMeta, EndsWithLatest, Latest, MetaMessage, Counter,
       NoRetry, Publishing
  <2> QED BY <1>4, <2>4, <2>6 DEF PublishMeta, Stream, AcksSucceed
<1>5. CASE PublishChunk
  <2>1. /\ job.device \in Device /\ job.model \in Model /\ nextChunk \in ChunksOf(job.model)
        /\ ChunkMessage(job.model, nextChunk) \in Messages
        /\ Gains(job.device, ChunkMessage(job.model, nextChunk))
        /\ down[job.device] # <<>> =>
              Follows(down[job.device][Len(down[job.device])],
                      ChunkMessage(job.model, nextChunk))
    BY <1>5, ChunkFacts DEF Stream
  <2>2. ChunkMessage(job.model, nextChunk).index
          \in ChunksOf(ChunkMessage(job.model, nextChunk).model)
    BY <2>1 DEF ChunkMessage
  <2>3. /\ InOrder' /\ ChunksExist'
        /\ down'[job.device][Len(down'[job.device])] = ChunkMessage(job.model, nextChunk)
    BY <2>1, <2>2, GainStream DEF Stream
  <2>4. /\ nextChunk' = nextChunk + 1 /\ UNCHANGED <<job, pc>> /\ pc = "chunks"
        /\ nextChunk \in Nat /\ Chunks[job.model] \in Nat /\ nextChunk < Chunks[job.model]
    BY <1>5, <2>1, IndexFacts DEF PublishChunk, MoreToPublish, TypeOK
  <2>5. Latest' = ChunkMessage(job.model, nextChunk)
    BY <2>4 DEF Latest, ChunkMessage
  <2>6. EndsWithLatest' /\ Counter' /\ NoRetry'
    BY <2>3, <2>4, <2>5 DEF EndsWithLatest, Counter, NoRetry, Publishing
  <2> QED BY <1>5, <2>3, <2>6 DEF PublishChunk, Stream, AcksSucceed
<1>6. CASE AllPublished
  <2>1. Counter' /\ NoRetry' /\ Publishing
    <3>1. job.model \in Model /\ Chunks[job.model] \in Nat /\ nextChunk \in Nat
      BY <1>6, IndexFacts DEF AllPublished, TypeOK, Jobs
    <3> QED BY <1>6, <3>1 DEF AllPublished, MoreToPublish, Stream, Counter, NoRetry, Publishing
  <2> QED BY <1>1, <1>6, <2>1 DEF AllPublished
<1>7. CASE WaitReturns
  <2>1. Counter' /\ NoRetry' /\ Publishing
    BY <1>7 DEF WaitReturns, Stream, Counter, NoRetry, Publishing
  <2> QED BY <1>1, <1>7, <2>1 DEF WaitReturns
<1>8. CASE WaitTimesOut
  <2>1. Counter' /\ NoRetry' /\ ~Publishing'
    BY <1>8 DEF WaitTimesOut, Counter, NoRetry, Publishing
  <2> QED BY <1>1, <1>8, <2>1 DEF WaitTimesOut
<1>9. CASE ReadAck
  <2>1. MissingChunks = {}
    BY DEF Stream, AcksSucceed, MissingChunks, Succeeded
  <2>2. Counter' /\ NoRetry' /\ ~Publishing'
    BY <1>9, <2>1 DEF ReadAck, Counter, NoRetry, Publishing
  <2> QED BY <1>1, <1>9, <2>2 DEF ReadAck
<1>10. CASE RetryChunk \/ RetryClearEvent \/ RetryClearData \/ RetryReadAck
  BY <1>10 DEF RetryChunk, RetryClearEvent, RetryClearData, RetryReadAck, Stream, NoRetry
<1>11. ASSUME UNCHANGED <<pc, job, nextChunk>>, InOrder', ChunksExist', EndsWithLatest',
              AcksSucceed'
       PROVE  Stream'
  BY <1>11 DEF Stream, Counter, NoRetry, Publishing
<1>12. ASSUME UNCHANGED <<pc, job, nextChunk, down>>, AcksSucceed' PROVE Stream'
  <2>1. InOrder' /\ ChunksExist' /\ EndsWithLatest'
    BY <1>12 DEF Stream, InOrder, ChunksExist, EndsWithLatest, Publishing, Latest
  <2> QED BY <1>11, <1>12, <2>1
<1>13. ASSUME NEW d \in Device, StoreAck(d) PROVE Stream'
  <2>1. up[d] \in Seq(Acks) /\ up[d] # <<>> /\ DOMAIN up = Device
    BY <1>13 DEF StoreAck, TypeOK
  <2>2. /\ Head(up[d]) = up[d][1] /\ 1 \in 1 .. Len(up[d])
        /\ \A n \in 1 .. Len(Tail(up[d])) :
              n + 1 \in 1 .. Len(up[d]) /\ Tail(up[d])[n] = up[d][n + 1]
    BY <2>1, TailFacts
  <2>3. AcksSucceed'
    BY <1>13, <2>1, <2>2 DEF StoreAck, Stream, AcksSucceed
  <2> QED BY <1>12, <1>13, <2>3 DEF StoreAck
<1>14. ASSUME AcksSucceed, UNCHANGED <<up, ackData>> PROVE AcksSucceed'
  BY <1>14 DEF AcksSucceed
<1>15. CASE SignalAck \/ (\E d \in Device : OnModelReady(d) \/ SetModelReceiver(d))
            \/ UNCHANGED vars
  <2>1. UNCHANGED <<pc, job, nextChunk, down, up, ackData>>
    BY <1>15 DEF SignalAck, OnModelReady, SetModelReceiver, vars
  <2> QED BY <1>12, <1>14, <2>1 DEF Stream
<1>16. ASSUME NEW d \in Device,
              HandleMeta(d) \/ RejectMeta(d) \/ RejectChunk(d) \/ IgnoreChunk(d)
                \/ StoreChunk(d) \/ DropUnwired(d)
       PROVE  Stream'
  <2>1. /\ down[d] # <<>> /\ down' = [down EXCEPT ![d] = Tail(@)]
        /\ UNCHANGED <<pc, job, nextChunk, up, ackData>>
    BY <1>16 DEF HandleMeta, RejectMeta, RejectChunk, IgnoreChunk, StoreChunk,
       DropUnwired, Takes
  <2>2. Drops(d, 1) /\ 1 \in 0 .. Len(down[d])
    BY <2>1, TakeDrops DEF Drops
  <2>3. InOrder' /\ ChunksExist' /\ EndsWithLatest'
    BY <2>1, <2>2, DropStream DEF Stream
  <2> QED BY <1>11, <1>14, <2>1, <2>3 DEF Stream
<1>17. ASSUME NEW d \in Device, AssembleSucceeds(d) PROVE Stream'
  <2>1. /\ down[d] # <<>> /\ down' = [down EXCEPT ![d] = Tail(@)]
        /\ UNCHANGED <<pc, job, nextChunk, ackData>>
    BY <1>17 DEF AssembleSucceeds, Takes
  <2>2. Drops(d, 1) /\ 1 \in 0 .. Len(down[d])
    BY <2>1, TakeDrops DEF Drops
  <2>3. InOrder' /\ ChunksExist' /\ EndsWithLatest'
    BY <2>1, <2>2, DropStream DEF Stream
  <2>4. AcksSucceed'
    <3>1. PICK ack : ack = [status |-> "success", missing |-> {},
                            filename |-> Filename[meta[d]]]
      OBVIOUS
    <3>2. ack \in Acks /\ ack.status = "success"
      BY <1>17, <3>1 DEF AssembleSucceeds, TypeOK, Acks
    <3>3. up' = [up EXCEPT ![d] = Append(@, ack)] /\ up[d] \in Seq(Acks) /\ DOMAIN up = Device
      BY <1>17, <3>1 DEF AssembleSucceeds, SendAck, TypeOK
    <3>4. \A n \in 1 .. Len(Append(up[d], ack)) :
             IF n = Len(up[d]) + 1 THEN Append(up[d], ack)[n] = ack
             ELSE n \in 1 .. Len(up[d]) /\ Append(up[d], ack)[n] = up[d][n]
      BY <3>2, <3>3, AppendFacts
    <3>5. ASSUME NEW e \in Device, NEW n \in 1 .. Len(up'[e])
          PROVE  up'[e][n].status = "success"
      <4>1. CASE e = d
        <5>1. up'[e] = Append(up[d], ack)
          BY <3>3, <4>1
        <5> QED BY <3>2, <3>4, <4>1, <5>1 DEF Stream, AcksSucceed
      <4>2. CASE e # d
        BY <3>3, <4>2 DEF Stream, AcksSucceed
      <4> QED BY <4>1, <4>2
    <3> QED BY <2>1, <3>5 DEF Stream, AcksSucceed
  <2> QED BY <1>11, <2>1, <2>3, <2>4
<1>18. ASSUME NEW d \in Device, EdgeRestart(d) PROVE Stream'
  <2>1. UNCHANGED <<pc, job, nextChunk, ackData>>
    BY <1>18 DEF EdgeRestart
  <2>2. PICK i \in 0 .. Len(down[d]) : Drops(d, i)
    BY <1>18, RestartDrops
  <2>3. InOrder' /\ ChunksExist' /\ EndsWithLatest'
    BY <2>1, <2>2, DropStream DEF Stream
  <2>4. AcksSucceed'
    <3>1. up[d] \in Seq(Acks) /\ DOMAIN up = Device
      BY DEF TypeOK
    <3>2. PICK j \in 0 .. Len(up[d]) : up' = [up EXCEPT ![d] = SubSeq(@, 1, j)]
      BY <1>18 DEF EdgeRestart
    <3>3. \A n \in 1 .. Len(SubSeq(up[d], 1, j)) :
              1 + n - 1 \in 1 .. Len(up[d]) /\ SubSeq(up[d], 1, j)[n] = up[d][1 + n - 1]
      BY <3>1, SubSeqFacts
    <3> QED BY <2>1, <3>1, <3>2, <3>3 DEF Stream, AcksSucceed
  <2> QED BY <1>11, <2>1, <2>3, <2>4
<1> QED
  BY <1>2, <1>3, <1>4, <1>5, <1>6, <1>7, <1>8, <1>9, <1>10, <1>13, <1>15, <1>16, <1>17,
     <1>18 DEF Next, DistributorStep, EdgeStep, HandleChunk
-----------------------------------------------------------------------------
(* Without damage.  What a receiver has of the transfer in force are the   *)
(* chunks before the one at the head of its queue, so a complete transfer  *)
(* always assembles.                                                       *)

(* The first n chunks of m.                                                *)
Prefix(m, n) == [k \in Index |-> IF k < n THEN m ELSE None]

(* If d has a transfer in force, then m's, and the first n chunks of it.   *)
Holds(d, m, n) == meta[d] # None => meta[d] = m /\ files[d] = Prefix(m, n)

UnwiredIdle(d) == ~wired[d] => meta[d] = None

FrontFits(d) ==
    down[d] # <<>> /\ Head(down[d]).type = "chunk"
        => Holds(d, Head(down[d]).model, Head(down[d]).index)

BackFits ==
    Publishing /\ down[job.device] = <<>> => Holds(job.device, job.model, nextChunk)

Undamaged ==
    /\ \A d \in Device : UnwiredIdle(d) /\ FrontFits(d)
    /\ BackFits

(* The files of a prefix can be counted.                                   *)
LEMMA PrefixFacts ==
    ASSUME NEW m \in Model, NEW n \in Nat, n <= Chunks[m]
    PROVE  /\ Received(Prefix(m, n)) = 0 .. n - 1
           /\ Cardinality(Received(Prefix(m, n))) = n
           /\ \A k \in 0 .. n - 1 : Prefix(m, n)[k] = m
<1>1. 0 .. n - 1 \subseteq Index /\ Index \subseteq Nat /\ m # None
  BY IndexFacts, NoneAssumption DEF ChunksOf
<1>2. Received(Prefix(m, n)) = 0 .. n - 1
  <2>1. \A k \in Index : Prefix(m, n)[k] # None <=> k < n
    BY <1>1 DEF Prefix
  <2>2. \A k \in Index : k < n <=> k \in 0 .. n - 1
    BY <1>1
  <2> QED BY <1>1, <2>1, <2>2 DEF Received
<1>3. Cardinality(0 .. n - 1) = n
  <2>1. 0 \in Int /\ n - 1 \in Int
    OBVIOUS
  <2>2. Cardinality(0 .. n - 1) = IF 0 > n - 1 THEN 0 ELSE (n - 1) - 0 + 1
    BY <2>1, FS_Interval
  <2> QED BY <2>2
<1> QED BY <1>1, <1>2, <1>3 DEF Prefix

(* Writing the chunk at the head makes the prefix one longer; when it is   *)
(* all there, the hash matches.                                            *)
LEMMA WrittenPrefix ==
    ASSUME TypeOK, ChunksExist, NEW d \in Device, down[d] # <<>>,
           Head(down[d]).type = "chunk", meta[d] # None, FrontFits(d)
    PROVE  /\ meta[d] = Head(down[d]).model /\ meta[d] \in Model
           /\ Head(down[d]).index \in ChunksOf(meta[d])
           /\ Written(d) = Prefix(meta[d], Head(down[d]).index + 1)
           /\ Complete(d) <=> Head(down[d]).index + 1 = Chunks[meta[d]]
           /\ Complete(d) => HashMatches(d, Written(d))
<1>1. PICK m, i : m = meta[d] /\ i = Head(down[d]).index
  OBVIOUS
<1>2. m \in Model /\ m = Head(down[d]).model /\ files[d] = Prefix(m, i)
  BY <1>1 DEF FrontFits, Holds, TypeOK
<1>3. i \in ChunksOf(m)
  <2>1. Head(down[d]) = down[d][1] /\ 1 \in 1 .. Len(down[d])
    BY TailFacts DEF TypeOK
  <2> QED BY <1>1, <1>2, <2>1 DEF ChunksExist
<1>4. i \in Nat /\ i + 1 \in Nat /\ i + 1 <= Chunks[m] /\ i \in Index /\ Chunks[m] \in Nat
  BY <1>2, <1>3, IndexFacts DEF ChunksOf
<1>5. Written(d) = Prefix(m, i + 1)
  <2>1. Index \subseteq Nat
    BY IndexFacts
  <2>2. Written(d) = [Prefix(m, i) EXCEPT ![i] = m]
    BY <1>1, <1>2 DEF Written
  <2>3. \A k \in Index : (k < i + 1) <=> (k = i \/ k < i)
    BY <1>4, <2>1
  <2>4. ASSUME NEW k \in Index PROVE Written(d)[k] = Prefix(m, i + 1)[k]
    BY <1>4, <2>2, <2>3 DEF Prefix
  <2>5. /\ Written(d) = [k \in Index |-> Written(d)[k]]
        /\ Prefix(m, i + 1) = [k \in Index |-> Prefix(m, i + 1)[k]]
    BY <2>2 DEF Prefix
  <2> QED BY <2>4, <2>5
<1>6. /\ Cardinality(Received(Written(d))) = i + 1
      /\ \A k \in 0 .. (i + 1) - 1 : Written(d)[k] = m
  BY <1>2, <1>4, <1>5, PrefixFacts
<1>7. Complete(d) <=> i + 1 = Chunks[m]
  BY <1>1, <1>6 DEF Complete
<1>8. Complete(d) => HashMatches(d, Written(d))
  BY <1>1, <1>4, <1>6, <1>7 DEF HashMatches, ChunksOf
<1> QED BY <1>1, <1>2, <1>3, <1>5, <1>7, <1>8

(* What comes to the head when a message is taken.                         *)
LEMMA NextAtHead ==
    ASSUME TypeOK, Stream, NEW d \in Device, down[d] # <<>>,
           down' = [down EXCEPT ![d] = Tail(@)]
    PROVE  /\ \A e \in Device \ {d} : down'[e] = down[e]
           /\ Head(down[d]) \in Messages
           /\ Head(down[d]).type = "chunk" => Head(down[d]).index \in ChunksOf(Head(down[d]).model)
           /\ down'[d] # <<>> =>
                 /\ Head(down'[d]) \in Messages
                 /\ 2 \in 1 .. Len(down[d]) /\ Head(down'[d]) = down[d][2]
                 /\ Follows(Head(down[d]), Head(down'[d]))
                 /\ Head(down'[d]).type = "chunk" =>
                       Head(down'[d]).index \in ChunksOf(Head(down'[d]).model)
           /\ down'[d] = <<>> /\ Publishing /\ job.device = d => Head(down[d]) = Latest
<1>1. /\ Drops(d, 1) /\ Head(down[d]) = down[d][1]
      /\ \A e \in Device \ {d} : down'[e] = down[e]
  BY TakeDrops DEF Drops
<1>2. /\ down[d] \in Seq(Messages) /\ down'[d] \in Seq(Messages)
      /\ Len(down'[d]) = Len(down[d]) - 1 /\ Len(down[d]) \in Nat /\ 1 \in 1 .. Len(down[d])
      /\ Head(down[d]) \in Messages
  BY <1>1, TailFacts DEF TypeOK, Drops
<1>3. Head(down[d]).type = "chunk" => Head(down[d]).index \in ChunksOf(Head(down[d]).model)
  BY <1>1, <1>2 DEF Stream, ChunksExist
<1>4. ASSUME down'[d] # <<>>
      PROVE  /\ Head(down'[d]) \in Messages
             /\ 2 \in 1 .. Len(down[d]) /\ Head(down'[d]) = down[d][2]
             /\ Follows(Head(down[d]), Head(down'[d]))
             /\ Head(down'[d]).type = "chunk" =>
                   Head(down'[d]).index \in ChunksOf(Head(down'[d]).model)
  <2>1. Head(down'[d]) = down'[d][1] /\ 1 \in 1 .. Len(down'[d]) /\ Head(down'[d]) \in Messages
    BY <1>2, <1>4, TailFacts
  <2>2. 2 \in 1 .. Len(down[d]) /\ Head(down'[d]) = down[d][2]
    BY <1>1, <2>1 DEF Drops
  <2>3. Follows(down[d][1], down[d][2])
    BY <1>2, <2>2 DEF Stream, InOrder
  <2> QED BY <1>1, <2>1, <2>2, <2>3 DEF Stream, ChunksExist
<1>5. ASSUME down'[d] = <<>>, Publishing, job.device = d PROVE Head(down[d]) = Latest
  <2>1. Len(down'[d]) = 0
    BY <1>5
  <2>2. Len(down[d]) = 1
    BY <1>2, <2>1
  <2> QED BY <1>1, <1>5, <2>2 DEF Stream, EndsWithLatest
<1> QED BY <1>1, <1>2, <1>3, <1>4, <1>5
(* So without damage no receiver fails to assemble.                        *)
LEMMA NeverFails ==
    ASSUME TypeOK, Stream, Undamaged
    PROVE  \A d \in Device : ~AssembleFails(d)
<1> SUFFICES ASSUME NEW d \in Device, AssembleFails(d) PROVE FALSE
  OBVIOUS
<1>1. /\ down[d] # <<>> /\ Head(down[d]).type = "chunk" /\ meta[d] # None
      /\ Complete(d) /\ ~HashMatches(d, Written(d))
  BY DEF AssembleFails, Takes
<1>2. FrontFits(d) /\ ChunksExist
  BY DEF Stream, Undamaged
<1> QED BY <1>1, <1>2, WrittenPrefix

(* A step of one device concerns that device only.                         *)
LEMMA LocalUndamaged ==
    ASSUME TypeOK, Undamaged, NEW d \in Device,
           \A e \in Device \ {d} : /\ down'[e] = down[e] /\ meta'[e] = meta[e]
                                   /\ files'[e] = files[e] /\ wired'[e] = wired[e],
           UNCHANGED <<pc, job, nextChunk>>,
           UnwiredIdle(d)', FrontFits(d)',
           Publishing /\ job.device = d => BackFits'
    PROVE  Undamaged'
<1>1. ASSUME NEW e \in Device PROVE UnwiredIdle(e)' /\ FrontFits(e)'
  BY DEF Undamaged, UnwiredIdle, FrontFits, Holds
<1>2. BackFits'
  <2>1. CASE Publishing /\ job.device # d
    <3>1. job.device \in Device
      BY <2>1 DEF Publishing, TypeOK, Jobs
    <3> QED BY <2>1, <3>1 DEF Undamaged, BackFits, Holds, Publishing
  <2>2. CASE ~Publishing
    BY <2>2 DEF BackFits, Publishing
  <2> QED BY <2>1, <2>2
<1> QED BY <1>1, <1>2 DEF Undamaged

(* Nor does publishing take anything from the head of a queue.             *)
LEMMA GainHead ==
    ASSUME TypeOK, NEW d \in Device, NEW message \in Messages, Gains(d, message),
           down' \in [Device -> Seq(Messages)]
    PROVE  /\ down'[d] # <<>>
           /\ Head(down'[d]) = IF down[d] = <<>> THEN message ELSE Head(down[d])
<1>1. /\ down[d] \in Seq(Messages) /\ down'[d] \in Seq(Messages)
      /\ Len(down'[d]) = Len(down[d]) + 1 /\ Len(down[d]) \in Nat
  BY DEF TypeOK, Gains
<1>2. down'[d] # <<>>
  BY <1>1
<1>3. Head(down'[d]) = down'[d][1]
  BY <1>1, <1>2, TailFacts
<1>4. CASE down[d] = <<>>
  <2>1. Len(down[d]) = 0
    BY <1>4
  <2> QED BY <1>2, <1>3, <1>4, <2>1 DEF Gains
<1>5. CASE down[d] # <<>>
  <2>1. Head(down[d]) = down[d][1] /\ 1 \in 1 .. Len(down[d])
    BY <1>1, <1>5, TailFacts
  <2> QED BY <1>2, <1>3, <1>5, <2>1 DEF Gains
<1> QED BY <1>4, <1>5

(* Every step that damages no message keeps receivers and queues in step.  *)
LEMMA StepUndamaged ==
    ASSUME TypeOK, Stream, Undamaged, [Next]_vars, corruptions' = corruptions,
           corruptions \in Nat
    PROVE  Undamaged'
<1> USE DEF distributorVars, ackVars, receiverVars, faultVars
<1>0. Index \subseteq Nat /\ NoFiles = [k \in Index |-> None]
  BY IndexFacts DEF NoFiles
<1>1. ASSUME UNCHANGED <<down, meta, files, wired>>, Publishing' => Publishing,
             Publishing' => UNCHANGED <<job, nextChunk>>
      PROVE  Undamaged'
  BY <1>1 DEF Undamaged, UnwiredIdle, FrontFits, BackFits, Holds
<1>2. ASSUME NEW d \in Device, NEW m \in Model, Distribute(d, m) PROVE Undamaged'
  BY <1>1, <1>2 DEF Distribute, StartCall, Publishing
<1>3. CASE \/ ClearAckData \/ AllPublished \/ WaitReturns \/ WaitTimesOut \/ ReadAck
           \/ RetryClearEvent \/ RetryClearData \/ RetryReadAck
  <2>1. UNCHANGED <<down, meta, files, wired, job, nextChunk>>
    BY <1>3 DEF ClearAckData, AllPublished, WaitReturns, WaitTimesOut, ReadAck,
       RetryClearEvent, RetryClearData, RetryReadAck
  <2>2. Publishing' => Publishing
    BY <1>3 DEF ClearAckData, AllPublished, WaitReturns, WaitTimesOut, ReadAck,
       RetryClearEvent, RetryClearData, RetryReadAck, Publishing
  <2> QED BY <1>1, <2>1, <2>2
<1>4. CASE SignalAck \/ (\E d \in Device : StoreAck(d) \/ OnModelReady(d)) \/ UNCHANGED vars
  <2>1. UNCHANGED <<down, meta, files, wired, job, nextChunk, pc>>
    BY <1>4 DEF SignalAck, StoreAck, OnModelReady, vars
  <2> QED BY <1>1, <2>1 DEF Publishing
<1>5. CASE RetryChunk
  BY <1>5 DEF RetryChunk, Stream, NoRetry
<1>6. TypeOK'
  BY StepType
<1>7. CASE PublishMeta
  <2>1. /\ job \in Jobs /\ job.device \in Device /\ job.model \in Model
        /\ MetaMessage(job.model) \in Messages /\ MetaMessage(job.model).type = "meta"
    BY <1>7 DEF PublishMeta, TypeOK, Jobs, MetaMessage, Messages
  <2>2. PICK d \in Device : d = job.device
    BY <2>1
  <2>3. Gains(d, MetaMessage(job.model))
    BY <1>7, <2>1, <2>2, PublishGains DEF PublishMeta
  <2>4. /\ down'[d] # <<>>
        /\ Head(down'[d]) = IF down[d] = <<>> THEN MetaMessage(job.model) ELSE Head(down[d])
    BY <1>6, <2>1, <2>3, GainHead DEF TypeOK
  <2>5. UNCHANGED <<meta, files, wired, job>>
    BY <1>7 DEF PublishMeta
  <2>6. ASSUME NEW e \in Device PROVE UnwiredIdle(e)' /\ FrontFits(e)'
    <3>1. CASE e = d
      BY <2>1, <2>4, <2>5, <3>1 DEF Undamaged, UnwiredIdle, FrontFits, Holds
    <3>2. CASE e # d
      BY <2>3, <2>5, <3>2 DEF Undamaged, UnwiredIdle, FrontFits, Holds, Gains
    <3> QED BY <3>1, <3>2
  <2>7. BackFits'
    BY <2>2, <2>4, <2>5 DEF BackFits
  <2> QED BY <2>6, <2>7 DEF Undamaged
<1>8. CASE PublishChunk
  <2>1. /\ job.device \in Device /\ job.model \in Model
        /\ ChunkMessage(job.model, nextChunk) \in Messages
        /\ Gains(job.device, ChunkMessage(job.model, nextChunk))
    BY <1>8, ChunkFacts DEF Stream
  <2>2. PICK d \in Device : d = job.device
    BY <2>1
  <2>3. /\ down'[d] # <<>>
        /\ Head(down'[d]) = IF down[d] = <<>> THEN ChunkMessage(job.model, nextChunk)
                            ELSE Head(down[d])
    BY <1>6, <2>1, <2>2, GainHead DEF TypeOK
  <2>4. UNCHANGED <<meta, files, wired, job>> /\ Publishing
    BY <1>8 DEF PublishChunk, Publishing
  <2>5. ASSUME NEW e \in Device PROVE UnwiredIdle(e)' /\ FrontFits(e)'
    <3>1. CASE e = d /\ down[d] = <<>>
      <4>1. Holds(d, job.model, nextChunk)
        BY <2>2, <2>4, <3>1 DEF Undamaged, BackFits
      <4> QED BY <2>3, <2>4, <3>1, <4>1
              DEF Undamaged, UnwiredIdle, FrontFits, Holds, ChunkMessage
    <3>2. CASE e = d /\ down[d] # <<>>
      BY <2>3, <2>4, <3>2 DEF Undamaged, UnwiredIdle, FrontFits, Holds
    <3>3. CASE e # d
      BY <2>1, <2>2, <2>4, <3>3 DEF Undamaged, UnwiredIdle, FrontFits, Holds, Gains
    <3> QED BY <3>1, <3>2, <3>3
  <2>6. BackFits'
    BY <2>2, <2>3, <2>4 DEF BackFits
  <2> QED BY <2>5, <2>6 DEF Undamaged
<1>9. ASSUME NEW d \in Device, HandleMeta(d) PROVE Undamaged'
  <2>1. /\ down[d] # <<>> /\ Head(down[d]).type = "meta" /\ wired[d]
        /\ down' = [down EXCEPT ![d] = Tail(@)]
        /\ meta'[d] = Head(down[d]).model /\ files'[d] = NoFiles /\ wired' = wired
        /\ \A e \in Device \ {d} : meta'[e] = meta[e] /\ files'[e] = files[e]
        /\ UNCHANGED <<pc, job, nextChunk>>
    BY <1>9 DEF HandleMeta, Takes, TypeOK
  <2>2. Head(down[d]) \in Messages /\ Head(down[d]).model \in Model
    BY <2>1, HeadFacts
  <2>3. PICK m \in Model : m = Head(down[d]).model
    BY <2>2
  <2>4. NoFiles = Prefix(m, 0)
    BY <1>0 DEF Prefix
  <2>5. /\ \A e \in Device \ {d} : down'[e] = down[e]
        /\ down'[d] # <<>> => Follows(Head(down[d]), Head(down'[d]))
        /\ down'[d] = <<>> /\ Publishing /\ job.device = d => Head(down[d]) = Latest
    BY <2>1, NextAtHead
  <2>6. UnwiredIdle(d)'
    BY <2>1 DEF UnwiredIdle
  <2>7. FrontFits(d)'
    BY <2>1, <2>3, <2>4, <2>5 DEF FrontFits, Holds, Follows
  <2>8. Publishing /\ job.device = d => BackFits'
    <3> SUFFICES ASSUME Publishing, job.device = d, down'[d] = <<>>
                 PROVE  meta'[d] = job.model /\ files'[d] = Prefix(job.model, nextChunk)
      BY <2>1 DEF BackFits, Holds, Publishing
    <3>1. Latest.type = "meta" /\ Latest.model = m
      BY <2>1, <2>3, <2>5
    <3>2. nextChunk = 0 /\ job.model = m
      BY <3>1 DEF Latest, MetaMessage, ChunkMessage
    <3> QED BY <2>1, <2>3, <2>4, <3>2
  <2> QED BY <2>1, <2>5, <2>6, <2>7, <2>8, LocalUndamaged
<1>10. ASSUME NEW d \in Device, StoreChunk(d) PROVE Undamaged'
  <2>1. /\ down[d] # <<>> /\ Head(down[d]).type = "chunk" /\ wired[d]
        /\ down' = [down EXCEPT ![d] = Tail(@)]
        /\ files'[d] = Written(d) /\ UNCHANGED <<wired, meta>> /\ meta[d] # None
        /\ \A e \in Device \ {d} : meta'[e] = meta[e] /\ files'[e] = files[e]
        /\ UNCHANGED <<pc, job, nextChunk>>
    BY <1>10 DEF StoreChunk, Takes, TypeOK
  <2>2. /\ meta[d] = Head(down[d]).model
        /\ files'[d] = Prefix(meta[d], Head(down[d]).index + 1)
    BY <2>1, WrittenPrefix DEF Stream, Undamaged
  <2>5. /\ \A e \in Device \ {d} : down'[e] = down[e]
        /\ down'[d] # <<>> => Follows(Head(down[d]), Head(down'[d]))
        /\ down'[d] = <<>> /\ Publishing /\ job.device = d => Head(down[d]) = Latest
    BY <2>1, NextAtHead
  <2>6. UnwiredIdle(d)'
    BY <2>1 DEF UnwiredIdle
  <2>7. FrontFits(d)'
    BY <2>1, <2>2, <2>5 DEF FrontFits, Holds, Follows
  <2>8. Publishing /\ job.device = d => BackFits'
    <3> SUFFICES ASSUME Publishing, job.device = d, down'[d] = <<>>
                 PROVE  meta'[d] = job.model /\ files'[d] = Prefix(job.model, nextChunk)
      BY <2>1 DEF BackFits, Holds, Publishing
    <3>1. nextChunk \in Nat /\ Head(down[d]) = Latest
      BY <2>5 DEF TypeOK
    <3>2. Head(down[d]).index + 1 = nextChunk /\ job.model = Head(down[d]).model
      BY <2>1, <3>1 DEF Latest, MetaMessage, ChunkMessage
    <3> QED BY <2>1, <2>2, <3>2
  <2> QED BY <2>1, <2>5, <2>6, <2>7, <2>8, LocalUndamaged
<1>11. ASSUME NEW d \in Device, meta'[d] = None,
              \A e \in Device \ {d} : /\ down'[e] = down[e] /\ meta'[e] = meta[e]
                                      /\ files'[e] = files[e] /\ wired'[e] = wired[e],
              UNCHANGED <<pc, job, nextChunk>>
       PROVE  Undamaged'
  <2>1. UnwiredIdle(d)' /\ FrontFits(d)'
    BY <1>11 DEF UnwiredIdle, FrontFits, Holds
  <2>2. Publishing /\ job.device = d => BackFits'
    BY <1>11 DEF BackFits, Holds
  <2> QED BY <1>11, <2>1, <2>2, LocalUndamaged
<1>12. ASSUME NEW d \in Device, AssembleSucceeds(d) PROVE Undamaged'
  BY <1>11, <1>12, NextAtHead DEF AssembleSucceeds, Takes, TypeOK
<1>13. ASSUME NEW d \in Device, IgnoreChunk(d) PROVE Undamaged'
  BY <1>11, <1>13, NextAtHead DEF IgnoreChunk, Takes
<1>14. ASSUME NEW d \in Device, DropUnwired(d) PROVE Undamaged'
  <2>1. meta[d] = None
    BY <1>14 DEF DropUnwired, Undamaged, UnwiredIdle
  <2> QED BY <1>11, <1>14, <2>1, NextAtHead DEF DropUnwired
<1>15. ASSUME NEW d \in Device, EdgeRestart(d) PROVE Undamaged'
  <2>1. PICK i \in 0 .. Len(down[d]) : Drops(d, i)
    BY <1>15, RestartDrops
  <2>2. \A e \in Device \ {d} : down'[e] = down[e]
    BY <2>1 DEF Drops
  <2> QED BY <1>11, <1>15, <2>2 DEF EdgeRestart, TypeOK
<1>16. ASSUME NEW d \in Device, SetModelReceiver(d) PROVE Undamaged'
  <2>1. meta[d] = None
    BY <1>16 DEF SetModelReceiver, Undamaged, UnwiredIdle
  <2> QED BY <1>11, <1>16, <2>1 DEF SetModelReceiver, TypeOK
<1>17. ASSUME NEW d \in Device, AssembleFails(d) \/ RejectMeta(d) \/ RejectChunk(d)
       PROVE  Undamaged'
  BY <1>17, NeverFails DEF RejectMeta, RejectChunk
<1> QED
  BY <1>2, <1>3, <1>4, <1>5, <1>7, <1>8, <1>9, <1>10, <1>12, <1>13, <1>14, <1>15, <1>16,
     <1>17 DEF Next, DistributorStep, EdgeStep, HandleChunk

(* Without damage there is no error ACK and no retry.  Restarts and        *)
(* answers that come too late do not change that.                          *)
Clean == corruptions = 0 => Stream /\ Undamaged

CorruptionsCount == corruptions \in Nat

(* Damage is counted and never taken back.                                 *)
LEMMA StepClean ==
    TypeOK /\ CorruptionsCount /\ Clean /\ [Next]_vars => CorruptionsCount' /\ Clean'
<1> SUFFICES ASSUME TypeOK, CorruptionsCount, Clean, [Next]_vars
             PROVE  CorruptionsCount' /\ Clean'
  OBVIOUS
<1> USE DEF distributorVars, ackVars, receiverVars, faultVars, CorruptionsCount
<1>1. corruptions' = corruptions \/ corruptions' = corruptions + 1
  BY DEF Next, DistributorStep, EdgeStep, HandleChunk, vars, Distribute, StartCall,
     ClearAckData, PublishMeta, PublishChunk, AllPublished, WaitReturns, WaitTimesOut,
     ReadAck, RetryChunk, RetryClearEvent, RetryClearData, RetryReadAck, SignalAck,
     StoreAck, HandleMeta, IgnoreChunk, StoreChunk, AssembleFails, AssembleSucceeds,
     OnModelReady, SetModelReceiver, DropUnwired, RejectMeta, RejectChunk, EdgeRestart
<1>2. CASE corruptions' # 0
  BY <1>1, <1>2 DEF Clean
<1>3. CASE corruptions' = 0
  <2>1. corruptions = 0 /\ Stream /\ Undamaged
    BY <1>1, <1>3 DEF Clean
  <2>2. Stream' /\ Undamaged'
    BY <1>3, <2>1, NeverFails, StepStream, StepUndamaged
  <2> QED BY <1>3, <2>2 DEF Clean
<1> QED BY <1>2, <1>3

(* Nothing has been sent or damaged yet.                                   *)
LEMMA InitClean == Init => CorruptionsCount /\ Clean
<1> SUFFICES ASSUME Init PROVE CorruptionsCount /\ Stream /\ Undamaged
  BY DEF Clean
<1>1. CorruptionsCount /\ Stream
  BY DEF Init, CorruptionsCount, Stream, InOrder, ChunksExist, Counter, EndsWithLatest,
     AcksSucceed, NoRetry, Publishing
<1>2. Undamaged
  BY DEF Init, Undamaged, UnwiredIdle, FrontFits, BackFits, Publishing
<1> QED BY <1>1, <1>2

(* For any sizes and any number of transfers, of restarts and of waits     *)
(* that timed out: unless a message is damaged, ModelReceiver sends no     *)
(* error ACK and distribute_model does not enter _retry_chunks.            *)
THEOREM NoErrorWithoutDamage == Spec => []ErrorAckNeedsDamage
<1>1. Clean => ErrorAckNeedsDamage
  BY DEF Clean, Stream, AcksSucceed, NoRetry, ErrorAckNeedsDamage
<1> QED BY <1>1, InitType, StepType, InitClean, StepClean, PTL DEF Spec
-----------------------------------------------------------------------------
(* Without damage and restarts.  Every chunk finds its transfer in force,  *)
(* and the last one is answered; the answer is in the topic, in the MQTT   *)
(* thread or in the event until distribute_model looks for it.             *)

FrontHasMeta(d) == down[d] # <<>> /\ Head(down[d]).type = "chunk" => meta[d] # None

AllReceived == Publishing /\ down[job.device] = <<>>

BackHasMeta ==
    AllReceived /\ nextChunk < Chunks[job.model] => meta[job.device] # None

AckComing ==
    AllReceived /\ nextChunk = Chunks[job.model] /\ nextChunk > 0
        => up[job.device] # <<>> \/ signalling \/ ackEvent

Answering ==
    /\ \A d \in Device : wired[d] /\ FrontHasMeta(d)
    /\ BackHasMeta /\ AckComing

(* A step of one device concerns that device only.                         *)
LEMMA LocalAnswering ==
    ASSUME TypeOK, Answering, NEW d \in Device,
           \A e \in Device \ {d} : down'[e] = down[e] /\ meta'[e] = meta[e] /\ up'[e] = up[e],
           UNCHANGED <<pc, job, nextChunk, wired, signalling, ackEvent>>,
           FrontHasMeta(d)',
           job.device = d => BackHasMeta' /\ AckComing'
    PROVE  Answering'
<1>1. ASSUME NEW e \in Device PROVE wired'[e] /\ FrontHasMeta(e)'
  BY DEF Answering, FrontHasMeta
<1>2. BackHasMeta' /\ AckComing'
  <2>1. CASE Publishing /\ job.device # d
    <3>1. job.device \in Device
      BY <2>1 DEF Publishing, TypeOK, Jobs
    <3> QED BY <2>1, <3>1 DEF Answering, BackHasMeta, AckComing, AllReceived, Publishing
  <2>2. CASE ~Publishing
    BY <2>2 DEF BackHasMeta, AckComing, AllReceived, Publishing
  <2> QED BY <2>1, <2>2
<1> QED BY <1>1, <1>2 DEF Answering

(* Every step of an undisturbed system keeps the answer coming.            *)
LEMMA StepAnswering ==
    ASSUME TypeOK, Stream, Undamaged, Answering, [Next]_vars,
           corruptions' = corruptions, restarts' = restarts,
           corruptions \in Nat, restarts \in Nat
    PROVE  Answering'
<1> USE DEF distributorVars, ackVars, receiverVars, faultVars
<1>1. TypeOK'
  BY StepType
<1>2. ASSUME UNCHANGED <<down, meta, wired>>, ~Publishing' PROVE Answering'
  BY <1>2 DEF Answering, FrontHasMeta, BackHasMeta, AckComing, AllReceived
<1>3. ASSUME UNCHANGED <<down, meta, wired, job, nextChunk>>, Publishing' => Publishing,
             AckComing'
      PROVE  Answering'
  BY <1>3 DEF Answering, FrontHasMeta, BackHasMeta, AllReceived
<1>4. ASSUME NEW d \in Device, NEW m \in Model, Distribute(d, m) PROVE Answering'
  BY <1>2, <1>4 DEF Distribute, StartCall, Publishing
<1>5. CASE ClearAckData \/ WaitTimesOut
  BY <1>2, <1>5 DEF ClearAckData, WaitTimesOut, Publishing
<1>6. CASE ReadAck
  <2>1. ~Publishing'
    BY <1>6 DEF ReadAck, Publishing
  <2> QED BY <1>2, <1>6, <2>1 DEF ReadAck
<1>7. CASE AllPublished \/ WaitReturns
  <2>1. UNCHANGED <<down, meta, wired, job, nextChunk, up, signalling, ackEvent>>
    BY <1>7 DEF AllPublished, WaitReturns
  <2>2. Publishing' => Publishing
    BY <1>7 DEF AllPublished, WaitReturns, Publishing
  <2>3. AckComing'
    BY <2>1, <2>2 DEF Answering, AckComing, AllReceived
  <2> QED BY <1>3, <2>1, <2>2, <2>3
<1>8. CASE RetryChunk \/ RetryClearEvent \/ RetryClearData \/ RetryReadAck
  BY <1>8 DEF RetryChunk, RetryClearEvent, RetryClearData, RetryReadAck, Stream, NoRetry
<1>9. CASE SignalAck \/ \E d \in Device : StoreAck(d)
  <2>1. UNCHANGED <<down, meta, wired, job, nextChunk, pc>> /\ (signalling' \/ ackEvent')
    BY <1>9 DEF SignalAck, StoreAck
  <2>2. AckComing'
    BY <2>1 DEF AckComing
  <2> QED BY <1>3, <2>1, <2>2 DEF Publishing
<1>10. CASE (\E d \in Device : OnModelReady(d)) \/ UNCHANGED vars
  <2>1. UNCHANGED <<down, meta, wired, job, nextChunk, pc, up, signalling, ackEvent>>
    BY <1>10 DEF OnModelReady, vars
  <2>2. AckComing'
    BY <2>1 DEF Answering, AckComing, AllReceived, Publishing
  <2> QED BY <1>3, <2>1, <2>2 DEF Publishing
<1>11. ASSUME job.device \in Device, NEW message \in Messages, Gains(job.device, message),
              down[job.device] = <<>> => message.type = "meta" \/ meta[job.device] # None,
              UNCHANGED <<meta, wired, job>>
       PROVE  Answering'
  <2>1. PICK d \in Device : d = job.device
    BY <1>11
  <2>2. /\ down'[d] # <<>>
        /\ Head(down'[d]) = IF down[d] = <<>> THEN message ELSE Head(down[d])
    BY <1>1, <1>11, <2>1, GainHead DEF TypeOK
  <2>3. ASSUME NEW e \in Device PROVE wired'[e] /\ FrontHasMeta(e)'
    <3>1. CASE e = d
      BY <1>11, <2>1, <2>2, <3>1 DEF Answering, FrontHasMeta
    <3>2. CASE e # d
      BY <1>11, <2>1, <3>2 DEF Answering, FrontHasMeta, Gains
    <3> QED BY <3>1, <3>2
  <2>4. ~AllReceived'
    BY <1>11, <2>1, <2>2 DEF AllReceived
  <2> QED BY <2>3, <2>4 DEF Answering, BackHasMeta, AckComing
<1>12. CASE PublishMeta
  <2>1. /\ job \in Jobs /\ job.device \in Device /\ job.model \in Model
        /\ MetaMessage(job.model) \in Messages /\ MetaMessage(job.model).type = "meta"
    BY <1>12 DEF PublishMeta, TypeOK, Jobs, MetaMessage, Messages
  <2>2. Gains(job.device, MetaMessage(job.model))
    BY <1>12, <2>1, PublishGains DEF PublishMeta
  <2> QED BY <1>11, <1>12, <2>1, <2>2 DEF PublishMeta
<1>13. CASE PublishChunk
  <2>1. /\ job.device \in Device /\ ChunkMessage(job.model, nextChunk) \in Messages
        /\ Gains(job.device, ChunkMessage(job.model, nextChunk))
    BY <1>13, ChunkFacts DEF Stream
  <2>2. down[job.device] = <<>> => meta[job.device] # None
    BY <1>13 DEF PublishChunk, MoreToPublish, Answering, BackHasMeta, AllReceived, Publishing
  <2> QED BY <1>11, <1>13, <2>1, <2>2 DEF PublishChunk
<1>14. ASSUME NEW d \in Device, HandleMeta(d) PROVE Answering'
  <2>1. /\ down[d] # <<>> /\ Head(down[d]).type = "meta"
        /\ down' = [down EXCEPT ![d] = Tail(@)]
        /\ meta'[d] = Head(down[d]).model
        /\ \A e \in Device \ {d} : meta'[e] = meta[e]
        /\ UNCHANGED <<pc, job, nextChunk, wired, signalling, ackEvent, up>>
    BY <1>14 DEF HandleMeta, Takes, TypeOK
  <2>2. meta'[d] # None
    BY <2>1, HeadFacts, NoneAssumption
  <2>3. /\ \A e \in Device \ {d} : down'[e] = down[e]
        /\ down'[d] = <<>> /\ Publishing /\ job.device = d => Head(down[d]) = Latest
    BY <2>1, NextAtHead
  <2>4. FrontHasMeta(d)'
    BY <2>2 DEF FrontHasMeta
  <2>5. ASSUME job.device = d PROVE BackHasMeta' /\ AckComing'
    <3>1. AllReceived' => Latest.type = "meta"
      BY <2>1, <2>3, <2>5 DEF AllReceived, Publishing
    <3>2. AllReceived' => nextChunk' = 0
      BY <2>1, <3>1 DEF Latest, ChunkMessage
    <3> QED BY <2>1, <2>2, <2>5, <3>2 DEF BackHasMeta, AckComing
  <2> QED BY <2>1, <2>3, <2>4, <2>5, LocalAnswering
<1>15. ASSUME NEW d \in Device, StoreChunk(d) PROVE Answering'
  <2>1. /\ down[d] # <<>> /\ Head(down[d]).type = "chunk"
        /\ down' = [down EXCEPT ![d] = Tail(@)]
        /\ meta[d] # None /\ ~Complete(d)
        /\ UNCHANGED <<pc, job, nextChunk, wired, signalling, ackEvent, up, meta>>
    BY <1>15 DEF StoreChunk, Takes
  <2>2. /\ meta[d] = Head(down[d]).model
        /\ Head(down[d]).index + 1 # Chunks[meta[d]]
    BY <2>1, WrittenPrefix DEF Stream, Undamaged
  <2>3. /\ \A e \in Device \ {d} : down'[e] = down[e]
        /\ down'[d] = <<>> /\ Publishing /\ job.device = d => Head(down[d]) = Latest
    BY <2>1, NextAtHead
  <2>4. FrontHasMeta(d)'
    BY <2>1 DEF FrontHasMeta
  <2>5. ASSUME job.device = d PROVE BackHasMeta' /\ AckComing'
    <3>1. AllReceived' => Head(down[d]) = Latest
      BY <2>1, <2>3, <2>5 DEF AllReceived, Publishing
    <3>2. nextChunk \in Nat
      BY DEF TypeOK
    <3>3. AllReceived' => nextChunk # Chunks[job.model]
      BY <2>1, <2>2, <3>1, <3>2 DEF Latest, ChunkMessage, MetaMessage
    <3> QED BY <2>1, <2>5, <3>3 DEF BackHasMeta, AckComing
  <2> QED BY <2>1, <2>3, <2>4, <2>5, LocalAnswering
<1>16. ASSUME NEW d \in Device, AssembleSucceeds(d) PROVE Answering'
  <2>1. /\ down[d] # <<>> /\ Head(down[d]).type = "chunk"
        /\ down' = [down EXCEPT ![d] = Tail(@)]
        /\ meta[d] # None /\ Complete(d)
        /\ \A e \in Device \ {d} : meta'[e] = meta[e] /\ up'[e] = up[e]
        /\ UNCHANGED <<pc, job, nextChunk, wired, signalling, ackEvent>>
    BY <1>16 DEF AssembleSucceeds, SendAck, Takes, TypeOK
  <2>2. up'[d] # <<>>
    <3>1. PICK ack : ack = [status |-> "success", missing |-> {},
                            filename |-> Filename[meta[d]]]
      OBVIOUS
    <3>2. ack \in Acks /\ up[d] \in Seq(Acks) /\ up'[d] = Append(up[d], ack)
      BY <1>16, <3>1 DEF AssembleSucceeds, SendAck, TypeOK, Acks
    <3>3. Len(up'[d]) = Len(up[d]) + 1 /\ Len(up[d]) \in Nat
      BY <3>2, AppendFacts
    <3>4. Len(<<>>) = 0
      OBVIOUS
    <3> QED BY <3>3, <3>4
  <2>3. /\ meta[d] = Head(down[d]).model /\ meta[d] \in Model
        /\ Head(down[d]).index + 1 = Chunks[meta[d]]
    BY <2>1, WrittenPrefix DEF Stream, Undamaged
  <2>4. /\ \A e \in Device \ {d} : down'[e] = down[e]
        /\ down'[d] # <<>> =>
              /\ Follows(Head(down[d]), Head(down'[d]))
              /\ Head(down'[d]).type = "chunk" =>
                    Head(down'[d]).index \in ChunksOf(Head(down'[d]).model)
        /\ down'[d] = <<>> /\ Publishing /\ job.device = d => Head(down[d]) = Latest
    BY <2>1, NextAtHead
  <2>5. FrontHasMeta(d)'
    <3> SUFFICES ASSUME down'[d] # <<>>, Head(down'[d]).type = "chunk" PROVE FALSE
      BY DEF FrontHasMeta
    <3>1. Head(down'[d]).index = Chunks[meta[d]] /\ Head(down'[d]).model = meta[d]
      BY <2>1, <2>3, <2>4 DEF Follows
    <3>2. Chunks[meta[d]] \in Nat
      BY <2>3, IndexFacts
    <3> QED BY <2>4, <3>1, <3>2 DEF ChunksOf
  <2>6. ASSUME job.device = d PROVE BackHasMeta' /\ AckComing'
    <3>1. AllReceived' => Head(down[d]) = Latest
      BY <2>1, <2>4, <2>6 DEF AllReceived, Publishing
    <3>2. nextChunk \in Nat /\ Chunks[meta[d]] \in Nat
      BY <2>3, IndexFacts DEF TypeOK
    <3>3. AllReceived' => nextChunk = Chunks[job.model]
      BY <2>1, <2>3, <3>1, <3>2 DEF Latest, ChunkMessage, MetaMessage
    <3>4. AllReceived' => Chunks[job.model] \in Nat
      BY <3>2, <3>3
    <3>5. BackHasMeta'
      BY <2>1, <3>3, <3>4 DEF BackHasMeta
    <3>6. AckComing'
      BY <2>1, <2>2, <2>6 DEF AckComing
    <3> QED BY <3>5, <3>6
  <2> QED BY <2>1, <2>4, <2>5, <2>6, LocalAnswering
<1>17. ASSUME NEW d \in Device, IgnoreChunk(d) \/ DropUnwired(d) \/ SetModelReceiver(d)
       PROVE  Answering'
  BY <1>17 DEF IgnoreChunk, DropUnwired, SetModelReceiver, Takes, Answering, FrontHasMeta
<1>18. ASSUME NEW d \in Device,
              AssembleFails(d) \/ RejectMeta(d) \/ RejectChunk(d) \/ EdgeRestart(d)
       PROVE  Answering'
  BY <1>18, NeverFails DEF RejectMeta, RejectChunk, EdgeRestart
<1> QED
  BY <1>4, <1>5, <1>6, <1>7, <1>8, <1>9, <1>10, <1>12, <1>13, <1>14, <1>15, <1>16, <1>17,
     <1>18 DEF Next, DistributorStep, EdgeStep, HandleChunk

(* The invariant of an undisturbed system.                                 *)
Undisturbed == corruptions = 0 /\ restarts = 0 => Answering

RestartsCount == restarts \in Nat

(* Nothing has been sent yet.                                              *)
LEMMA InitUndisturbed == Init => RestartsCount /\ Undisturbed
BY DEF Init, RestartsCount, Undisturbed, Answering, FrontHasMeta, BackHasMeta, AckComing,
       AllReceived, Publishing

(* Faults are counted and never taken back.                                *)
LEMMA StepUndisturbed ==
    TypeOK /\ CorruptionsCount /\ Clean /\ RestartsCount /\ Undisturbed /\ [Next]_vars
        => RestartsCount' /\ Undisturbed'
<1> SUFFICES ASSUME TypeOK, CorruptionsCount, Clean, RestartsCount, Undisturbed, [Next]_vars
             PROVE  RestartsCount' /\ Undisturbed'
  OBVIOUS
<1> USE DEF distributorVars, ackVars, receiverVars, faultVars, CorruptionsCount, RestartsCount
<1>1. /\ corruptions' = corruptions \/ corruptions' = corruptions + 1
      /\ restarts' = restarts \/ restarts' = restarts + 1
  BY DEF Next, DistributorStep, EdgeStep, HandleChunk, vars, Distribute, StartCall,
     ClearAckData, PublishMeta, PublishChunk, AllPublished, WaitReturns, WaitTimesOut,
     ReadAck, RetryChunk, RetryClearEvent, RetryClearData, RetryReadAck, SignalAck,
     StoreAck, HandleMeta, IgnoreChunk, StoreChunk, AssembleFails, AssembleSucceeds,
     OnModelReady, SetModelReceiver, DropUnwired, RejectMeta, RejectChunk, EdgeRestart
<1>2. CASE corruptions' # 0 \/ restarts' # 0
  BY <1>1, <1>2 DEF Undisturbed
<1>3. CASE corruptions' = 0 /\ restarts' = 0
  <2>1. corruptions = 0 /\ restarts = 0 /\ Stream /\ Undamaged /\ Answering
    BY <1>1, <1>3 DEF Clean, Undisturbed
  <2>2. Answering'
    BY <1>3, <2>1, StepAnswering
  <2> QED BY <1>3, <2>2 DEF Undisturbed
<1> QED BY <1>2, <1>3

(* _ack_event is cleared early enough: without faults, distribute_model    *)
(* never waits on an event that no thread will set any more, for any       *)
(* number of calls, whichever of them timed out before.                    *)
THEOREM AckNeverLost == Spec => []NoLostAck
<1>1. TypeOK /\ Clean /\ Undisturbed => NoLostAck
  <2> SUFFICES ASSUME TypeOK, Clean, Undisturbed, pc = "wait", Quiet,
                      Chunks[job.model] > 0, corruptions = 0, restarts = 0
               PROVE  ackEvent
    BY DEF NoLostAck
  <2>1. job.device \in Device /\ Publishing
    BY DEF TypeOK, Jobs, Publishing
  <2>2. nextChunk = Chunks[job.model]
    BY DEF Clean, Stream, Counter
  <2> QED BY <2>1, <2>2 DEF Quiet, Undisturbed, Answering, AckComing, AllReceived
<1> QED
  BY <1>1, InitType, StepType, InitClean, StepClean, InitUndisturbed, StepUndisturbed, PTL
     DEF Spec
-----------------------------------------------------------------------------
(* Until some wait times out, damage and restarts included.  The device of *)
(* the call in progress is the only one with anything in its queues, its   *)
(* messages are all of this call, and it is answered once, at the end.     *)

Vacant(d) == down[d] = <<>> /\ up[d] = <<>> /\ meta[d] = None

Alone == \A d \in Device : Vacant(d) \/ (Publishing /\ d = job.device)

(* What is queued and stored belongs to this call, in ascending order.     *)
Fresh(d) ==
    /\ \A n \in 1 .. Len(down[d]) :
          /\ down[d][n].model = job.model
          /\ down[d][n].type = "meta" => n = 1 /\ meta[d] = None
          /\ down[d][n].type = "chunk" => down[d][n].index < nextChunk
    /\ meta[d] # None =>
          /\ meta[d] = job.model
          /\ \A k \in Index : files[d][k] # None =>
                /\ files[d][k] = job.model /\ k < nextChunk
                /\ down[d] # <<>> /\ Head(down[d]).type = "chunk"
                     => k < Head(down[d]).index

Completed ==
    /\ down[job.device] = <<>> /\ meta[job.device] = None
    /\ nextChunk = Chunks[job.model]
    /\ Delivered(job.device, job.model)

(* The only ACK of the call is in the topic, in the MQTT thread or in the  *)
(* event, and the transfer is complete.                                    *)
OneAck ==
    /\ Publishing /\ (up[job.device] # <<>> \/ signalling \/ ackEvent) => Completed
    /\ Publishing /\ up[job.device] # <<>>
          => Len(up[job.device]) = 1 /\ ~signalling /\ ~ackEvent
    /\ ~(signalling /\ ackEvent)
    /\ Publishing /\ (signalling \/ ackEvent) => ackData # None
    /\ pc = "read" => ackEvent
    /\ ~Publishing => ~signalling
    /\ pc \in {"clear", "meta"} => ~ackEvent

RightResult ==
    result # FALSE /\ (result = TRUE => Delivered(job.device, job.model))

Timely == Alone /\ (Publishing => Fresh(job.device)) /\ OneAck /\ RightResult

(* A device with anything in its queues is the one of the call.            *)
LEMMA OnlyTheJob ==
    ASSUME TypeOK, Timely, NEW d \in Device, ~Vacant(d)
    PROVE  /\ Publishing /\ d = job.device /\ Fresh(d) /\ job \in Jobs
           /\ job.model \in Model
BY DEF Timely, Alone, Publishing, TypeOK, Jobs

(* A complete transfer has all its chunks, ends with the last of them, and *)
(* assembles.                                                              *)
LEMMA WrittenFresh ==
    ASSUME TypeOK, ChunksExist, NEW d \in Device, down[d] # <<>>,
           Head(down[d]).type = "chunk", meta[d] # None, Fresh(d)
    PROVE  /\ Head(down[d]).index \in ChunksOf(meta[d]) /\ meta[d] \in Model
           /\ Head(down[d]).model = meta[d] /\ meta[d] = job.model
           /\ Head(down[d]).index < nextChunk
           /\ \A k \in Index : Written(d)[k] # None =>
                 Written(d)[k] = meta[d] /\ k <= Head(down[d]).index
           /\ Complete(d) => Head(down[d]).index + 1 = Chunks[meta[d]]
           /\ Complete(d) => HashMatches(d, Written(d))
<1>1. PICK m, i : m = meta[d] /\ i = Head(down[d]).index
  OBVIOUS
<1>2. Head(down[d]) = down[d][1] /\ 1 \in 1 .. Len(down[d])
  BY TailFacts DEF TypeOK
<1>3. m \in Model /\ m = job.model /\ m = Head(down[d]).model /\ i < nextChunk
  BY <1>1, <1>2 DEF Fresh, TypeOK
<1>4. i \in ChunksOf(m)
  BY <1>1, <1>2, <1>3 DEF ChunksExist
<1>5. /\ i \in Nat /\ i < Chunks[m] /\ i \in Index /\ Chunks[m] \in Nat
      /\ Index \subseteq Nat /\ ChunksOf(m) \subseteq Index
  BY <1>3, <1>4, IndexFacts DEF ChunksOf
<1>6. \A k \in Index : Written(d)[k] # None => Written(d)[k] = m /\ k <= i
  <2>1. Written(d) = [files[d] EXCEPT ![i] = m] /\ files[d] \in [Index -> Model \cup {None}]
    BY <1>1, <1>3 DEF Written, TypeOK
  <2>2. ASSUME NEW k \in Index, Written(d)[k] # None PROVE Written(d)[k] = m /\ k <= i
    <3>1. CASE k = i
      BY <1>5, <2>1, <3>1
    <3>2. CASE k # i
      <4>1. files[d][k] # None /\ Written(d)[k] = files[d][k]
        BY <2>1, <2>2, <3>2
      <4>2. files[d][k] = m /\ k < i
        BY <1>1, <1>3, <4>1 DEF Fresh
      <4> QED BY <1>5, <4>1, <4>2
    <3> QED BY <3>1, <3>2
  <2> QED BY <2>2
<1>7. Received(Written(d)) \subseteq ChunksOf(m)
  BY <1>5, <1>6 DEF Received, ChunksOf
<1>8. IsFiniteSet(ChunksOf(m)) /\ Cardinality(ChunksOf(m)) = Chunks[m]
  <2>1. 0 \in Int /\ Chunks[m] - 1 \in Int
    BY <1>5
  <2>2. /\ IsFiniteSet(0 .. Chunks[m] - 1)
        /\ Cardinality(0 .. Chunks[m] - 1)
             = IF 0 > Chunks[m] - 1 THEN 0 ELSE (Chunks[m] - 1) - 0 + 1
    BY <2>1, FS_Interval
  <2> QED BY <1>5, <2>2 DEF ChunksOf
<1>9. ASSUME Complete(d) PROVE i + 1 = Chunks[m] /\ HashMatches(d, Written(d))
  <2>1. Cardinality(Received(Written(d))) = Cardinality(ChunksOf(m))
    BY <1>1, <1>8, <1>9 DEF Complete
  <2>2. Received(Written(d)) = ChunksOf(m)
    BY <1>7, <1>8, <2>1, FS_Subset
  <2>3. \A k \in ChunksOf(m) : Written(d)[k] = m /\ k <= i
    BY <1>6, <2>2 DEF Received
  <2>4. Chunks[m] - 1 \in ChunksOf(m)
    BY <1>5 DEF ChunksOf
  <2>5. Chunks[m] - 1 <= i
    BY <2>3, <2>4
  <2> QED BY <1>1, <1>5, <2>3, <2>5 DEF HashMatches
<1> QED BY <1>1, <1>3, <1>4, <1>6, <1>9

(* So before the first timeout no receiver fails to assemble either.       *)
LEMMA NeverFailsInTime ==
    ASSUME TypeOK, Stream, Timely
    PROVE  \A d \in Device : ~AssembleFails(d)
<1> SUFFICES ASSUME NEW d \in Device, AssembleFails(d) PROVE FALSE
  OBVIOUS
<1>1. /\ down[d] # <<>> /\ Head(down[d]).type = "chunk" /\ meta[d] # None
      /\ Complete(d) /\ ~HashMatches(d, Written(d))
  BY DEF AssembleFails, Takes
<1>2. Fresh(d) /\ ChunksExist
  BY <1>1, OnlyTheJob DEF Stream, Vacant
<1> QED BY <1>1, <1>2, WrittenFresh
(* A step of the call's device while it receives.                          *)
LEMMA LocalTimely ==
    ASSUME TypeOK, Timely, NEW d \in Device, d = job.device, Publishing,
           \A e \in Device \ {d} : down'[e] = down[e] /\ up'[e] = up[e] /\ meta'[e] = meta[e],
           UNCHANGED <<pc, job, nextChunk, result, ackData, ackEvent, signalling>>,
           verified[d] \subseteq verified'[d],
           Fresh(d)',
           up'[d] # <<>> => Len(up'[d]) = 1,
           up'[d] = <<>> \/ (Completed' /\ ~signalling /\ ~ackEvent),
           Completed => Completed'
    PROVE  Timely'
<1>1. Publishing' /\ Alone'
  BY DEF Timely, Alone, Publishing, Vacant
<1>2. OneAck'
  BY <1>1 DEF Timely, OneAck, Publishing
<1>3. RightResult'
  BY DEF Timely, RightResult, Delivered
<1> QED BY <1>1, <1>2, <1>3 DEF Timely

(* The receiver takes a message and does not store it, or there is none    *)
(* in force to store.                                                      *)
LEMMA SkippedFresh ==
    ASSUME TypeOK, Stream, NEW d \in Device, Fresh(d), down[d] # <<>>,
           down' = [down EXCEPT ![d] = Tail(@)],
           UNCHANGED <<job, nextChunk, meta, files>>
    PROVE  Fresh(d)'
<1>1. Drops(d, 1) /\ Head(down[d]) = down[d][1] /\ 1 \in 1 .. Len(down[d])
  BY TakeDrops, TailFacts DEF TypeOK
<1>2. \A n \in 1 .. Len(down'[d]) :
         n + 1 \in 1 .. Len(down[d]) /\ n + 1 # 1 /\ down'[d][n] = down[d][n + 1]
  BY <1>1 DEF Drops
<1>3. \A n \in 1 .. Len(down'[d]) :
         /\ down'[d][n].model = job.model
         /\ down'[d][n].type # "meta"
         /\ down'[d][n].type = "chunk" => down'[d][n].index < nextChunk
  BY <1>2 DEF Fresh
<1>4. ASSUME meta[d] # None, NEW k \in Index, files[d][k] # None, down'[d] # <<>>,
             Head(down'[d]).type = "chunk"
      PROVE  k < Head(down'[d]).index
  <2>1. Head(down[d]) \in Messages /\ Head(down[d]).type = "chunk"
    BY <1>1, <1>4, TailFacts DEF Fresh, TypeOK, Messages
  <2>2. Follows(Head(down[d]), Head(down'[d])) /\ Head(down[d]).index \in Index
    BY <1>4, <2>1, NextAtHead, HeadFacts
  <2>3. Head(down'[d]).index = Head(down[d]).index + 1 /\ k < Head(down[d]).index
    BY <1>4, <2>1, <2>2 DEF Follows, Fresh
  <2>4. PICK i \in Nat : i = Head(down[d]).index
    BY <2>2, IndexFacts
  <2>5. Head(down'[d]).index = i + 1
    BY <2>3, <2>4
  <2>6. k < i + 1
    BY <2>3, <2>4, IndexFacts
  <2> QED BY <2>5, <2>6, Zenon
<1> QED BY <1>3, <1>4 DEF Fresh

(* Every step that is no timeout keeps the calls apart.                    *)
LEMMA StepTimely ==
    ASSUME TypeOK, Stream, Timely, [Next]_vars, ~timedOut'
    PROVE  Timely'
<1> USE DEF distributorVars, ackVars, receiverVars, faultVars
<1>0. Index \subseteq Nat
  BY IndexFacts
<1>1. TypeOK'
  BY StepType
<1>2. CASE (\E d \in Device : OnModelReady(d) \/ SetModelReceiver(d)) \/ UNCHANGED vars
  <2>1. UNCHANGED <<pc, job, nextChunk, down, up, meta, files, signalling, ackEvent, ackData,
                    result, verified>>
    BY <1>2 DEF OnModelReady, SetModelReceiver, vars
  <2>2. Alone' /\ RightResult' /\ OneAck'
    BY <2>1 DEF Timely, Alone, RightResult, OneAck, Vacant, Delivered, Publishing, Completed
  <2>3. (Publishing => Fresh(job.device))'
    BY <2>1 DEF Timely, Fresh, Publishing
  <2> QED BY <2>2, <2>3 DEF Timely
<1>3. ASSUME NEW d \in Device, NEW m \in Model, Distribute(d, m) PROVE Timely'
  <2>1. /\ ~Publishing /\ ~Publishing' /\ pc' = "clear" /\ ~ackEvent'
        /\ UNCHANGED <<down, up, meta, signalling>> /\ result' = None
    BY <1>3 DEF Distribute, StartCall, Publishing
  <2>2. Alone' /\ OneAck'
    BY <2>1 DEF Timely, Alone, Vacant, OneAck
  <2>3. RightResult'
    BY <2>1, AnswerAssumption DEF RightResult
  <2> QED BY <2>1, <2>2, <2>3 DEF Timely
<1>4. CASE ClearAckData
  <2>1. /\ ~Publishing /\ ~Publishing' /\ pc' = "meta" /\ pc = "clear"
        /\ UNCHANGED <<down, up, meta, signalling, ackEvent, result, job, verified>>
    BY <1>4 DEF ClearAckData, Publishing
  <2>2. Alone' /\ OneAck' /\ RightResult'
    BY <2>1 DEF Timely, Alone, Vacant, OneAck, RightResult, Delivered
  <2> QED BY <2>1, <2>2 DEF Timely
<1>5. CASE PublishMeta
  <2>1. /\ job \in Jobs /\ job.device \in Device /\ job.model \in Model
        /\ MetaMessage(job.model) \in Messages /\ MetaMessage(job.model).type = "meta"
        /\ MetaMessage(job.model).model = job.model
    BY <1>5 DEF PublishMeta, TypeOK, Jobs, MetaMessage, Messages
  <2>2. PICK d \in Device : d = job.device
    BY <2>1
  <2>3. Gains(d, MetaMessage(job.model))
    BY <1>5, <2>1, <2>2, PublishGains DEF PublishMeta
  <2>4. /\ ~Publishing /\ Publishing' /\ pc' = "chunks" /\ pc = "meta"
        /\ UNCHANGED <<up, meta, signalling, ackEvent, result, job, verified>>
    BY <1>5 DEF PublishMeta, Publishing
  <2>5. \A e \in Device : Vacant(e)
    BY <2>4 DEF Timely, Alone
  <2>6. Alone'
    BY <2>2, <2>3, <2>4, <2>5 DEF Alone, Vacant, Gains
  <2>7. Fresh(d)'
    <3>1. Len(down[d]) = 0
      BY <2>5 DEF Vacant
    <3>2. Len(down'[d]) = 1 /\ down'[d][1] = MetaMessage(job.model)
      BY <2>3, <3>1 DEF Gains
    <3> QED BY <2>1, <2>4, <2>5, <3>2 DEF Fresh, Vacant
  <2>8. OneAck' /\ RightResult'
    BY <2>2, <2>4, <2>5 DEF Timely, OneAck, RightResult, Vacant, Delivered
  <2> QED BY <2>2, <2>4, <2>6, <2>7, <2>8 DEF Timely
<1>6. CASE PublishChunk
  <2>1. /\ job.device \in Device /\ job.model \in Model /\ nextChunk \in Nat
        /\ ChunkMessage(job.model, nextChunk) \in Messages
        /\ Gains(job.device, ChunkMessage(job.model, nextChunk))
    BY <1>6, ChunkFacts DEF Stream, TypeOK
  <2>2. PICK d \in Device : d = job.device
    BY <2>1
  <2>3. PICK c \in Messages : c = ChunkMessage(job.model, nextChunk)
    BY <2>1
  <2>4. c.type = "chunk" /\ c.model = job.model /\ c.index = nextChunk
    BY <2>3 DEF ChunkMessage
  <2>5. /\ Publishing /\ Publishing' /\ pc' = "chunks" /\ pc = "chunks"
        /\ nextChunk' = nextChunk + 1 /\ nextChunk < Chunks[job.model]
        /\ UNCHANGED <<up, meta, files, signalling, ackEvent, ackData, result, job, verified>>
    BY <1>6 DEF PublishChunk, MoreToPublish, Publishing
  <2>6. up[d] = <<>> /\ ~signalling /\ ~ackEvent
    <3>1. Chunks[job.model] \in Nat
      BY <2>1, IndexFacts
    <3> QED BY <2>1, <2>2, <2>5, <3>1 DEF Timely, OneAck, Completed
  <2>7. Alone' /\ OneAck' /\ RightResult'
    BY <2>1, <2>2, <2>5, <2>6 DEF Timely, Alone, Vacant, OneAck, RightResult, Delivered, Gains
  <2>8. Fresh(d)'
    <3>1. Fresh(d) /\ Len(down[d]) \in Nat
      BY <2>2, <2>5 DEF Timely, TypeOK
    <3>2. ASSUME NEW n \in 1 .. Len(down'[d])
          PROVE  /\ down'[d][n].model = job.model
                 /\ down'[d][n].type = "meta" => n = 1 /\ meta[d] = None
                 /\ down'[d][n].type = "chunk" => down'[d][n].index < nextChunk + 1
      <4>1. CASE n = Len(down[d]) + 1
        BY <2>1, <2>2, <2>3, <2>4, <4>1 DEF Gains
      <4>2. CASE n # Len(down[d]) + 1
        <5>1. n \in 1 .. Len(down[d]) /\ down'[d][n] = down[d][n]
          BY <2>1, <2>2, <3>1, <4>2 DEF Gains
        <5>2. down[d][n] \in Messages
          BY <5>1 DEF TypeOK
        <5>3. down[d][n].type = "chunk" => down[d][n].index \in Nat
          BY <1>0, <5>2 DEF Messages
        <5> QED BY <2>1, <3>1, <5>1, <5>3 DEF Fresh
      <4> QED BY <4>1, <4>2
    <3>3. Head(down'[d]) = IF down[d] = <<>> THEN c ELSE Head(down[d])
      BY <1>1, <2>1, <2>2, <2>3, GainHead DEF TypeOK
    <3>4. ASSUME meta[d] # None, NEW k \in Index, files[d][k] # None
          PROVE  /\ files[d][k] = job.model /\ k < nextChunk + 1
                 /\ Head(down'[d]).type = "chunk" => k < Head(down'[d]).index
      <4>1. files[d][k] = job.model /\ k < nextChunk /\ k \in Nat
        BY <1>0, <3>1, <3>4 DEF Fresh
      <4> QED BY <2>1, <2>4, <3>1, <3>3, <3>4, <4>1 DEF Fresh
    <3> QED BY <2>5, <3>1, <3>2, <3>4 DEF Fresh
  <2> QED BY <2>2, <2>5, <2>7, <2>8 DEF Timely
<1>7. CASE AllPublished \/ (WaitReturns /\ pc = "wait")
  <2>1. /\ Publishing /\ Publishing' /\ pc' \in {"wait", "read"} /\ (pc' = "read" => ackEvent)
        /\ UNCHANGED <<job, nextChunk, down, up, meta, files, signalling, ackEvent, ackData,
                       result, verified>>
    BY <1>7 DEF AllPublished, WaitReturns, Publishing
  <2>2. Alone' /\ RightResult' /\ OneAck'
    BY <2>1 DEF Timely, Alone, RightResult, OneAck, Vacant, Delivered, Completed
  <2>3. (Publishing => Fresh(job.device))'
    BY <2>1 DEF Timely, Fresh
  <2> QED BY <2>2, <2>3 DEF Timely
<1>8. CASE WaitTimesOut
  BY <1>8 DEF WaitTimesOut
<1>9. CASE ReadAck
  <2>1. ackEvent /\ Publishing /\ Completed /\ up[job.device] = <<>> /\ ~signalling
        /\ ackData # None
    BY <1>9 DEF ReadAck, Timely, OneAck, Publishing
  <2>2. Succeeded = TRUE /\ MissingChunks = {}
    BY <2>1 DEF Succeeded, MissingChunks, Stream, AcksSucceed
  <2>3. /\ pc' = "idle" /\ ~Publishing' /\ result' = TRUE
        /\ UNCHANGED <<job, down, up, meta, signalling, ackEvent, verified>>
    BY <1>9, <2>2 DEF ReadAck, Publishing
  <2>4. Alone'
    BY <2>1, <2>3 DEF Timely, Alone, Vacant, Completed
  <2>5. OneAck' /\ RightResult'
    BY <2>1, <2>3 DEF OneAck, RightResult, Completed, Delivered
  <2> QED BY <2>3, <2>4, <2>5 DEF Timely
<1>10. CASE RetryChunk \/ RetryClearEvent \/ RetryClearData \/ RetryReadAck
            \/ (WaitReturns /\ pc # "wait")
  BY <1>10 DEF RetryChunk, RetryClearEvent, RetryClearData, RetryReadAck, WaitReturns,
     Stream, NoRetry
<1>11. ASSUME NEW d \in Device, StoreAck(d) PROVE Timely'
  <2>1. up[d] # <<>> /\ ~signalling /\ up[d] \in Seq(Acks)
    BY <1>11 DEF StoreAck, TypeOK
  <2>2. Publishing /\ d = job.device /\ Fresh(d)
    BY <2>1, OnlyTheJob DEF Vacant
  <2>3. Completed /\ Len(up[d]) = 1 /\ ~ackEvent
    BY <2>1, <2>2 DEF Timely, OneAck
  <2>4. Tail(up[d]) = <<>>
    <3>1. Tail(up[d]) \in Seq(Acks) /\ Len(Tail(up[d])) = 0
      BY <2>1, <2>3, TailFacts
    <3> QED BY <3>1, EmptyFacts
  <2>5. /\ up'[d] = <<>> /\ \A e \in Device \ {d} : up'[e] = up[e]
        /\ signalling' /\ ackData' # None
        /\ UNCHANGED <<pc, job, nextChunk, down, meta, files, ackEvent, result, verified>>
    <3>1. ackData' # None
      BY <1>1, <1>11, AnswerAssumption DEF StoreAck, TypeOK
    <3> QED BY <1>11, <2>4, <3>1 DEF StoreAck, TypeOK
  <2>6. Alone' /\ RightResult' /\ OneAck'
    BY <2>2, <2>3, <2>5 DEF Timely, Alone, RightResult, OneAck, Vacant, Delivered, Completed,
       Publishing
  <2>7. (Publishing => Fresh(job.device))'
    BY <2>2, <2>5 DEF Fresh
  <2> QED BY <2>6, <2>7 DEF Timely
<1>12. CASE SignalAck
  <2>1. /\ signalling /\ ~signalling' /\ ackEvent'
        /\ UNCHANGED <<pc, job, nextChunk, down, up, meta, files, ackData, result, verified>>
    BY <1>12 DEF SignalAck
  <2>2. Publishing /\ Completed /\ up[job.device] = <<>> /\ ackData # None
    BY <2>1 DEF Timely, OneAck
  <2>3. Alone' /\ RightResult'
    BY <2>1 DEF Timely, Alone, RightResult, Vacant, Delivered, Publishing
  <2>4. OneAck'
    BY <2>1, <2>2 DEF OneAck, Completed, Delivered, Publishing
  <2>5. (Publishing => Fresh(job.device))'
    BY <2>1 DEF Timely, Fresh, Publishing
  <2> QED BY <2>3, <2>4, <2>5 DEF Timely
<1>13. ASSUME NEW d \in Device,
              RejectMeta(d) \/ RejectChunk(d) \/ IgnoreChunk(d) \/ DropUnwired(d)
       PROVE  Timely'
  <2>1. /\ down[d] # <<>> /\ down' = [down EXCEPT ![d] = Tail(@)]
        /\ UNCHANGED <<pc, job, nextChunk, result, ackData, ackEvent, signalling, up, meta,
                       files, verified>>
    BY <1>13 DEF RejectMeta, RejectChunk, IgnoreChunk, DropUnwired, Takes
  <2>2. Publishing /\ d = job.device /\ Fresh(d)
    BY <2>1, OnlyTheJob DEF Vacant
  <2>3. Fresh(d)' /\ \A e \in Device \ {d} : down'[e] = down[e]
    BY <2>1, <2>2, SkippedFresh, NextAtHead
  <2>4. ~Completed /\ up[d] = <<>>
    BY <2>1, <2>2 DEF Completed, Timely, OneAck
  <2> QED BY <2>1, <2>2, <2>3, <2>4, LocalTimely
<1>14. ASSUME NEW d \in Device, HandleMeta(d) PROVE Timely'
  <2>1. /\ down[d] # <<>> /\ down' = [down EXCEPT ![d] = Tail(@)]
        /\ meta'[d] = Head(down[d]).model /\ files'[d] = NoFiles
        /\ \A e \in Device \ {d} : meta'[e] = meta[e]
        /\ UNCHANGED <<pc, job, nextChunk, result, ackData, ackEvent, signalling, up, verified>>
    BY <1>14 DEF HandleMeta, Takes, TypeOK
  <2>2. Publishing /\ d = job.device /\ Fresh(d)
    BY <2>1, OnlyTheJob DEF Vacant
  <2>3. /\ Drops(d, 1) /\ Head(down[d]) = down[d][1] /\ 1 \in 1 .. Len(down[d])
        /\ \A e \in Device \ {d} : down'[e] = down[e]
    BY <2>1, TakeDrops, TailFacts DEF TypeOK, Drops
  <2>4. \A n \in 1 .. Len(down'[d]) :
           n + 1 \in 1 .. Len(down[d]) /\ n + 1 # 1 /\ down'[d][n] = down[d][n + 1]
    BY <2>3 DEF Drops
  <2>5. Fresh(d)'
    <3>1. \A n \in 1 .. Len(down'[d]) :
             /\ down'[d][n].model = job.model
             /\ down'[d][n].type # "meta"
             /\ down'[d][n].type = "chunk" => down'[d][n].index < nextChunk
      BY <2>2, <2>4 DEF Fresh
    <3>2. meta'[d] = job.model /\ \A k \in Index : files'[d][k] = None
      BY <2>1, <2>2, <2>3 DEF Fresh, NoFiles
    <3> QED BY <2>1, <3>1, <3>2 DEF Fresh
  <2>6. ~Completed /\ up[d] = <<>>
    BY <2>1, <2>2 DEF Completed, Timely, OneAck
  <2> QED BY <2>1, <2>2, <2>3, <2>5, <2>6, LocalTimely
<1>15. ASSUME NEW d \in Device, StoreChunk(d) PROVE Timely'
  <2>1. /\ down[d] # <<>> /\ down' = [down EXCEPT ![d] = Tail(@)]
        /\ Head(down[d]).type = "chunk" /\ meta[d] # None /\ files'[d] = Written(d)
        /\ UNCHANGED <<pc, job, nextChunk, result, ackData, ackEvent, signalling, up, verified,
                       meta>>
    BY <1>15 DEF StoreChunk, Takes, TypeOK
  <2>2. Publishing /\ d = job.device /\ Fresh(d)
    BY <2>1, OnlyTheJob DEF Vacant
  <2>3. /\ Head(down[d]).index \in ChunksOf(meta[d]) /\ meta[d] = job.model
        /\ meta[d] \in Model
        /\ Head(down[d]).index < nextChunk
        /\ \A k \in Index : Written(d)[k] # None =>
              Written(d)[k] = meta[d] /\ k <= Head(down[d]).index
    BY <2>1, <2>2, WrittenFresh DEF Stream
  <2>4. /\ Drops(d, 1) /\ \A e \in Device \ {d} : down'[e] = down[e]
        /\ down'[d] # <<>> => Follows(Head(down[d]), Head(down'[d]))
    BY <2>1, TakeDrops, NextAtHead
  <2>5. \A n \in 1 .. Len(down'[d]) :
           n + 1 \in 1 .. Len(down[d]) /\ n + 1 # 1 /\ down'[d][n] = down[d][n + 1]
    BY <2>4 DEF Drops
  <2>6. Fresh(d)'
    <3>1. \A n \in 1 .. Len(down'[d]) :
             /\ down'[d][n].model = job.model
             /\ down'[d][n].type # "meta"
             /\ down'[d][n].type = "chunk" => down'[d][n].index < nextChunk
      BY <2>2, <2>5 DEF Fresh
    <3>2. Head(down[d]).index \in Nat /\ nextChunk \in Nat
      BY <1>0, <2>3, IndexFacts DEF TypeOK
    <3>3. ASSUME NEW k \in Index, Written(d)[k] # None
          PROVE  /\ Written(d)[k] = job.model /\ k < nextChunk
                 /\ down'[d] # <<>> /\ Head(down'[d]).type = "chunk"
                      => k < Head(down'[d]).index
      <4>1. k \in Nat /\ k <= Head(down[d]).index /\ Written(d)[k] = job.model
        BY <1>0, <2>3, <3>3
      <4>2. k < nextChunk
        BY <2>3, <3>2, <4>1
      <4>3. down'[d] # <<>> /\ Head(down'[d]).type = "chunk"
              => Head(down'[d]).index = Head(down[d]).index + 1
        BY <2>1, <2>4 DEF Follows
      <4> QED BY <3>2, <4>1, <4>2, <4>3
    <3> QED BY <2>1, <2>3, <3>1, <3>3 DEF Fresh
  <2>7. ~Completed /\ up[d] = <<>>
    BY <2>1, <2>2 DEF Completed, Timely, OneAck
  <2> QED BY <2>1, <2>2, <2>4, <2>6, <2>7, LocalTimely
<1>16. ASSUME NEW d \in Device, AssembleSucceeds(d) PROVE Timely'
  <2>1. /\ down[d] # <<>> /\ down' = [down EXCEPT ![d] = Tail(@)]
        /\ Head(down[d]).type = "chunk" /\ meta[d] # None /\ Complete(d)
        /\ meta'[d] = None
        /\ \A e \in Device \ {d} : meta'[e] = meta[e] /\ up'[e] = up[e]
        /\ UNCHANGED <<pc, job, nextChunk, result, ackData, ackEvent, signalling>>
    BY <1>16 DEF AssembleSucceeds, SendAck, Takes, TypeOK
  <2>2. Publishing /\ d = job.device /\ Fresh(d)
    BY <2>1, OnlyTheJob DEF Vacant
  <2>3. /\ meta[d] = job.model /\ meta[d] \in Model
        /\ Head(down[d]).index + 1 = Chunks[meta[d]] /\ Chunks[meta[d]] \in Nat
        /\ Head(down[d]).model = meta[d]
    BY <2>1, <2>2, WrittenFresh, IndexFacts DEF Stream
  <2>4. /\ \A e \in Device \ {d} : down'[e] = down[e]
        /\ down'[d] # <<>> =>
              /\ 2 \in 1 .. Len(down[d]) /\ Head(down'[d]) = down[d][2]
              /\ Follows(Head(down[d]), Head(down'[d]))
              /\ Head(down'[d]).type = "chunk" =>
                    Head(down'[d]).index \in ChunksOf(Head(down'[d]).model)
        /\ down'[d] = <<>> /\ Publishing /\ job.device = d => Head(down[d]) = Latest
    BY <2>1, NextAtHead
  <2>5. down'[d] = <<>>
    <3> SUFFICES ASSUME down'[d] # <<>> PROVE FALSE
      OBVIOUS
    <3>1. Head(down'[d]).type # "meta"
      BY <2>2, <2>4 DEF Fresh
    <3>2. /\ Head(down'[d]).type = "chunk" /\ Head(down'[d]).index = Chunks[meta[d]]
          /\ Head(down'[d]).model = meta[d]
      BY <2>1, <2>3, <2>4, <3>1 DEF Follows
    <3> QED BY <2>3, <2>4, <3>2 DEF ChunksOf
  <2>6. nextChunk = Chunks[job.model]
    <3>1. Head(down[d]) = Latest /\ nextChunk \in Nat
      BY <2>2, <2>4, <2>5 DEF TypeOK
    <3> QED BY <2>1, <2>3, <3>1 DEF Latest, MetaMessage, ChunkMessage
  <2>7. verified[d] \subseteq verified'[d] /\ Delivered(d, job.model)'
    <3>1. PICK file : file = [model |-> meta[d],
                              parts |-> {Written(d)[k] : k \in ChunksOf(meta[d])}]
      OBVIOUS
    <3>2. verified' = [verified EXCEPT ![d] = @ \cup {file}] /\ file.model = job.model
      BY <1>16, <2>3, <3>1 DEF AssembleSucceeds
    <3>3. verified'[d] = verified[d] \cup {file}
      BY <3>2 DEF TypeOK
    <3> QED BY <2>1, <3>2, <3>3 DEF Delivered
  <2>8. Completed'
    BY <2>1, <2>2, <2>5, <2>6, <2>7 DEF Completed, Delivered
  <2>9. ~Completed /\ up[d] = <<>> /\ ~signalling /\ ~ackEvent
    BY <2>1, <2>2 DEF Completed, Timely, OneAck
  <2>10. Len(up'[d]) = 1
    <3>1. PICK ack : ack = [status |-> "success", missing |-> {},
                            filename |-> Filename[meta[d]]]
      OBVIOUS
    <3>2. ack \in Acks /\ up[d] \in Seq(Acks) /\ up'[d] = Append(up[d], ack)
      BY <1>16, <3>1 DEF AssembleSucceeds, SendAck, TypeOK, Acks
    <3>3. Len(up'[d]) = Len(up[d]) + 1 /\ Len(up[d]) = 0
      BY <2>9, <3>2, AppendFacts
    <3> QED BY <3>3
  <2>11. Fresh(d)'
    <3>1. 1 .. Len(down'[d]) = {}
      BY <2>5
    <3>2. \A n \in 1 .. Len(down'[d]) : FALSE
      BY <3>1
    <3> QED BY <2>1, <3>2 DEF Fresh
  <2> QED BY <2>1, <2>2, <2>4, <2>7, <2>8, <2>9, <2>10, <2>11, LocalTimely
<1>17. ASSUME NEW d \in Device, EdgeRestart(d) PROVE Timely'
  <2>1. /\ meta'[d] = None
        /\ \A e \in Device \ {d} : meta'[e] = meta[e] /\ up'[e] = up[e]
        /\ UNCHANGED <<pc, job, nextChunk, result, ackData, ackEvent, signalling, verified>>
    BY <1>17 DEF EdgeRestart, TypeOK
  <2>2. PICK i \in 0 .. Len(down[d]) : Drops(d, i)
    BY <1>17, RestartDrops
  <2>3. /\ \A e \in Device \ {d} : down'[e] = down[e]
        /\ down'[d] \in Seq(Messages) /\ Len(down'[d]) = Len(down[d]) - i
        /\ Len(down[d]) \in Nat
    BY <2>2 DEF Drops, TypeOK
  <2>4. down[d] = <<>> => down'[d] = <<>>
    BY <2>3
  <2>5. /\ up'[d] \in Seq(Acks) /\ Len(up'[d]) <= Len(up[d]) /\ Len(up[d]) \in Nat
    <3>1. PICK j \in 0 .. Len(up[d]) : up' = [up EXCEPT ![d] = SubSeq(@, 1, j)]
      BY <1>17 DEF EdgeRestart
    <3>2. up[d] \in Seq(Acks) /\ up'[d] = SubSeq(up[d], 1, j)
      BY <3>1 DEF TypeOK
    <3>3. Len(SubSeq(up[d], 1, j)) = j
      BY <3>2
    <3> QED BY <1>1, <3>2, <3>3 DEF TypeOK
  <2>6. up[d] = <<>> => up'[d] = <<>>
    BY <2>5
  <2>7. CASE Vacant(d)
    <3>1. Vacant(d)'
      BY <2>1, <2>4, <2>6, <2>7 DEF Vacant
    <3>2. Alone'
      BY <2>1, <2>3, <3>1 DEF Timely, Alone, Vacant, Publishing
    <3>3. ASSUME Publishing, d # job.device PROVE (Publishing => Fresh(job.device))'
      <4>1. job.device \in Device \ {d}
        BY <3>3 DEF Publishing, TypeOK, Jobs
      <4>2. files'[job.device] = files[job.device]
        BY <1>17, <4>1 DEF EdgeRestart, TypeOK
      <4> QED BY <2>1, <2>3, <3>3, <4>1, <4>2 DEF Timely, Fresh
    <3>4. ASSUME Publishing, d # job.device PROVE OneAck'
      <4>1. job.device \in Device \ {d}
        BY <3>4 DEF Publishing, TypeOK, Jobs
      <4> QED BY <2>1, <2>3, <3>4, <4>1
              DEF Timely, OneAck, Completed, Delivered, Publishing
    <3>5. ASSUME ~Publishing PROVE OneAck' /\ ~Publishing'
      BY <2>1, <3>5 DEF Timely, OneAck, Publishing
    <3>6. RightResult'
      BY <2>1 DEF Timely, RightResult, Delivered
    <3>7. ASSUME Publishing, d = job.device PROVE Fresh(d)' /\ OneAck'
      <4>1. Len(down'[d]) = 0
        BY <3>1 DEF Vacant
      <4>2. Fresh(d)'
        BY <2>1, <4>1 DEF Fresh
      <4>3. OneAck'
        BY <2>1, <3>1, <3>7 DEF Timely, OneAck, Completed, Vacant, Delivered, Publishing
      <4> QED BY <4>2, <4>3
    <3> QED BY <2>1, <3>2, <3>3, <3>4, <3>5, <3>6, <3>7 DEF Timely
  <2>8. CASE ~Vacant(d)
    <3>1. Publishing /\ d = job.device /\ Fresh(d)
      BY <2>8, OnlyTheJob
    <3>2. Fresh(d)'
      <4>1. \A n \in 1 .. Len(down'[d]) :
               n + i \in 1 .. Len(down[d]) /\ down'[d][n] = down[d][n + i]
        BY <2>2 DEF Drops
      <4>2. \A n \in 1 .. Len(down'[d]) : n + i = 1 => n = 1
        OBVIOUS
      <4>3. job' = job /\ nextChunk' = nextChunk /\ meta'[d] = None
        BY <2>1
      <4>4. ASSUME NEW n \in 1 .. Len(down'[d])
            PROVE  /\ down'[d][n].model = job.model
                   /\ down'[d][n].type = "meta" => n = 1
                   /\ down'[d][n].type = "chunk" => down'[d][n].index < nextChunk
        <5>1. PICK k \in 1 .. Len(down[d]) : k = n + i /\ down'[d][n] = down[d][k]
          BY <4>1
        <5>2. /\ down[d][k].model = job.model
              /\ down[d][k].type = "meta" => k = 1
              /\ down[d][k].type = "chunk" => down[d][k].index < nextChunk
          BY <3>1 DEF Fresh
        <5> QED BY <4>2, <5>1, <5>2
      <4> QED BY <4>3, <4>4 DEF Fresh
    <3>3. Completed => Completed'
      BY <2>1, <2>4, <3>1 DEF Completed, Delivered
    <3>4. up[d] # <<>> => Completed /\ Len(up[d]) = 1 /\ ~signalling /\ ~ackEvent
      BY <3>1 DEF Timely, OneAck
    <3>5. up'[d] # <<>> => Len(up'[d]) = 1
      <4>1. up'[d] # <<>> => Len(up'[d]) # 0
        BY <2>5, EmptyFacts
      <4>2. Len(up'[d]) \in Nat
        BY <2>5, EmptyFacts
      <4>3. up'[d] # <<>> => Len(up[d]) = 1
        BY <2>6, <3>4, Zenon
      <4>4. PICK a \in Nat, b \in Nat : a = Len(up'[d]) /\ b = Len(up[d]) /\ a <= b
        BY <2>5, <4>2
      <4>5. \A x, y \in Nat : x <= y /\ x # 0 /\ y = 1 => x = 1
        OBVIOUS
      <4> QED BY <4>1, <4>3, <4>4, <4>5, Zenon
    <3> QED BY <2>1, <2>3, <2>6, <3>1, <3>2, <3>3, <3>4, <3>5, LocalTimely
  <2> QED BY <2>7, <2>8
<1>18. ASSUME NEW d \in Device, AssembleFails(d) PROVE Timely'
  BY <1>18, NeverFailsInTime
<1> QED
  BY <1>2, <1>3, <1>4, <1>5, <1>6, <1>7, <1>8, <1>9, <1>10, <1>11, <1>12, <1>13, <1>14,
     <1>15, <1>16, <1>17, <1>18 DEF Next, DistributorStep, EdgeStep, HandleChunk

(* The invariant until the first timeout.                                  *)
InTime == ~timedOut => Stream /\ Timely

(* No call has been made yet.                                              *)
LEMMA InitInTime == Init => InTime
<1> SUFFICES ASSUME Init PROVE Stream /\ Timely
  BY DEF InTime
<1>1. Stream
  BY DEF Init, Stream, InOrder, ChunksExist, Counter, EndsWithLatest, AcksSucceed, NoRetry,
     Publishing
<1>2. Timely
  BY AnswerAssumption
     DEF Init, Timely, Alone, Vacant, OneAck, RightResult, Publishing
<1> QED BY <1>1, <1>2

(* A timeout is not forgotten.                                             *)
LEMMA StepInTime == TypeOK /\ InTime /\ [Next]_vars => InTime'
<1> SUFFICES ASSUME TypeOK, InTime, [Next]_vars, ~timedOut' PROVE Stream' /\ Timely'
  BY DEF InTime
<1> USE DEF distributorVars, ackVars, receiverVars, faultVars
<1>1. timedOut' = timedOut \/ timedOut' = TRUE
  BY DEF Next, DistributorStep, EdgeStep, HandleChunk, vars, Distribute, StartCall,
     ClearAckData, PublishMeta, PublishChunk, AllPublished, WaitReturns, WaitTimesOut,
     ReadAck, RetryChunk, RetryClearEvent, RetryClearData, RetryReadAck, SignalAck,
     StoreAck, HandleMeta, IgnoreChunk, StoreChunk, AssembleFails, AssembleSucceeds,
     OnModelReady, SetModelReceiver, DropUnwired, RejectMeta, RejectChunk, EdgeRestart
<1>2. Stream /\ Timely
  BY <1>1 DEF InTime
<1> QED BY <1>2, NeverFailsInTime, StepStream, StepTimely

(* Over any number of calls, whatever is damaged or restarted: as long as  *)
(* no wait of distribute_model has timed out, True means that this device  *)
(* has verified this model, and False is not returned.                     *)
THEOREM AnswersAreRight == Spec => []AnswerIsRight
<1>1. InTime => AnswerIsRight
  BY DEF InTime, Timely, RightResult, AnswerIsRight
<1> QED BY <1>1, InitType, StepType, InitInTime, StepInTime, PTL DEF Spec

(* _retry_chunks answers damage only together with an earlier timeout: a   *)
(* damaged chunk alone leaves the transfer incomplete and unanswered, and  *)
(* no receiver reports an error.                                           *)
RetryNeedsTimeout == ~timedOut => AcksSucceed /\ NoRetry

(* As long as every call was answered in time, no receiver reports an      *)
(* error and distribute_model does not enter _retry_chunks, however many   *)
(* messages are damaged and devices restarted.                             *)
THEOREM NoRetryInTime == Spec => []RetryNeedsTimeout
<1>1. InTime => RetryNeedsTimeout
  BY DEF InTime, Stream, RetryNeedsTimeout
<1> QED BY <1>1, InitType, StepType, InitInTime, StepInTime, PTL DEF Spec
=============================================================================
