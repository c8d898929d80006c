--------------------------- MODULE WeightTransfer ---------------------------
(***************************************************************************)
(* The bucketed transfer of model weights from a trainer process to the    *)
(* inference worker on the same device: BucketedWeightSender.send_weights  *)
(* and BucketedWeightReceiver.receive_weights of                           *)
(* vexact/integrations/verl/bucketed_weight_transfer.py.                   *)
(*                                                                         *)
(* The tensors travel through one buffer that the sender fills again and   *)
(* again.  Copies into it are asynchronous (non_blocking=True); a REQ/REP  *)
(* pair of sockets tells the receiver that a bucket is complete, and the   *)
(* sender that it has been copied out.  A byte is named by the tensor and  *)
(* the position it belongs to.  Names of tensors are distinct.             *)
(***************************************************************************)
EXTENDS Integers, Sequences, FiniteSets

CONSTANTS
  NumWeights,       \* how many tensors the generator yields
  Sizes,            \* the values weight.nbytes is taken from
  ItemSizes,        \* the values of the element size of weight.dtype
  BucketSize,       \* bucket_size
  SendMayRaise,     \* whether the generator of the weights may raise
  LoadMayRaise      \* whether on_bucket_received may raise

ASSUME TransferAssumption ==
  /\ NumWeights \in Nat
  /\ Sizes \subseteq Nat
  /\ ItemSizes \subseteq Nat \ {0}
  /\ BucketSize \in Nat \ {0}
  /\ SendMayRaise \in BOOLEAN
  /\ LoadMayRaise \in BOOLEAN

VARIABLES
  nbytes, itemsize,   \* of the tensors to send: the input of send_weights
  sender,             \* where send_weights is
  name,               \* the tensor its loop is at
  offset,
  bucket_meta,
  chunk_idx,
  copies,             \* copies into the buffer that are not done yet, in order
  buffer,
  request, reply,     \* the sockets: << >> or <<message>>, and a Boolean
  receiver,           \* where receive_weights is
  metadata,
  entry,              \* the item of metadata["bucket_meta"] its loop is at
  weights,
  chunk_data,         \* chunk_buffers[name]["data"]
  received,           \* chunk_buffers[name]["received"], {} when there is none
  loaded              \* what on_bucket_received has put into the model

input_vars == <<nbytes, itemsize>>

sender_vars == <<sender, name, offset, bucket_meta, chunk_idx>>

receiver_vars == <<receiver, metadata, entry, weights, chunk_data, received, loaded>>

vars == <<input_vars, sender_vars, copies, buffer, request, reply, receiver_vars>>

Names == 1 .. NumWeights

\* The byte of uninitialised memory.
Garbage == <<0, 0>>

Tensor(n) == [name |-> n, data |-> [i \in 0 .. (nbytes[n] - 1) |-> <<n, i>>]]

AllWeights == [n \in Names |-> Tensor(n)]

NoMessage == [bucket_meta |-> << >>, is_last |-> FALSE]

Init ==
  /\ nbytes \in [Names -> Sizes]
  /\ itemsize \in [Names -> ItemSizes]
  /\ \A n \in Names : nbytes[n] % itemsize[n] = 0
  /\ sender = "start"
  /\ name = 1
  /\ offset = 0
  /\ bucket_meta = << >>
  /\ chunk_idx = 0
  /\ copies = << >>
  /\ buffer = [p \in 0 .. (BucketSize - 1) |-> Garbage]
  /\ request = << >>
  /\ reply = FALSE
  /\ receiver = "start"
  /\ metadata = NoMessage
  /\ entry = 0
  /\ weights = << >>
  /\ chunk_data = [n \in Names |-> [i \in 0 .. (nbytes[n] - 1) |-> Garbage]]
  /\ received = [n \in Names |-> {}]
  /\ loaded = << >>

-----------------------------------------------------------------------------
(* The device: copies run in the order in which they were issued. *)

CopyDone ==
  /\ copies # << >>
  /\ LET c == Head(copies)
     IN  buffer' = [p \in DOMAIN buffer |->
                      IF p \in c.offset .. (c.offset + c.size - 1)
                      THEN <<c.name, c.start + (p - c.offset)>> ELSE buffer[p]]
  /\ copies' = Tail(copies)
  /\ UNCHANGED <<input_vars, sender_vars, request, reply, receiver_vars>>

copy_into_buffer(n, at, start, size) ==
  copies' = Append(copies, [name |-> n, offset |-> at, start |-> start, size |-> size])

\* synchronize() returns when every copy issued before it is done.
synchronized == copies = << >>

-----------------------------------------------------------------------------
(* The sender. *)

\* _init_buffer: the handle of the buffer is the first message.
SendHandle ==
  /\ sender = "start"
  /\ request' = <<NoMessage>>
  /\ sender' = "handle_sent"
  /\ UNCHANGED <<input_vars, name, offset, bucket_meta, chunk_idx, copies, buffer,
                 reply, receiver_vars>>

Looping == sender = "loop" /\ name \in Names

fits(n) == nbytes[n] <= BucketSize /\ offset + nbytes[n] <= BucketSize

\* Case 1, and case 2 once the current bucket has been sent.
PackTensor ==
  /\ Looping
  /\ nbytes[name] <= BucketSize
  /\ fits(name) \/ bucket_meta = << >>
  /\ bucket_meta' = Append(bucket_meta, [name |-> name, offset |-> offset])
  /\ copy_into_buffer(name, offset, 0, nbytes[name])
  /\ offset' = offset + nbytes[name]
  /\ name' = name + 1
  /\ UNCHANGED <<input_vars, sender, chunk_idx, buffer, request, reply, receiver_vars>>

\* Mutant: the bucket is announced while it is still being filled.
send_bucket_unsynchronized(is_last) ==
  request' = <<[bucket_meta |-> bucket_meta, is_last |-> is_last]>>

send_bucket(is_last) ==
  /\ synchronized
  /\ request' = <<[bucket_meta |-> bucket_meta, is_last |-> is_last]>>

\* Cases 2 and 3: the current bucket is sent before the tensor is looked at.
FlushBucket ==
  /\ Looping
  /\ ~fits(name)
  /\ bucket_meta # << >>
  /\ send_bucket(FALSE)
  /\ bucket_meta' = << >>
  /\ offset' = 0
  /\ sender' = "bucket_sent"
  /\ UNCHANGED <<input_vars, name, chunk_idx, copies, buffer, reply, receiver_vars>>

\* Mutant: the chunk that does not fill the buffer is forgotten.
num_chunks_floor(n) == nbytes[n] \div BucketSize

\* _send_chunked_tensor.
num_chunks(n) == (nbytes[n] + BucketSize - 1) \div BucketSize

chunk_start == chunk_idx * BucketSize

chunk_size ==
  IF chunk_start + BucketSize < nbytes[name] THEN BucketSize
  ELSE nbytes[name] - chunk_start

FillChunk ==
  /\ Looping
  /\ nbytes[name] > BucketSize
  /\ bucket_meta = << >>
  /\ copy_into_buffer(name, 0, chunk_start, chunk_size)
  /\ sender' = "chunk"
  /\ UNCHANGED <<input_vars, name, offset, bucket_meta, chunk_idx, buffer, request,
                 reply, receiver_vars>>

SendChunk ==
  /\ sender = "chunk"
  /\ synchronized
  /\ LET chunk_info == [chunk_idx |-> chunk_idx, num_chunks |-> num_chunks(name),
                        chunk_start |-> chunk_start, chunk_size |-> chunk_size]
     IN  request' = <<[bucket_meta |-> <<[name |-> name, offset |-> 0,
                                          chunk_info |-> chunk_info]>>,
                       is_last |-> FALSE]>>
  /\ sender' = "chunk_sent"
  /\ UNCHANGED <<input_vars, name, offset, bucket_meta, chunk_idx, copies, buffer,
                 reply, receiver_vars>>

\* The final bucket, which may be empty.
SendLast ==
  /\ sender = "loop"
  /\ name = NumWeights + 1
  /\ send_bucket(TRUE)
  /\ sender' = "last_sent"
  /\ UNCHANGED <<input_vars, name, offset, bucket_meta, chunk_idx, copies, buffer,
                 reply, receiver_vars>>

\* socket.recv(), after the handle or a bucket.
Acknowledged ==
  /\ sender \in {"handle_sent", "bucket_sent", "last_sent"}
  /\ reply
  /\ reply' = FALSE
  /\ sender' = IF sender = "last_sent" THEN "done" ELSE "loop"
  /\ UNCHANGED <<input_vars, name, offset, bucket_meta, chunk_idx, copies, buffer,
                 request, receiver_vars>>

ChunkAcknowledged ==
  /\ sender = "chunk_sent"
  /\ reply
  /\ reply' = FALSE
  /\ sender' = "loop"
  /\ IF chunk_idx + 1 < num_chunks(name)
     THEN chunk_idx' = chunk_idx + 1 /\ name' = name
     ELSE chunk_idx' = 0 /\ name' = name + 1
  /\ UNCHANGED <<input_vars, offset, bucket_meta, copies, buffer, request, receiver_vars>>

\* The generator raises: the sockets are closed and nothing tells the receiver.
SendRaises ==
  /\ SendMayRaise
  /\ Looping
  /\ chunk_idx = 0
  /\ sender' = "failed"
  /\ UNCHANGED <<input_vars, name, offset, bucket_meta, chunk_idx, copies, buffer,
                 request, reply, receiver_vars>>

Sender ==
  \/ SendHandle \/ PackTensor \/ FlushBucket \/ FillChunk \/ SendChunk \/ SendLast
  \/ Acknowledged \/ ChunkAcknowledged \/ SendRaises

-----------------------------------------------------------------------------
(* The receiver. *)

\* _init_buffer: the buffer is mapped and the sender told so.
ReceiveHandle ==
  /\ receiver = "start"
  /\ request # << >>
  /\ request' = << >>
  /\ reply' = TRUE
  /\ receiver' = "recv"
  /\ UNCHANGED <<input_vars, sender_vars, copies, buffer, metadata, entry, weights,
                 chunk_data, received, loaded>>

ReceiveBucket ==
  /\ receiver = "recv"
  /\ request # << >>
  /\ metadata' = Head(request)
  /\ request' = << >>
  /\ entry' = 1
  /\ weights' = << >>
  /\ receiver' = "copy"
  /\ UNCHANGED <<input_vars, sender_vars, copies, buffer, reply, chunk_data, received,
                 loaded>>

Copying == receiver = "copy" /\ entry \in DOMAIN metadata.bucket_meta

meta == metadata.bucket_meta[entry]

\* Viewing a slice of bytes as a wider dtype needs an offset that is a multiple
\* of its size.
misaligned == meta.offset % itemsize[meta.name] # 0

CopyTensor ==
  /\ Copying
  /\ "chunk_info" \notin DOMAIN meta
  /\ ~misaligned
  /\ weights' = Append(weights,
                       [name |-> meta.name,
                        data |-> [i \in 0 .. (nbytes[meta.name] - 1) |->
                                    buffer[meta.offset + i]]])
  /\ entry' = entry + 1
  /\ UNCHANGED <<input_vars, sender_vars, copies, buffer, request, reply, receiver,
                 metadata, chunk_data, received, loaded>>

ViewRaises ==
  /\ Copying
  /\ "chunk_info" \notin DOMAIN meta
  /\ misaligned
  /\ receiver' = "failed"
  /\ UNCHANGED <<input_vars, sender_vars, copies, buffer, request, reply, metadata,
                 entry, weights, chunk_data, received, loaded>>

\* chunk_buffers[name]["data"] with the chunk copied in.
chunk_copied(info) ==
  [i \in DOMAIN chunk_data[meta.name] |->
     IF i \in info.chunk_start .. (info.chunk_start + info.chunk_size - 1)
     THEN buffer[i - info.chunk_start] ELSE chunk_data[meta.name][i]]

\* Mutant: a chunked tensor is complete one chunk too early.
is_complete_early(info, got) == Cardinality(got) + 1 >= info.num_chunks

is_complete(info, got) == Cardinality(got) = info.num_chunks

CopyChunk ==
  /\ Copying
  /\ "chunk_info" \in DOMAIN meta
  /\ LET n    == meta.name
         info == meta.chunk_info
         got  == received[n] \cup {info.chunk_idx}
     IN  /\ chunk_data' = [chunk_data EXCEPT ![n] = chunk_copied(info)]
         /\ IF is_complete(info, got)
            THEN /\ weights' = Append(weights, [name |-> n, data |-> chunk_copied(info)])
                 /\ received' = [received EXCEPT ![n] = {}]
            ELSE /\ received' = [received EXCEPT ![n] = got]
                 /\ UNCHANGED weights
  /\ entry' = entry + 1
  /\ UNCHANGED <<input_vars, sender_vars, copies, buffer, request, reply, receiver,
                 metadata, loaded>>

Acknowledge ==
  /\ receiver = "copy"
  /\ entry = Len(metadata.bucket_meta) + 1
  /\ reply' = TRUE
  /\ receiver' = "load"
  /\ UNCHANGED <<input_vars, sender_vars, copies, buffer, request, metadata, entry,
                 weights, chunk_data, received, loaded>>

\* on_bucket_received(weights), then the test of is_last.
LoadBucket ==
  /\ receiver = "load"
  /\ loaded' = loaded \o weights
  /\ weights' = << >>
  /\ receiver' = IF metadata.is_last THEN "done" ELSE "recv"
  /\ UNCHANGED <<input_vars, sender_vars, copies, buffer, request, reply, metadata,
                 entry, chunk_data, received>>

\* The load stops at one of the tensors.
LoadRaises ==
  /\ LoadMayRaise
  /\ receiver = "load"
  /\ \E k \in DOMAIN weights : loaded' = loaded \o SubSeq(weights, 1, k - 1)
  /\ weights' = << >>
  /\ receiver' = "failed"
  /\ UNCHANGED <<input_vars, sender_vars, copies, buffer, request, reply, metadata,
                 entry, chunk_data, received>>

Receiver ==
  \/ ReceiveHandle \/ ReceiveBucket \/ CopyTensor \/ ViewRaises \/ CopyChunk
  \/ Acknowledge \/ LoadBucket \/ LoadRaises

-----------------------------------------------------------------------------

Next == CopyDone \/ Sender \/ Receiver

Spec == Init /\ [][Next]_vars

\* Both processes run and the device does its work.
FairSpec == Spec /\ WF_vars(CopyDone) /\ WF_vars(Sender) /\ WF_vars(Receiver)

-----------------------------------------------------------------------------
(* Properties. *)

\* The model is updated as WeightUpdate promises: although tensors are packed,
\* cut and copied through one reused buffer, a failure on either side included,
\* they are loaded in order, whole, with their own bytes, and receive_weights
\* returns only after the last.
Update == INSTANCE WeightUpdate WITH tensors  <- AllWeights,
                                     loaded   <- loaded,
                                     returned <- receiver = "done"

ImplementsWeightUpdate == Update!Spec

\* The buffer is not written from the moment a bucket is announced until the
\* receiver has copied it out and acknowledged it.
BufferStable ==
  [][request # << >> \/ receiver = "copy" => buffer' = buffer]_vars

\* The acknowledgement precedes the load, so when send_weights returns the model
\* may not be up to date; but by then the receiver has every byte in hand, and
\* the sender may release the buffer.
SentMeansReceived ==
  sender = "done" /\ receiver # "failed" =>
    loaded \o weights = AllWeights

\* Unless one side raises, the two loops come to an end and every tensor is
\* loaded: nobody is left waiting for a message or an acknowledgement.
DeliveredOrFailed ==
  <>(\/ sender = "failed" \/ receiver = "failed"
     \/ sender = "done" /\ receiver = "done" /\ loaded = AllWeights)

\* "Send weights to receiver": whatever tensors the generator yields, the
\* transfer ends with all of them loaded.
WeightsDelivered == <>(sender = "done" /\ receiver = "done" /\ loaded = AllWeights)

=============================================================================
