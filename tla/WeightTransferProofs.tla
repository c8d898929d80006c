------------------------ MODULE WeightTransferProofs ------------------------
(***************************************************************************)
(* Theorems about the weight transfer, for any number and size of tensors  *)
(* and any size of the buffer:                                             *)
(*                                                                         *)
(*   BufferIsStable    the one buffer the two processes share is never     *)
(*                     written while it is read;                           *)
(*   SentIsReceived    when send_weights returns, the receiver has every   *)
(*                     byte of every tensor;                               *)
(*   TransferRefines   the transfer implements WeightUpdate: the tensors   *)
(*                     are loaded in order, whole, and receive_weights     *)
(*                     returns only after the last.                        *)
(*                                                                         *)
(* All rest on one inductive invariant, Inv.  It follows a tensor from the *)
(* sender's loop (Filling) through the copies that are under way (Copies), *)
(* the message that announces it (Messages) and, for a large tensor, the   *)
(* receiver's chunk buffer (Chunking, Chunked) to the list of weights that *)
(* the receiver hands over (Delivered).                                    *)
(***************************************************************************)
EXTENDS WeightTransfer, SequenceTheorems, FiniteSetTheorems, TLAPS

\* The sender waits for an acknowledgement.
Waiting == {"handle_sent", "bucket_sent", "chunk_sent", "last_sent"}

(***************************************************************************)
(* The REQ/REP discipline: a message, a bucket being copied out and an     *)
(* acknowledgement exclude each other, each means that the sender waits,   *)
(* and a sender that waits has no copy outstanding.                        *)
(***************************************************************************)
Lockstep ==
  /\ request # << >> => receiver # "copy" /\ ~reply
  /\ receiver = "copy" => ~reply
  /\ request # << >> \/ receiver = "copy" \/ reply => sender \in Waiting
  /\ sender \in Waiting \cup {"start"} => copies = << >>

\* No process has spoken yet.
LEMMA LockstepInit == Init => Lockstep
BY DEF Init, Lockstep, Waiting

\* Every step of the sender, the receiver and the device keeps the discipline.
LEMMA LockstepNext == Lockstep /\ [Next]_vars => Lockstep'
<1> SUFFICES ASSUME Lockstep, [Next]_vars PROVE Lockstep'
  OBVIOUS
<1> USE DEF Lockstep, Waiting
<1>1. CASE CopyDone
  BY <1>1 DEF CopyDone, sender_vars, receiver_vars
<1>2. CASE SendHandle
  BY <1>2 DEF SendHandle, receiver_vars
<1>3. CASE PackTensor
  BY <1>3 DEF PackTensor, Looping, receiver_vars
<1>4. CASE FlushBucket
  BY <1>4 DEF FlushBucket, Looping, send_bucket, synchronized, receiver_vars
<1>5. CASE FillChunk
  BY <1>5 DEF FillChunk, Looping, receiver_vars
<1>6. CASE SendChunk
  BY <1>6 DEF SendChunk, synchronized, receiver_vars
<1>7. CASE SendLast
  BY <1>7 DEF SendLast, send_bucket, synchronized, receiver_vars
<1>8. CASE Acknowledged
  BY <1>8 DEF Acknowledged, receiver_vars
<1>9. CASE ChunkAcknowledged
  BY <1>9 DEF ChunkAcknowledged, receiver_vars
<1>10. CASE SendRaises
  BY <1>10 DEF SendRaises, Looping, receiver_vars
<1>11. CASE ReceiveHandle
  BY <1>11 DEF ReceiveHandle, sender_vars
<1>12. CASE ReceiveBucket
  BY <1>12 DEF ReceiveBucket, sender_vars
<1>13. CASE CopyTensor
  BY <1>13 DEF CopyTensor, Copying, sender_vars
<1>14. CASE ViewRaises
  BY <1>14 DEF ViewRaises, Copying, sender_vars
<1>15. CASE CopyChunk
  BY <1>15 DEF CopyChunk, Copying, sender_vars
<1>16. CASE Acknowledge
  BY <1>16 DEF Acknowledge, sender_vars
<1>17. CASE LoadBucket
  BY <1>17 DEF LoadBucket, sender_vars
<1>18. CASE LoadRaises
  BY <1>18 DEF LoadRaises, sender_vars
<1>19. CASE UNCHANGED vars
  BY <1>19 DEF vars, sender_vars, receiver_vars
<1> QED
  BY <1>1, <1>2, <1>3, <1>4, <1>5, <1>6, <1>7, <1>8, <1>9, <1>10,
     <1>11, <1>12, <1>13, <1>14, <1>15, <1>16, <1>17, <1>18, <1>19 DEF Next, Sender, Receiver

\* Announcing, copying out and acknowledging a bucket alternate for ever.
LEMMA AlwaysLockstep == Spec => []Lockstep
BY LockstepInit, LockstepNext, PTL DEF Spec

\* Only the device writes the buffer, and only while a copy is outstanding.
LEMMA BufferKept ==
  Lockstep /\ [Next]_vars
    => [request # << >> \/ receiver = "copy" => buffer' = buffer]_vars
<1> SUFFICES ASSUME Lockstep, Next, request # << >> \/ receiver = "copy"
             PROVE  buffer' = buffer
  BY DEF vars
<1>1. ~CopyDone
  BY DEF CopyDone, Lockstep
<1>2. CASE Sender
  BY <1>2 DEF Sender, SendHandle, PackTensor, FlushBucket, FillChunk, SendChunk,
     SendLast, Acknowledged, ChunkAcknowledged, SendRaises
<1>3. CASE Receiver
  BY <1>3 DEF Receiver, ReceiveHandle, ReceiveBucket, CopyTensor, ViewRaises,
     CopyChunk, Acknowledge, LoadBucket, LoadRaises
<1> QED
  BY <1>1, <1>2, <1>3 DEF Next

\* The buffer of the weight transfer is not written between the announcement of
\* a bucket and its acknowledgement, whatever is sent and whoever fails.
THEOREM BufferIsStable == Spec => BufferStable
BY AlwaysLockstep, BufferKept, PTL DEF Spec, BufferStable

-----------------------------------------------------------------------------
(* What the transfer has done at every moment. *)

\* The items of a bucket: a tensor and where it starts.
Entries == [name : Names, offset : 0 .. BucketSize]

\* The copies into the buffer that the device may be asked for.
CopyRecords == [name : Names, offset : Nat, start : Nat, size : Nat]

\* The tensors the receiver may hand over.
Whole == {Tensor(n) : n \in Names}

\* The sets the state lies in.
Types ==
  /\ nbytes \in [Names -> Nat]
  /\ sender \in Waiting \cup {"start", "loop", "chunk", "done", "failed"}
  /\ name \in 1 .. (NumWeights + 1)
  /\ offset \in 0 .. BucketSize
  /\ chunk_idx \in Nat
  /\ bucket_meta \in Seq(Entries)
  /\ copies \in Seq(CopyRecords)
  /\ buffer \in [0 .. (BucketSize - 1) -> Int \X Int]
  /\ reply \in BOOLEAN
  /\ receiver \in {"start", "recv", "copy", "load", "done", "failed"}

\* Which places of the two programs go together, and what holds there.
Control ==
  /\ receiver = "start" => /\ sender \in {"start", "handle_sent"}
                           /\ sender = "handle_sent" => request # << >>
  /\ sender = "start" => receiver = "start"
  /\ sender = "handle_sent" => receiver = "start" \/ (receiver = "recv" /\ reply)
  /\ sender \in {"start", "handle_sent"} =>
       name = 1 /\ bucket_meta = << >> /\ chunk_idx = 0
  /\ sender = "bucket_sent" => bucket_meta = << >>
  /\ sender \in {"last_sent", "done"} => name = NumWeights + 1
  /\ receiver \in {"start", "recv"} => weights = << >>
  /\ sender \in Waiting =>
       request # << >> \/ receiver \in {"copy", "failed"} \/ reply
  /\ metadata.is_last => sender = "done" \/ (sender = "last_sent" /\ request = << >>)
  /\ receiver = "done" => metadata.is_last

\* The first byte of the bucket behind the tensor e.
End(e) == e.offset + nbytes[e.name]

\* The bucket in the making holds the tensors before the one the loop is at,
\* in order, and none reaches into the next.
Filling ==
  /\ Len(bucket_meta) <= name - 1
  /\ bucket_meta = << >> => offset = 0
  /\ \A i \in 1 .. Len(bucket_meta) :
       /\ bucket_meta[i].name = name - 1 - Len(bucket_meta) + i
       /\ End(bucket_meta[i]) <= offset
       /\ \A j \in 1 .. Len(bucket_meta) :
            i < j => End(bucket_meta[i]) <= bucket_meta[j].offset

\* The copy that brings the tensor of item e into the buffer.
CopyOf(e) == [name |-> e.name, offset |-> e.offset, start |-> 0, size |-> nbytes[e.name]]

\* The copy that brings the current chunk into the buffer.
chunk_copy == [name |-> name, offset |-> 0, start |-> chunk_start, size |-> chunk_size]

\* The bytes of the tensor of item e are in the buffer.
InBuffer(e) ==
  \A i \in 0 .. (nbytes[e.name] - 1) : buffer[e.offset + i] = <<e.name, i>>

\* The bytes of the current chunk are in the buffer.
ChunkInBuffer ==
  \A i \in 0 .. (chunk_size - 1) : buffer[i] = <<name, chunk_start + i>>

\* What has not reached the buffer yet is on its way, and nothing else is.
Copies ==
  /\ sender # "chunk" =>
       /\ Len(copies) <= Len(bucket_meta)
       /\ \A j \in 1 .. Len(copies) :
            copies[j] = CopyOf(bucket_meta[Len(bucket_meta) - Len(copies) + j])
       /\ \A i \in 1 .. (Len(bucket_meta) - Len(copies)) : InBuffer(bucket_meta[i])
  /\ sender = "chunk" =>
       \/ copies = << >> /\ ChunkInBuffer
       \/ copies = <<chunk_copy>>

\* Message m announces the tensors before the one the loop is at.
BucketMessage(m) ==
  /\ m.bucket_meta \in Seq(Entries)
  /\ Len(m.bucket_meta) <= name - 1
  /\ \A i \in 1 .. Len(m.bucket_meta) :
       /\ m.bucket_meta[i].name = name - 1 - Len(m.bucket_meta) + i
       /\ InBuffer(m.bucket_meta[i])

\* The item that announces the current chunk.
chunk_meta ==
  [name |-> name, offset |-> 0,
   chunk_info |-> [chunk_idx |-> chunk_idx, num_chunks |-> num_chunks(name),
                   chunk_start |-> chunk_start, chunk_size |-> chunk_size]]

\* Message m announces the current chunk.
ChunkMessage(m) == m.bucket_meta = <<chunk_meta>> /\ ChunkInBuffer

\* Message m says what the buffer holds.
MessageOK(m) ==
  /\ sender \in {"bucket_sent", "last_sent"} => BucketMessage(m)
  /\ sender = "chunk_sent" => ChunkMessage(m)
  /\ m.is_last => sender = "last_sent"

\* This is true of the message on the socket and, until it is acknowledged, of
\* the one the receiver works on.
Messages ==
  /\ request # << >> => MessageOK(Head(request))
  /\ sender \in Waiting \ {"handle_sent"} /\ request = << >> /\ receiver # "failed" =>
       /\ MessageOK(metadata)
       /\ entry \in 1 .. (Len(metadata.bucket_meta) + 1)
       /\ reply => entry = Len(metadata.bucket_meta) + 1

\* The number of chunks of the current tensor that the receiver has copied out.
progress ==
  IF sender = "chunk_sent" /\ request = << >> /\ entry = 2 THEN chunk_idx + 1
  ELSE chunk_idx

\* A tensor is cut only when it is larger than the buffer and no bucket is open.
Chunking ==
  /\ chunk_idx > 0 => sender \in {"loop", "chunk", "chunk_sent"}
  /\ sender \in {"chunk", "chunk_sent"} \/ chunk_idx > 0 =>
       /\ name \in Names
       /\ nbytes[name] > BucketSize
       /\ bucket_meta = << >>
       /\ chunk_idx < num_chunks(name)

\* The receiver has the chunks before progress, of the current tensor alone, and
\* the bytes they stand for.
Chunked ==
  receiver # "failed" =>
    /\ received = [n \in Names |-> IF n = name /\ progress < num_chunks(n)
                                   THEN 0 .. (progress - 1) ELSE {}]
    /\ chunk_data = [n \in Names |-> [i \in 0 .. (nbytes[n] - 1) |-> chunk_data[n][i]]]
    /\ name \in Names => \A i \in 0 .. (nbytes[name] - 1) :
         i < progress * BucketSize => chunk_data[name][i] = <<name, i>>

\* The number of tensors that the receiver must have by now.
expected ==
  IF sender \in {"bucket_sent", "last_sent"}
  THEN IF request # << >> THEN name - 1 - Len(Head(request).bucket_meta)
       ELSE name - 1 - Len(metadata.bucket_meta) + (entry - 1)
  ELSE IF sender = "chunk_sent" THEN IF progress = num_chunks(name) THEN name ELSE name - 1
  ELSE IF sender = "done" THEN name - 1
  ELSE name - 1 - Len(bucket_meta)

\* The receiver has a prefix of the tensors, partly in the model and partly in
\* hand, and unless it failed it has as many as it should.
Delivered ==
  /\ loaded \in Seq(Whole)
  /\ weights \in Seq(Whole)
  /\ Len(loaded) + Len(weights) <= NumWeights
  /\ loaded \o weights = SubSeq(AllWeights, 1, Len(loaded) + Len(weights))
  /\ receiver # "failed" => Len(loaded) + Len(weights) = expected

\* The inductive invariant.
Inv == /\ Types /\ Lockstep /\ Control /\ Filling /\ Copies /\ Messages
       /\ Chunking /\ Chunked /\ Delivered

-----------------------------------------------------------------------------
(* The inputs, and how many chunks a tensor is cut into. *)

\* No step changes the sizes of the tensors.
LEMMA InputsKept == [Next]_vars => nbytes' = nbytes
BY DEF vars, input_vars, Next, CopyDone, Sender, SendHandle, PackTensor, FlushBucket,
   FillChunk, SendChunk, SendLast, Acknowledged, ChunkAcknowledged, SendRaises, Receiver,
   ReceiveHandle, ReceiveBucket, CopyTensor, ViewRaises, CopyChunk, Acknowledge,
   LoadBucket, LoadRaises

\* No step changes the tensors to send.
LEMMA DataKept == [Next]_vars => AllWeights' = AllWeights /\ Whole' = Whole
BY InputsKept DEF AllWeights, Whole, Tensor

\* The constants as the provers need them.
LEMMA NamesTyped ==
  /\ \A n \in Names : n \in Nat /\ n \in Int
  /\ NumWeights \in Nat
  /\ BucketSize \in Nat /\ BucketSize > 0
BY TransferAssumption DEF Names

\* The quotient of an integer division, bounded by a product from both sides.
LEMMA Division ==
  ASSUME NEW x \in Int, NEW d \in Nat \ {0}
  PROVE  /\ x \div d \in Int
         /\ (x \div d) * d <= x
         /\ x < (x \div d) * d + d
<1>1. /\ d \in Nat /\ d > 0
      /\ x \div d \in Int /\ x % d \in 0 .. (d - 1)
  OBVIOUS
<1>2. x = d * (x \div d) + (x % d)
  BY <1>1
<1> DEFINE q == x \div d
           r == x % d
<1>3. q \in Int /\ r \in Int /\ 0 <= r /\ r < d /\ x = d * q + r
  BY <1>1, <1>2
<1> HIDE DEF q, r
<1>4. q * d <= x /\ x < q * d + d
  BY <1>1, <1>3
<1> QED BY <1>3, <1>4 DEF q

\* Chunk k exists exactly when it starts inside the tensor: num_chunks rounds up.
LEMMA NumChunks ==
  ASSUME NEW n \in Names, nbytes[n] \in Nat
  PROVE  /\ num_chunks(n) \in Nat
         /\ \A k \in Nat : k < num_chunks(n) <=> k * BucketSize < nbytes[n]
<1> DEFINE b == nbytes[n]
           q == (b + BucketSize - 1) \div BucketSize
<1>1. BucketSize \in Nat /\ BucketSize > 0 /\ b \in Nat
  BY TransferAssumption
<1>2. q \in Int /\ q * BucketSize <= b + BucketSize - 1
      /\ b + BucketSize - 1 < q * BucketSize + BucketSize
  <2> DEFINE x == b + BucketSize - 1
  <2>1. x \in Int /\ BucketSize \in Nat \ {0}
    BY <1>1
  <2> HIDE DEF x
  <2>2. x \div BucketSize \in Int /\ (x \div BucketSize) * BucketSize <= x
        /\ x < (x \div BucketSize) * BucketSize + BucketSize
    BY <2>1, Division
  <2> QED BY <2>2 DEF x
<1>3. q \in Nat
  BY <1>1, <1>2
<1>4. num_chunks(n) = q
  BY DEF num_chunks
<1> HIDE DEF b, q
<1>5. ASSUME NEW k \in Nat PROVE k < q <=> k * BucketSize < b
  <2>1. CASE k < q
    <3>1. (k + 1) * BucketSize <= q * BucketSize
      BY <1>1, <1>3, <2>1
    <3> QED BY <1>1, <1>2, <1>3, <2>1, <3>1
  <2>2. CASE ~(k < q)
    <3>1. q * BucketSize <= k * BucketSize
      BY <1>1, <1>3, <2>2
    <3> QED BY <1>1, <1>2, <1>3, <2>2, <3>1
  <2> QED BY <2>1, <2>2
<1> QED BY <1>3, <1>4, <1>5 DEF b

-----------------------------------------------------------------------------
(* The invariant is inductive, part by part. *)

\* A tensor that is packed fits behind the ones before it.
LEMMA PackedFits ==
  ASSUME Inv, PackTensor
  PROVE  /\ name \in Names /\ nbytes[name] \in Nat
         /\ offset + nbytes[name] <= BucketSize
         /\ bucket_meta \in Seq(Entries)
         /\ [name |-> name, offset |-> offset] \in Entries
         /\ chunk_idx = 0
<1>1. name \in Names /\ nbytes[name] \in Nat /\ offset \in 0 .. BucketSize
  BY DEF Inv, Types, PackTensor, Looping
<1>2. offset + nbytes[name] <= BucketSize
  BY <1>1, NamesTyped DEF Inv, Filling, PackTensor, fits
<1>3. chunk_idx = 0
  BY <1>1, NamesTyped DEF Inv, Types, Chunking, PackTensor
<1> QED BY <1>1, <1>2, <1>3 DEF Inv, Types, Entries

\* A chunk lies inside its tensor and inside the buffer.
LEMMA ChunkFits ==
  ASSUME Types, name \in Names, chunk_idx < num_chunks(name)
  PROVE  /\ chunk_start \in Nat /\ chunk_size \in Nat
         /\ chunk_size <= BucketSize
         /\ chunk_start + chunk_size <= nbytes[name]
         /\ chunk_start + chunk_size = nbytes[name] \/ chunk_size = BucketSize
         /\ chunk_start = chunk_idx * BucketSize
<1>1. nbytes[name] \in Nat /\ chunk_idx \in Nat
  BY DEF Types
<1>2. chunk_idx * BucketSize < nbytes[name]
  BY <1>1, NumChunks
<1>3. chunk_idx * BucketSize \in Nat
  BY <1>1, NamesTyped
<1> DEFINE s == chunk_idx * BucketSize
<1> HIDE DEF s
<1>4. chunk_start = s
  BY DEF chunk_start, s
<1> QED BY <1>1, <1>2, <1>3, <1>4, NamesTyped DEF chunk_size, s

\* Every step keeps the state in its sets.
LEMMA TypesStep == Inv /\ [Next]_vars => Types'
<1> SUFFICES ASSUME Inv, [Next]_vars PROVE Types'
  OBVIOUS
<1>0. Types
  BY DEF Inv
<1> USE DEF Types, vars, input_vars, sender_vars, receiver_vars, Waiting
<1>1. CASE CopyDone
  <2>1. Head(copies) \in CopyRecords /\ Tail(copies) \in Seq(CopyRecords)
    BY <1>0, <1>1, HeadTailProperties DEF CopyDone
  <2>2. buffer' \in [0 .. (BucketSize - 1) -> Int \X Int]
    <3> DEFINE c == Head(copies)
               new(p) == IF p \in c.offset .. (c.offset + c.size - 1)
                         THEN <<c.name, c.start + (p - c.offset)>> ELSE buffer[p]
    <3>1. buffer' = [p \in 0 .. (BucketSize - 1) |-> new(p)]
      BY <1>0, <1>1 DEF CopyDone
    <3>2. c.name \in Int /\ c.offset \in Int /\ c.start \in Int /\ c.size \in Int
      <4>1. c.name \in Names /\ c.offset \in Nat /\ c.start \in Nat /\ c.size \in Nat
        BY <2>1 DEF CopyRecords
      <4> QED BY <4>1, NamesTyped
    <3> HIDE DEF c
    <3>3. ASSUME NEW p \in 0 .. (BucketSize - 1) PROVE new(p) \in Int \X Int
      <4>1. c.start + (p - c.offset) \in Int
        BY <3>2, NamesTyped
      <4>2. buffer[p] \in Int \X Int
        BY <1>0
      <4> QED BY <3>2, <4>1, <4>2
    <3> HIDE DEF new
    <3> QED BY <3>1, <3>3
  <2> QED BY <1>0, <1>1, <2>1, <2>2 DEF CopyDone
<1>2. CASE SendHandle
  BY <1>0, <1>2 DEF SendHandle
<1>3. CASE PackTensor
  <2>1. offset' \in 0 .. BucketSize /\ name' \in 1 .. (NumWeights + 1)
        /\ bucket_meta' \in Seq(Entries)
    BY <1>0, <1>3, PackedFits, NamesTyped DEF PackTensor, Names
  <2>2. copies' \in Seq(CopyRecords)
    BY <1>0, <1>3, PackedFits, NamesTyped DEF PackTensor, copy_into_buffer, CopyRecords
  <2>3. Entries' = Entries
    BY DEF Entries
  <2> QED BY <1>0, <1>3, <2>1, <2>2, <2>3 DEF PackTensor, Looping
<1>4. CASE FlushBucket
  BY <1>0, <1>4, NamesTyped DEF FlushBucket
<1>5. CASE FillChunk
  <2>1. name \in Names /\ chunk_idx < num_chunks(name)
    <3>1. name \in Names /\ nbytes[name] > BucketSize
      BY <1>5 DEF FillChunk, Looping
    <3>2. 0 * BucketSize < nbytes[name] /\ nbytes[name] \in Nat
      BY <1>0, <3>1, NamesTyped
    <3>3. 0 < num_chunks(name)
      BY <3>1, <3>2, NumChunks
    <3> QED BY <1>0, <3>1, <3>3 DEF Inv, Chunking
  <2>2. copies' \in Seq(CopyRecords)
    BY <1>0, <1>5, <2>1, ChunkFits DEF FillChunk, copy_into_buffer, CopyRecords
  <2> QED BY <1>0, <1>5, <2>2 DEF FillChunk
<1>6. CASE SendChunk
  BY <1>0, <1>6 DEF SendChunk
<1>7. CASE SendLast
  BY <1>0, <1>7 DEF SendLast
<1>8. CASE Acknowledged
  BY <1>0, <1>8 DEF Acknowledged
<1>9. CASE ChunkAcknowledged
  <2>1. name \in Names
    BY <1>9 DEF Inv, Chunking, ChunkAcknowledged
  <2>2. name' \in 1 .. (NumWeights + 1) /\ chunk_idx' \in Nat
    BY <1>0, <1>9, <2>1, NamesTyped DEF ChunkAcknowledged, Names
  <2> QED BY <1>0, <1>9, <2>2 DEF ChunkAcknowledged
<1>10. CASE SendRaises
  BY <1>0, <1>10 DEF SendRaises
<1>11. CASE Receiver
  BY <1>0, <1>11 DEF Receiver, ReceiveHandle, ReceiveBucket, CopyTensor, ViewRaises,
     CopyChunk, Acknowledge, LoadBucket, LoadRaises
<1>12. CASE UNCHANGED vars
  BY <1>0, <1>12
<1> QED
  BY <1>1, <1>2, <1>3, <1>4, <1>5, <1>6, <1>7, <1>8, <1>9, <1>10, <1>11, <1>12
  DEF Next, Sender

\* Every step keeps the two programs at places that go together.
LEMMA ControlStep == Inv /\ [Next]_vars => Control'
<1> SUFFICES ASSUME Inv, [Next]_vars PROVE Control'
  OBVIOUS
<1>0. Control /\ Lockstep /\ Types
  BY DEF Inv
<1> USE DEF Control, Lockstep, Waiting, vars, input_vars, sender_vars, receiver_vars
<1>1. CASE CopyDone
  BY <1>0, <1>1 DEF CopyDone
<1>2. CASE SendHandle \/ PackTensor \/ FlushBucket \/ FillChunk
  BY <1>0, <1>2 DEF SendHandle, PackTensor, FlushBucket, FillChunk, Looping, send_bucket
<1>6. CASE SendChunk \/ SendLast \/ Acknowledged \/ ChunkAcknowledged \/ SendRaises
  BY <1>0, <1>6 DEF SendChunk, SendLast, Acknowledged, ChunkAcknowledged, SendRaises, Looping,
     send_bucket
<1>3. CASE ReceiveBucket
  <2>1. MessageOK(Head(request))
    BY <1>3 DEF Inv, Messages, ReceiveBucket
  <2>2. metadata'.is_last => sender = "last_sent"
    <3>1. metadata' = Head(request)
      BY <1>3 DEF ReceiveBucket
    <3> QED BY <2>1, <3>1, Zenon DEF MessageOK
  <2> QED BY <1>0, <1>3, <2>2 DEF ReceiveBucket
<1>4. CASE ReceiveHandle \/ CopyTensor \/ ViewRaises \/ CopyChunk \/ Acknowledge
           \/ LoadBucket \/ LoadRaises
  BY <1>0, <1>4 DEF ReceiveHandle, CopyTensor, ViewRaises, CopyChunk, Acknowledge,
     LoadBucket, LoadRaises, Copying
<1>5. CASE UNCHANGED vars
  BY <1>0, <1>5
<1> QED
  BY <1>1, <1>2, <1>3, <1>4, <1>5, <1>6 DEF Next, Sender, Receiver

\* Every step keeps the bucket in the making in order and without overlap.
LEMMA FillingStep == Inv /\ [Next]_vars => Filling'
<1> SUFFICES ASSUME Inv, [Next]_vars PROVE Filling'
  OBVIOUS
<1>0. Filling /\ Types /\ nbytes' = nbytes /\ NumWeights \in Nat /\ BucketSize \in Nat
  BY InputsKept, NamesTyped DEF Inv
<1> USE DEF Filling, End, vars, input_vars, sender_vars, receiver_vars
<1>1. CASE PackTensor
  <2> DEFINE e == [name |-> name, offset |-> offset]
             n == Len(bucket_meta)
  <2>1. /\ bucket_meta \in Seq(Entries) /\ e \in Entries /\ n \in Nat
        /\ bucket_meta' = Append(bucket_meta, e)
        /\ name \in Nat /\ offset \in Nat /\ nbytes[name] \in Nat
        /\ name' = name + 1 /\ offset' = offset + nbytes[name]
    BY <1>0, <1>1, PackedFits, NamesTyped DEF PackTensor, Types
  <2>2. /\ Len(bucket_meta') = n + 1
        /\ \A i \in 1 .. n : bucket_meta'[i] = bucket_meta[i]
        /\ bucket_meta'[n + 1] = e
        /\ bucket_meta' # << >>
    BY <2>1, AppendProperties
  <2>3. \A i \in 1 .. n : /\ bucket_meta[i].name \in Names
                          /\ bucket_meta[i].offset \in Nat
                          /\ nbytes[bucket_meta[i].name] \in Nat
    <3> SUFFICES ASSUME NEW i \in 1 .. n
                 PROVE  /\ bucket_meta[i].name \in Names
                        /\ bucket_meta[i].offset \in Nat
                        /\ nbytes[bucket_meta[i].name] \in Nat
      OBVIOUS
    <3>1. bucket_meta[i] \in Entries
      BY <2>1, ElementOfSeq
    <3>2. bucket_meta[i].name \in Names /\ bucket_meta[i].offset \in 0 .. BucketSize
      BY <3>1 DEF Entries
    <3> QED BY <1>0, <3>2, NamesTyped DEF Types
  <2> HIDE DEF e, n
  <2>4. \A i \in 1 .. n + 1 : i \in 1 .. n \/ i = n + 1
    BY <2>1
  <2>5. e.name = name /\ e.offset = offset
    BY DEF e
  <2>6. n <= name - 1 /\ \A i \in 1 .. n :
          /\ bucket_meta[i].name = name - 1 - n + i
          /\ bucket_meta[i].offset + nbytes[bucket_meta[i].name] <= offset
          /\ \A j \in 1 .. n : i < j =>
               bucket_meta[i].offset + nbytes[bucket_meta[i].name] <= bucket_meta[j].offset
    BY <1>0 DEF n
  <2>7. ASSUME NEW i \in 1 .. n + 1
        PROVE  /\ bucket_meta'[i].name = name - 1 - n + i
               /\ bucket_meta'[i].offset + nbytes[bucket_meta'[i].name] <= offset + nbytes[name]
               /\ \A j \in 1 .. n + 1 : i < j =>
                    bucket_meta'[i].offset + nbytes[bucket_meta'[i].name] <= bucket_meta'[j].offset
    <3>1. CASE i \in 1 .. n
      <4>1. bucket_meta'[i] = bucket_meta[i]
        BY <2>2, <3>1
      <4>2. \A j \in 1 .. n + 1 : i < j =>
              bucket_meta[i].offset + nbytes[bucket_meta[i].name] <= bucket_meta'[j].offset
        <5> SUFFICES ASSUME NEW j \in 1 .. n + 1, i < j
                     PROVE  bucket_meta[i].offset + nbytes[bucket_meta[i].name]
                              <= bucket_meta'[j].offset
          OBVIOUS
        <5>1. CASE j \in 1 .. n
          BY <2>2, <2>6, <3>1, <5>1
        <5>2. CASE j = n + 1
          BY <2>2, <2>5, <2>6, <3>1, <5>2
        <5> QED BY <2>4, <5>1, <5>2
      <4>3. /\ bucket_meta[i].offset \in Nat /\ nbytes[bucket_meta[i].name] \in Nat
            /\ bucket_meta[i].name = name - 1 - n + i
            /\ bucket_meta[i].offset + nbytes[bucket_meta[i].name] <= offset
        BY <2>3, <2>6, <3>1
      <4>4. bucket_meta'[i].offset + nbytes[bucket_meta'[i].name] <= offset + nbytes[name]
        <5>1. bucket_meta[i].offset + nbytes[bucket_meta[i].name] <= offset + nbytes[name]
          BY <2>1, <4>3
        <5> QED BY <4>1, <5>1
      <4> QED BY <4>1, <4>2, <4>3, <4>4
    <3>2. CASE i = n + 1
      <4>1. bucket_meta'[i].name = name /\ bucket_meta'[i].offset = offset
        BY <2>2, <2>5, <3>2
      <4>2. name = name - 1 - n + i
        BY <2>1, <3>2
      <4>3. \A j \in 1 .. n + 1 : ~(i < j)
        BY <2>1, <3>2
      <4>4. offset + nbytes[name] <= offset + nbytes[name]
        BY <2>1
      <4>5. bucket_meta'[i].offset + nbytes[bucket_meta'[i].name] <= offset + nbytes[name]
        BY <4>1, <4>4
      <4> QED BY <4>1, <4>2, <4>3, <4>5
    <3> QED BY <2>4, <3>1, <3>2
  <2>8. Len(bucket_meta') <= name' - 1 /\ \A i \in 1 .. n + 1 :
          name - 1 - n + i = name' - 1 - Len(bucket_meta') + i
    BY <2>1, <2>2, <2>6
  <2> QED BY <1>0, <2>1, <2>2, <2>7, <2>8
<1>2. CASE ChunkAcknowledged
  BY <1>0, <1>2 DEF ChunkAcknowledged, Inv, Chunking, Types
<1>3. CASE FlushBucket
  BY <1>0, <1>3 DEF FlushBucket, Types
<1>5. CASE SendHandle \/ FillChunk \/ SendChunk \/ SendLast \/ Acknowledged \/ SendRaises
  BY <1>0, <1>5 DEF SendHandle, FillChunk, SendChunk, SendLast, Acknowledged, SendRaises
<1>4. CASE CopyDone \/ Receiver \/ UNCHANGED vars
  BY <1>0, <1>4 DEF CopyDone, Receiver, ReceiveHandle, ReceiveBucket, CopyTensor, ViewRaises,
     CopyChunk, Acknowledge, LoadBucket, LoadRaises
<1> QED
  BY <1>1, <1>2, <1>3, <1>4, <1>5 DEF Next, Sender

\* What the items of the bucket in the making say of themselves.
LEMMA EntryFits ==
  ASSUME Types, Filling, NEW i \in 1 .. Len(bucket_meta)
  PROVE  /\ bucket_meta[i] \in Entries
         /\ bucket_meta[i].name \in Names
         /\ bucket_meta[i].offset \in Nat
         /\ nbytes[bucket_meta[i].name] \in Nat
         /\ bucket_meta[i].offset + nbytes[bucket_meta[i].name] <= BucketSize
         /\ \A j \in 1 .. Len(bucket_meta) : i < j =>
              bucket_meta[i].offset + nbytes[bucket_meta[i].name] <= bucket_meta[j].offset
<1>1. bucket_meta[i] \in Entries
  BY ElementOfSeq DEF Types
<1>2. bucket_meta[i].name \in Names /\ bucket_meta[i].offset \in 0 .. BucketSize
  BY <1>1 DEF Entries
<1>3. nbytes[bucket_meta[i].name] \in Nat
  BY <1>2 DEF Types
<1>4. bucket_meta[i].offset + nbytes[bucket_meta[i].name] <= offset
      /\ offset \in Nat /\ offset <= BucketSize
  BY NamesTyped DEF Filling, End, Types
<1>5. \A j \in 1 .. Len(bucket_meta) : i < j =>
        bucket_meta[i].offset + nbytes[bucket_meta[i].name] <= bucket_meta[j].offset
  BY DEF Filling, End
<1> QED BY <1>1, <1>2, <1>3, <1>4, <1>5, NamesTyped

\* What one finished copy leaves in the buffer.
LEMMA BufferAfterCopy ==
  ASSUME Types, CopyDone, NEW c, c = Head(copies),
         c.offset \in Nat, c.size \in Nat, c.start \in Nat, c.offset + c.size <= BucketSize
  PROVE  /\ \A i \in 0 .. (c.size - 1) : buffer'[c.offset + i] = <<c.name, c.start + i>>
         /\ \A p \in 0 .. (BucketSize - 1) :
              p < c.offset => buffer'[p] = buffer[p]
<1>1. \A p \in 0 .. (BucketSize - 1) : buffer'[p] =
        IF p \in c.offset .. (c.offset + c.size - 1)
        THEN <<c.name, c.start + (p - c.offset)>> ELSE buffer[p]
  BY DEF Types, CopyDone
<1>2. ASSUME NEW i \in 0 .. (c.size - 1)
      PROVE  buffer'[c.offset + i] = <<c.name, c.start + i>>
  <2>1. c.offset + i \in 0 .. (BucketSize - 1)
        /\ c.offset + i \in c.offset .. (c.offset + c.size - 1)
        /\ c.start + ((c.offset + i) - c.offset) = c.start + i
    BY NamesTyped
  <2> QED BY <1>1, <2>1
<1>3. ASSUME NEW p \in 0 .. (BucketSize - 1), p < c.offset
      PROVE  buffer'[p] = buffer[p]
  <2>1. p \notin c.offset .. (c.offset + c.size - 1)
    BY <1>3
  <2> QED BY <1>1, <2>1
<1> QED BY <1>2, <1>3

\* Every step keeps the account of the copies under way: a finished copy does
\* not overwrite what earlier ones brought.
LEMMA CopiesStep == Inv /\ [Next]_vars => Copies'
<1> SUFFICES ASSUME Inv, [Next]_vars PROVE Copies'
  OBVIOUS
<1>0. Copies /\ Types /\ Filling /\ Chunking /\ nbytes' = nbytes
  BY InputsKept DEF Inv
<1> USE DEF vars, input_vars, sender_vars, receiver_vars
<1> DEFINE L == Len(bucket_meta)
           C == Len(copies)
<1>a. L \in Nat /\ C \in Nat
  BY <1>0, LenProperties DEF Types
<1>1. CASE CopyDone /\ sender # "chunk"
  <2> DEFINE k == L - C + 1
             b == bucket_meta[k]
             c == Head(copies)
  <2>1. copies # << >> /\ copies \in Seq(CopyRecords) /\ copies' = Tail(copies)
        /\ bucket_meta' = bucket_meta /\ sender' = sender
    BY <1>0, <1>1 DEF CopyDone, Types
  <2>2. C > 0 /\ Len(copies') = C - 1 /\ \A j \in 1 .. C - 1 : copies'[j] = copies[j + 1]
    BY <2>1, <1>a, HeadTailProperties, EmptySeq, LenProperties
  <2>3. C <= L /\ (\A j \in 1 .. C : copies[j] = CopyOf(bucket_meta[L - C + j]))
        /\ \A i \in 1 .. (L - C) : InBuffer(bucket_meta[i])
    BY <1>0, <1>1 DEF Copies
  <2>4. k \in 1 .. L
    BY <1>a, <2>2, <2>3
  <2>5. c = CopyOf(b)
    <3>1. c = copies[1]
      BY <2>1, HeadTailProperties
    <3>2. 1 \in 1 .. C
      BY <1>a, <2>2
    <3> HIDE DEF L, C, c
    <3> QED BY <2>3, <3>1, <3>2
  <2>6. c.name = b.name /\ c.offset = b.offset /\ c.start = 0 /\ c.size = nbytes[b.name]
    BY <2>5 DEF CopyOf
  <2>7. b.name \in Names /\ b.offset \in Nat /\ nbytes[b.name] \in Nat
        /\ b.offset + nbytes[b.name] <= BucketSize
    BY <1>0, <2>4, EntryFits
  <2>8. /\ \A i \in 0 .. (nbytes[b.name] - 1) : buffer'[b.offset + i] = <<b.name, 0 + i>>
        /\ \A p \in 0 .. (BucketSize - 1) : p < b.offset => buffer'[p] = buffer[p]
    <3> HIDE DEF b, c
    <3>1. /\ \A i \in 0 .. (c.size - 1) : buffer'[c.offset + i] = <<c.name, c.start + i>>
          /\ \A p \in 0 .. (BucketSize - 1) : p < c.offset => buffer'[p] = buffer[p]
      <4>1. c = Head(copies)
        BY DEF c
      <4>2. c.offset \in Nat /\ c.size \in Nat /\ c.start \in Nat
            /\ c.offset + c.size <= BucketSize
        BY <2>6, <2>7
      <4> QED BY <1>0, <1>1, <4>1, <4>2, BufferAfterCopy
    <3> QED BY <2>6, <3>1
  <2>9. ASSUME NEW i \in 1 .. (L - C + 1)
        PROVE  \A q \in 0 .. (nbytes[bucket_meta[i].name] - 1) :
                 buffer'[bucket_meta[i].offset + q] = <<bucket_meta[i].name, q>>
    <3>1. CASE i = k
      BY <2>8, <3>1, <2>7
    <3>2. CASE i \in 1 .. (L - C)
      <4> SUFFICES ASSUME NEW q \in 0 .. (nbytes[bucket_meta[i].name] - 1)
                   PROVE  buffer'[bucket_meta[i].offset + q] = <<bucket_meta[i].name, q>>
        OBVIOUS
      <4>1. i \in 1 .. L /\ i < k
        BY <1>a, <2>2, <2>3, <3>2
      <4>2. bucket_meta[i].offset \in Nat /\ nbytes[bucket_meta[i].name] \in Nat
            /\ bucket_meta[i].offset + nbytes[bucket_meta[i].name] <= b.offset
        BY <1>0, <2>4, <4>1, EntryFits
      <4> DEFINE p == bucket_meta[i].offset + q
      <4>4. buffer[p] = <<bucket_meta[i].name, q>>
        BY <2>3, <3>2 DEF InBuffer
      <4> HIDE DEF b
      <4>3. p < b.offset /\ p \in 0 .. (BucketSize - 1)
        <5>1. q \in Nat /\ q < nbytes[bucket_meta[i].name]
          BY <4>2
        <5>2. BucketSize \in Nat /\ b.offset \in Nat /\ b.offset <= BucketSize
          BY <2>7, NamesTyped
        <5> QED BY <4>2, <5>1, <5>2
      <4> HIDE DEF p
      <4>5. buffer'[p] = <<bucket_meta[i].name, q>>
        BY <2>8, <4>3, <4>4
      <4> QED BY <4>5 DEF p
    <3>3. i = k \/ i \in 1 .. (L - C)
      <4> HIDE DEF L, C
      <4> QED BY <1>a
    <3> QED BY <3>1, <3>2, <3>3
  <2>10. \A j \in 1 .. C - 1 : copies'[j] = CopyOf(bucket_meta[L - (C - 1) + j])
    <3> SUFFICES ASSUME NEW j \in 1 .. C - 1
                 PROVE  copies'[j] = CopyOf(bucket_meta[L - (C - 1) + j])
      OBVIOUS
    <3>1. copies'[j] = copies[j + 1] /\ j + 1 \in 1 .. C
      BY <1>a, <2>2
    <3>2. copies[j + 1] = CopyOf(bucket_meta[L - C + (j + 1)])
      BY <2>3, <3>1
    <3>3. L - C + (j + 1) = L - (C - 1) + j
      BY <1>a
    <3> HIDE DEF L, C
    <3> QED BY <3>1, <3>2, <3>3
  <2>11. L - (C - 1) = L - C + 1 /\ C - 1 <= L
    BY <1>a, <2>3
  <2>12. /\ Len(copies') <= Len(bucket_meta')
         /\ \A j \in 1 .. Len(copies') :
              copies'[j] = CopyOf(bucket_meta[Len(bucket_meta) - Len(copies') + j])
    BY <2>1, <2>2, <2>10, <2>11
  <2>13. \A i \in 1 .. (Len(bucket_meta) - Len(copies')) :
           \A q \in 0 .. (nbytes[bucket_meta[i].name] - 1) :
             buffer'[bucket_meta[i].offset + q] = <<bucket_meta[i].name, q>>
    <3>1. Len(bucket_meta) - Len(copies') = L - C + 1
      BY <2>2, <2>11
    <3> QED BY <2>9, <3>1
  <2> HIDE DEF L, C, k, b, c
  <2> QED BY <1>0, <1>1, <2>1, <2>12, <2>13 DEF Copies, CopyOf, InBuffer
<1>2. CASE CopyDone /\ sender = "chunk"
  <2>1. copies = <<chunk_copy>> /\ copies' = << >>
    <3>1. copies = <<chunk_copy>> /\ copies' = Tail(copies)
      BY <1>0, <1>2 DEF CopyDone, Copies
    <3> QED BY <3>1
  <2>2. name \in Names /\ chunk_idx < num_chunks(name)
    BY <1>0, <1>2 DEF Chunking
  <2>3. chunk_start \in Nat /\ chunk_size \in Nat /\ chunk_size <= BucketSize
    BY <1>0, <2>2, ChunkFits
  <2> DEFINE c == Head(copies)
  <2>4. c.name = name /\ c.offset = 0 /\ c.start = chunk_start /\ c.size = chunk_size
    BY <2>1 DEF chunk_copy
  <2>5. \A i \in 0 .. (chunk_size - 1) : buffer'[0 + i] = <<name, chunk_start + i>>
    <3>1. c = Head(copies)
      OBVIOUS
    <3> HIDE DEF c
    <3>2. c.offset \in Nat /\ c.size \in Nat /\ c.start \in Nat
          /\ c.offset + c.size <= BucketSize
      BY <2>3, <2>4, NamesTyped
    <3>3. \A i \in 0 .. (c.size - 1) : buffer'[c.offset + i] = <<c.name, c.start + i>>
      BY <1>0, <1>2, <3>1, <3>2, BufferAfterCopy
    <3> QED BY <2>4, <3>3
  <2>6. chunk_size' = chunk_size /\ chunk_start' = chunk_start /\ name' = name
        /\ sender' = sender
    BY <1>0, <1>2 DEF CopyDone, chunk_size, chunk_start
  <2>7. \A i \in 0 .. (chunk_size - 1) : buffer'[i] = <<name, chunk_start + i>>
    BY <2>3, <2>5
  <2> QED BY <1>2, <2>1, <2>6, <2>7 DEF Copies, ChunkInBuffer
<1>3. CASE PackTensor
  <2> DEFINE e == [name |-> name, offset |-> offset]
  <2>1. /\ bucket_meta \in Seq(Entries) /\ e \in Entries
        /\ bucket_meta' = Append(bucket_meta, e)
        /\ sender # "chunk" /\ sender' = sender /\ buffer' = buffer
        /\ copies \in Seq(CopyRecords)
    BY <1>0, <1>3, PackedFits DEF PackTensor, Types, Looping
  <2>2. copies' = Append(copies, CopyOf(e))
    BY <1>3 DEF PackTensor, copy_into_buffer, CopyOf
  <2>3. copies' \in Seq(CopyRecords)
    BY <1>3, TypesStep DEF Types, Next, Sender
  <2> HIDE DEF e
  <2>4. Len(bucket_meta') = L + 1 /\ bucket_meta'[L + 1] = e
        /\ \A i \in 1 .. L : bucket_meta'[i] = bucket_meta[i]
    BY <2>1, AppendProperties
  <2>5. Len(copies') = C + 1 /\ copies'[C + 1] = CopyOf(e)
        /\ \A j \in 1 .. C : copies'[j] = copies[j]
    BY <2>1, <2>2, AppendProperties
  <2>6. C <= L /\ (\A j \in 1 .. C : copies[j] = CopyOf(bucket_meta[L - C + j]))
        /\ \A i \in 1 .. (L - C) : InBuffer(bucket_meta[i])
    BY <1>0, <2>1 DEF Copies
  <2> HIDE DEF L, C
  <2>7. ASSUME NEW j \in 1 .. C + 1
        PROVE  copies'[j] = CopyOf(bucket_meta'[(L + 1) - (C + 1) + j])
    <3>1. CASE j \in 1 .. C
      <4>1. L - C + j \in 1 .. L /\ (L + 1) - (C + 1) + j = L - C + j
        BY <1>a, <2>6, <3>1
      <4> QED BY <2>4, <2>5, <2>6, <3>1, <4>1
    <3>2. CASE j = C + 1
      <4>1. (L + 1) - (C + 1) + j = L + 1
        BY <1>a, <3>2
      <4> QED BY <2>4, <2>5, <3>2, <4>1
    <3> QED BY <1>a, <3>1, <3>2
  <2>8. ASSUME NEW i \in 1 .. ((L + 1) - (C + 1))
        PROVE  InBuffer(bucket_meta'[i])
    <3>1. i \in 1 .. (L - C) /\ i \in 1 .. L
      BY <1>a, <2>6
    <3> QED BY <2>4, <2>6, <3>1
  <2>9. C + 1 <= L + 1
    BY <1>a, <2>6
  <2>10. /\ Len(copies') <= Len(bucket_meta')
         /\ \A j \in 1 .. Len(copies') :
              copies'[j] = CopyOf(bucket_meta'[Len(bucket_meta') - Len(copies') + j])
         /\ \A i \in 1 .. (Len(bucket_meta') - Len(copies')) : InBuffer(bucket_meta'[i])
    BY <2>4, <2>5, <2>7, <2>8, <2>9
  <2> QED BY <1>0, <2>1, <2>10 DEF Copies, CopyOf, InBuffer
<1>4. CASE FlushBucket
  <2>1. copies' = << >> /\ bucket_meta' = << >> /\ sender' = "bucket_sent"
    BY <1>4 DEF FlushBucket, send_bucket, synchronized
  <2> QED BY <2>1 DEF Copies
<1>5. CASE FillChunk
  <2>1. copies = << >>
    <3>1. C <= 0
      BY <1>0, <1>5 DEF Copies, FillChunk, Looping
    <3> QED BY <1>0, <1>a, <3>1, EmptySeq DEF Types
  <2>2. copies' = <<chunk_copy>> /\ sender' = "chunk" /\ chunk_copy' = chunk_copy
    BY <1>0, <1>5, <2>1
    DEF FillChunk, copy_into_buffer, chunk_copy, chunk_start, chunk_size
  <2> QED BY <2>2 DEF Copies
<1>6. CASE SendChunk
  <2>1. copies' = << >> /\ bucket_meta' = << >> /\ sender' = "chunk_sent"
    BY <1>0, <1>6 DEF SendChunk, synchronized, Chunking
  <2> QED BY <2>1 DEF Copies
<1>7. CASE \/ SendHandle \/ SendLast \/ Acknowledged \/ ChunkAcknowledged \/ SendRaises
  <2>1. /\ copies' = copies /\ buffer' = buffer /\ bucket_meta' = bucket_meta
        /\ sender # "chunk" /\ sender' # "chunk"
    BY <1>7 DEF SendHandle, SendLast, send_bucket, Acknowledged, ChunkAcknowledged,
       SendRaises, Looping
  <2> QED BY <1>0, <2>1 DEF Copies, CopyOf, InBuffer
<1>8. CASE Receiver \/ UNCHANGED vars
  <2>1. UNCHANGED <<sender_vars, copies, buffer>>
    BY <1>8 DEF Receiver, ReceiveHandle, ReceiveBucket, CopyTensor, ViewRaises,
       CopyChunk, Acknowledge, LoadBucket, LoadRaises
  <2> QED BY <1>0, <2>1
          DEF Copies, CopyOf, InBuffer, ChunkInBuffer, chunk_copy, chunk_start, chunk_size
<1> QED
  BY <1>1, <1>2, <1>3, <1>4, <1>5, <1>6, <1>7, <1>8 DEF Next, Sender

\* The messages stay true while the sender and the buffer are left alone.
LEMMA MessageKept ==
  ASSUME UNCHANGED <<nbytes, sender_vars, buffer>>, NEW m, MessageOK(m)
  PROVE  MessageOK(m)'
<1> USE DEF sender_vars
<1>1. BucketMessage(m) => BucketMessage(m)'
  BY DEF BucketMessage, InBuffer, Entries
<1>2. ChunkMessage(m) => ChunkMessage(m)'
  BY DEF ChunkMessage, ChunkInBuffer, chunk_meta, num_chunks, chunk_start, chunk_size
<1> QED BY <1>1, <1>2 DEF MessageOK

\* The items of a true message form a sequence.
LEMMA MessageSeq ==
  ASSUME Types, NEW m, MessageOK(m), sender \in {"bucket_sent", "chunk_sent", "last_sent"}
  PROVE  Len(m.bucket_meta) \in Nat /\ DOMAIN m.bucket_meta = 1 .. Len(m.bucket_meta)
<1>1. CASE sender = "chunk_sent"
  <2>1. m.bucket_meta = <<chunk_meta>>
    BY <1>1 DEF MessageOK, ChunkMessage
  <2> QED BY <2>1
<1>2. CASE sender \in {"bucket_sent", "last_sent"}
  <2>1. m.bucket_meta \in Seq(Entries)
    BY <1>2 DEF MessageOK, BucketMessage
  <2> QED BY <2>1, LenProperties
<1> QED BY <1>1, <1>2

\* A bucket is announced only when all of it is in the buffer.
LEMMA BucketAnnounced ==
  ASSUME Inv, FlushBucket \/ SendLast
  PROVE  BucketMessage([bucket_meta |-> bucket_meta, is_last |-> (sender' = "last_sent")])
<1> DEFINE m == [bucket_meta |-> bucket_meta, is_last |-> (sender' = "last_sent")]
<1>1. m.bucket_meta = bucket_meta
  OBVIOUS
<1> HIDE DEF m
<1>2. copies = << >> /\ sender = "loop"
  BY DEF FlushBucket, SendLast, send_bucket, synchronized, Looping
<1>3. /\ bucket_meta \in Seq(Entries) /\ Len(bucket_meta) <= name - 1
      /\ \A i \in 1 .. Len(bucket_meta) :
           bucket_meta[i].name = name - 1 - Len(bucket_meta) + i
  BY DEF Inv, Types, Filling
<1>4. \A i \in 1 .. Len(bucket_meta) : InBuffer(bucket_meta[i])
  <2>1. Len(copies) = 0 /\ Len(bucket_meta) \in Nat
    BY <1>2, <1>3, LenProperties
  <2>2. \A i \in 1 .. (Len(bucket_meta) - Len(copies)) : InBuffer(bucket_meta[i])
    BY <1>2 DEF Inv, Copies
  <2>3. Len(bucket_meta) - Len(copies) = Len(bucket_meta)
    BY <2>1
  <2> QED BY <2>2, <2>3
<1>5. BucketMessage(m)
  BY <1>1, <1>3, <1>4 DEF BucketMessage
<1> QED BY <1>5 DEF m

\* Every step keeps the messages true.
LEMMA MessagesStep == Inv /\ [Next]_vars => Messages'
<1> SUFFICES ASSUME Inv, [Next]_vars PROVE Messages'
  OBVIOUS
<1>0. Messages /\ Types /\ Lockstep /\ Control /\ nbytes' = nbytes
  BY InputsKept DEF Inv
<1> USE DEF vars, input_vars, sender_vars, receiver_vars
<1>1. CASE \/ CopyDone \/ PackTensor \/ FillChunk \/ Acknowledged \/ ChunkAcknowledged
           \/ SendRaises
  <2>1. request' = << >> /\ sender' \notin Waiting
    BY <1>0, <1>1 DEF Lockstep, Waiting, CopyDone, PackTensor, FillChunk, Acknowledged,
       ChunkAcknowledged, SendRaises, Looping
  <2> QED BY <2>1 DEF Messages
<1>2. CASE SendHandle
  <2>1. request' = <<NoMessage>> /\ sender' = "handle_sent" /\ ~NoMessage.is_last
    BY <1>2 DEF SendHandle, NoMessage
  <2> QED BY <2>1 DEF Messages, MessageOK
<1>3. CASE FlushBucket \/ SendLast
  <2>0. PICK m : m = [bucket_meta |-> bucket_meta, is_last |-> (sender' = "last_sent")]
    OBVIOUS
  <2>1. /\ request' = <<m>> /\ sender' \in {"bucket_sent", "last_sent"}
        /\ name' = name /\ buffer' = buffer
    BY <1>3, <2>0 DEF FlushBucket, SendLast, send_bucket
  <2>2. BucketMessage(m) /\ (m.is_last => sender' = "last_sent")
    BY <1>3, <2>0, BucketAnnounced
  <2>3. BucketMessage(m)'
    BY <1>0, <2>1, <2>2 DEF BucketMessage, InBuffer, Entries
  <2>4. MessageOK(m)'
    BY <2>1, <2>2, <2>3 DEF MessageOK
  <2>5. Head(request') = m /\ request' # << >>
    BY <2>1
  <2> QED BY <2>4, <2>5 DEF Messages
<1>4. CASE SendChunk
  <2>0. PICK m : m = [bucket_meta |-> <<chunk_meta>>, is_last |-> FALSE]
    OBVIOUS
  <2>1. /\ request' = <<m>> /\ sender' = "chunk_sent" /\ copies = << >> /\ sender = "chunk"
        /\ UNCHANGED <<nbytes, name, chunk_idx, buffer>>
    BY <1>0, <1>4, <2>0 DEF SendChunk, chunk_meta, synchronized
  <2>2. ChunkInBuffer /\ m.bucket_meta = <<chunk_meta>> /\ ~m.is_last
    BY <1>0, <2>0, <2>1 DEF Inv, Copies
  <2>3. MessageOK(m)'
    BY <2>1, <2>2 DEF MessageOK, ChunkMessage, chunk_meta, ChunkInBuffer, chunk_start,
       chunk_size, num_chunks
  <2>4. Head(request') = m /\ request' # << >>
    BY <2>1
  <2> QED BY <2>1, <2>3, <2>4 DEF Messages
<1>5. CASE Receiver \/ UNCHANGED vars
  <2>0. UNCHANGED <<nbytes, sender_vars, buffer>>
    BY <1>5 DEF Receiver, ReceiveHandle, ReceiveBucket, CopyTensor, ViewRaises, CopyChunk,
       Acknowledge, LoadBucket, LoadRaises
  <2>1. CASE ReceiveHandle
    <3>1. request' = << >> /\ sender' = "handle_sent"
      BY <1>0, <2>1 DEF ReceiveHandle, Control, Lockstep, Waiting
    <3> QED BY <3>1 DEF Messages
  <2>2. CASE ReceiveBucket
    <3>1. /\ request' = << >> /\ metadata' = Head(request) /\ entry' = 1 /\ ~reply'
          /\ sender \in Waiting \ {"handle_sent"}
      BY <1>0, <2>2 DEF ReceiveBucket, Control, Lockstep
    <3> DEFINE m == Head(request)
    <3>2. MessageOK(m)
      BY <1>0, <2>2 DEF Messages, ReceiveBucket
    <3> HIDE DEF m
    <3>3. Len(m.bucket_meta) \in Nat
      BY <1>0, <3>1, <3>2, MessageSeq DEF Waiting
    <3>4. metadata' = m
      BY <3>1 DEF m
    <3>5. MessageOK(metadata)'
      BY <2>0, <3>2, <3>4, MessageKept
    <3> QED BY <3>1, <3>3, <3>4, <3>5 DEF Messages
  <2>3. CASE CopyTensor \/ CopyChunk \/ Acknowledge
    <3>1. /\ request = << >> /\ ~reply /\ sender \in Waiting \ {"handle_sent"}
          /\ receiver = "copy" /\ UNCHANGED <<request, metadata>>
      BY <1>0, <2>3 DEF CopyTensor, CopyChunk, Acknowledge, Copying, Control, Lockstep
    <3>2. MessageOK(metadata) /\ entry \in 1 .. (Len(metadata.bucket_meta) + 1)
      BY <1>0, <3>1 DEF Messages
    <3>3. Len(metadata.bucket_meta) \in Nat
          /\ DOMAIN metadata.bucket_meta = 1 .. Len(metadata.bucket_meta)
      BY <1>0, <3>1, <3>2, MessageSeq DEF Waiting
    <3>4. MessageOK(metadata)'
      BY <2>0, <3>1, <3>2, MessageKept
    <3>5. entry' \in 1 .. (Len(metadata.bucket_meta) + 1)
          /\ (reply' => entry' = Len(metadata.bucket_meta) + 1)
      BY <2>3, <3>1, <3>2, <3>3 DEF CopyTensor, CopyChunk, Acknowledge, Copying
    <3> QED BY <3>1, <3>4, <3>5 DEF Messages
  <2>4. CASE ViewRaises \/ LoadBucket \/ LoadRaises \/ UNCHANGED vars
    <3>1. UNCHANGED <<request, metadata, entry, reply>>
          /\ (receiver' # "failed" => receiver # "failed")
      BY <2>4 DEF ViewRaises, LoadBucket, LoadRaises, Copying
    <3>2. request # << >> => MessageOK(Head(request))'
      <4> SUFFICES ASSUME request # << >> PROVE MessageOK(Head(request))'
        OBVIOUS
      <4> DEFINE m == Head(request)
      <4>1. MessageOK(m)
        BY <1>0 DEF Messages
      <4>2. m' = m
        BY <3>1
      <4> HIDE DEF m
      <4>3. MessageOK(m)'
        BY <2>0, <4>1, <4>2, MessageKept
      <4> QED BY <4>3 DEF m
    <3>3. sender \in Waiting \ {"handle_sent"} /\ request = << >> /\ receiver # "failed"
            => MessageOK(metadata)'
      BY <1>0, <2>0, <3>1, MessageKept DEF Messages
    <3> QED BY <1>0, <2>0, <3>1, <3>2, <3>3 DEF Messages, Waiting
  <2> QED BY <1>5, <2>1, <2>2, <2>3, <2>4 DEF Receiver
<1> QED
  BY <1>1, <1>2, <1>3, <1>4, <1>5 DEF Next, Sender

\* The chunk that is filled exists.
LEMMA ChunkStarts ==
  ASSUME Inv, FillChunk
  PROVE  name \in Names /\ nbytes[name] > BucketSize /\ chunk_idx < num_chunks(name)
<1>1. name \in Names /\ nbytes[name] > BucketSize
  BY DEF FillChunk, Looping
<1>2. 0 * BucketSize < nbytes[name] /\ nbytes[name] \in Nat
  BY <1>1, NamesTyped DEF Inv, Types
<1>3. 0 < num_chunks(name)
  BY <1>1, <1>2, NumChunks
<1> QED BY <1>1, <1>3 DEF Inv, Types, Chunking

\* Every step keeps the cutting of tensors in order.
LEMMA ChunkingStep == Inv /\ [Next]_vars => Chunking'
<1> SUFFICES ASSUME Inv, [Next]_vars PROVE Chunking'
  OBVIOUS
<1>0. Chunking /\ Types /\ nbytes' = nbytes /\ chunk_idx \in Nat
  BY InputsKept DEF Inv, Types
<1> USE DEF vars, input_vars, sender_vars, receiver_vars
<1>1. CASE \/ PackTensor \/ FlushBucket \/ SendLast \/ Acknowledged \/ SendRaises
           \/ SendHandle
  <2>1. chunk_idx = 0
    <3>1. CASE PackTensor
      BY <3>1, PackedFits
    <3>2. CASE SendLast
      BY <1>0, <3>2, NamesTyped DEF SendLast, Chunking, Names
    <3>3. CASE FlushBucket
      BY <1>0, <3>3 DEF FlushBucket, Chunking
    <3>4. CASE SendRaises
      BY <3>4 DEF SendRaises
    <3>5. CASE Acknowledged \/ SendHandle
      BY <1>0, <3>5 DEF Acknowledged, SendHandle, Chunking
    <3> QED BY <1>1, <3>1, <3>2, <3>3, <3>4, <3>5
  <2>2. chunk_idx' = chunk_idx /\ sender' \notin {"chunk", "chunk_sent"}
    BY <1>1 DEF PackTensor, FlushBucket, SendLast, Acknowledged, SendRaises, SendHandle,
       Looping
  <2> QED BY <2>1, <2>2 DEF Chunking
<1>2. CASE FillChunk
  BY <1>0, <1>2, ChunkStarts DEF FillChunk, Chunking, num_chunks
<1>3. CASE ChunkAcknowledged
  BY <1>0, <1>3 DEF ChunkAcknowledged, Chunking, num_chunks
<1>4. CASE SendChunk
  BY <1>0, <1>4 DEF SendChunk, Chunking, num_chunks
<1>5. CASE CopyDone \/ Receiver \/ UNCHANGED vars
  <2>1. UNCHANGED sender_vars
    BY <1>5 DEF CopyDone, Receiver, ReceiveHandle, ReceiveBucket, CopyTensor, ViewRaises,
       CopyChunk, Acknowledge, LoadBucket, LoadRaises
  <2> QED BY <1>0, <2>1 DEF Chunking, num_chunks
<1> QED
  BY <1>1, <1>2, <1>3, <1>4, <1>5 DEF Next, Sender

\* What the receiver knows of the message it works on.
LEMMA WorkedOn ==
  ASSUME Inv, Copying
  PROVE  /\ sender \in {"bucket_sent", "chunk_sent", "last_sent"}
         /\ request = << >> /\ ~reply
         /\ MessageOK(metadata)
         /\ Len(metadata.bucket_meta) \in Nat
         /\ entry \in 1 .. Len(metadata.bucket_meta)
<1>1. /\ sender \in {"bucket_sent", "chunk_sent", "last_sent"}
      /\ request = << >> /\ ~reply /\ receiver = "copy"
  BY DEF Inv, Copying, Control, Lockstep, Waiting
<1>2. MessageOK(metadata)
  BY <1>1 DEF Inv, Messages, Waiting
<1>3. Len(metadata.bucket_meta) \in Nat
      /\ DOMAIN metadata.bucket_meta = 1 .. Len(metadata.bucket_meta)
  BY <1>1, <1>2, MessageSeq DEF Inv
<1> QED BY <1>1, <1>2, <1>3 DEF Copying

\* An item without chunk_info stands for the next tensor, whole.
LEMMA WholeItem ==
  ASSUME Inv, Copying, "chunk_info" \notin DOMAIN meta
  PROVE  /\ sender \in {"bucket_sent", "last_sent"}
         /\ meta.name \in Names
         /\ meta.name = name - 1 - Len(metadata.bucket_meta) + entry
         /\ meta.offset \in Nat
         /\ InBuffer(meta)
<1>1. sender # "chunk_sent"
  <2> SUFFICES ASSUME sender = "chunk_sent" PROVE FALSE
    OBVIOUS
  <2>1. metadata.bucket_meta = <<chunk_meta>> /\ entry \in 1 .. Len(metadata.bucket_meta)
    BY WorkedOn DEF MessageOK, ChunkMessage
  <2>2. meta = chunk_meta
    BY <2>1 DEF meta
  <2> QED BY <2>2 DEF chunk_meta
<1>2. BucketMessage(metadata) /\ sender \in {"bucket_sent", "last_sent"}
  BY <1>1, WorkedOn DEF MessageOK
<1>3. meta \in Entries
  BY <1>2, WorkedOn, ElementOfSeq DEF BucketMessage, meta
<1>4. meta.name \in Names /\ meta.offset \in 0 .. BucketSize
  BY <1>3 DEF Entries
<1> QED BY <1>2, <1>4, WorkedOn, NamesTyped DEF BucketMessage, meta

\* An item with chunk_info is the chunk the sender is at.
LEMMA ChunkItem ==
  ASSUME Inv, Copying, "chunk_info" \in DOMAIN meta
  PROVE  /\ sender = "chunk_sent"
         /\ meta = chunk_meta
         /\ entry = 1 /\ Len(metadata.bucket_meta) = 1
         /\ ChunkInBuffer
<1>1. sender = "chunk_sent"
  <2> SUFFICES ASSUME sender # "chunk_sent" PROVE FALSE
    OBVIOUS
  <2>1. BucketMessage(metadata)
    BY WorkedOn DEF MessageOK
  <2>2. meta \in Entries
    BY <2>1, WorkedOn, ElementOfSeq DEF BucketMessage, meta
  <2> QED BY <2>2 DEF Entries
<1>2. metadata.bucket_meta = <<chunk_meta>> /\ entry \in 1 .. Len(metadata.bucket_meta)
      /\ ChunkInBuffer
  BY <1>1, WorkedOn DEF MessageOK, ChunkMessage
<1> QED BY <1>1, <1>2 DEF meta

\* The set of chunk indices received so far, and its size.
LEMMA Counted ==
  ASSUME NEW k \in Nat
  PROVE  /\ (0 .. (k - 1)) \cup {k} = 0 .. k
         /\ Cardinality(0 .. k) = k + 1
<1>1. (0 .. (k - 1)) \cup {k} = 0 .. k
  OBVIOUS
<1>2. Cardinality(0 .. k) = IF 0 > k THEN 0 ELSE k - 0 + 1
  BY FS_Interval
<1> QED BY <1>1, <1>2

\* The chunk that arrives continues the bytes the receiver has of the tensor.
LEMMA ChunkArrives ==
  ASSUME Inv, CopyChunk
  PROVE  /\ receiver # "failed" /\ sender = "chunk_sent" /\ request = << >> /\ entry = 1
         /\ name \in Names /\ nbytes[name] \in Nat /\ chunk_idx \in Nat
         /\ chunk_idx < num_chunks(name) /\ num_chunks(name) \in Nat
         /\ meta.name = name
         /\ meta.chunk_info.num_chunks = num_chunks(name)
         /\ received[name] \cup {meta.chunk_info.chunk_idx} = 0 .. chunk_idx
         /\ is_complete(meta.chunk_info, 0 .. chunk_idx)
              <=> chunk_idx + 1 = num_chunks(name)
         /\ chunk_copied(meta.chunk_info) =
              [i \in 0 .. (nbytes[name] - 1) |->
                 IF i < (chunk_idx + 1) * BucketSize THEN <<name, i>>
                 ELSE chunk_data[name][i]]
<1>1. /\ sender = "chunk_sent" /\ meta = chunk_meta /\ entry = 1 /\ ChunkInBuffer
      /\ request = << >> /\ receiver # "failed"
  BY ChunkItem, WorkedOn DEF CopyChunk, Copying
<1>2. /\ name \in Names /\ nbytes[name] \in Nat /\ chunk_idx \in Nat
      /\ chunk_idx < num_chunks(name)
  BY <1>1 DEF Inv, Chunking, Types
<1>3. num_chunks(name) \in Nat
  BY <1>2, NumChunks
<1> DEFINE info == meta.chunk_info
<1>4. /\ meta.name = name /\ info.chunk_idx = chunk_idx
      /\ info.num_chunks = num_chunks(name)
      /\ info.chunk_start = chunk_start /\ info.chunk_size = chunk_size
  BY <1>1 DEF chunk_meta
<1>5. progress = chunk_idx
  BY <1>1 DEF progress
<1>6. Chunked
  BY DEF Inv
<1>7. received[name] = 0 .. (chunk_idx - 1)
  BY <1>1, <1>2, <1>5, <1>6 DEF Chunked
<1>8. received[name] \cup {info.chunk_idx} = 0 .. chunk_idx
  BY <1>2, <1>4, <1>7, Counted
<1>9. is_complete(info, 0 .. chunk_idx) <=> chunk_idx + 1 = num_chunks(name)
  BY <1>2, <1>4, Counted DEF is_complete
<1>10. chunk_copied(info) =
         [i \in 0 .. (nbytes[name] - 1) |->
            IF i < (chunk_idx + 1) * BucketSize THEN <<name, i>> ELSE chunk_data[name][i]]
  <2>1. DOMAIN chunk_data[name] = 0 .. (nbytes[name] - 1)
    BY <1>1, <1>2, <1>6 DEF Chunked
  <2>2. /\ chunk_start \in Nat /\ chunk_size \in Nat /\ chunk_size <= BucketSize
        /\ chunk_start + chunk_size <= nbytes[name]
        /\ chunk_start + chunk_size = nbytes[name] \/ chunk_size = BucketSize
        /\ chunk_start = chunk_idx * BucketSize
    BY <1>2, ChunkFits DEF Inv
  <2>3. chunk_copied(info) =
          [i \in 0 .. (nbytes[name] - 1) |->
             IF i \in chunk_start .. (chunk_start + chunk_size - 1)
             THEN buffer[i - chunk_start] ELSE chunk_data[name][i]]
    <3> HIDE DEF info
    <3> QED BY <1>4, <2>1 DEF chunk_copied
  <2>4. (chunk_idx + 1) * BucketSize = chunk_start + BucketSize
    BY <1>2, <2>2, NamesTyped
  <2>5. \A i \in 0 .. (chunk_size - 1) : buffer[i] = <<name, chunk_start + i>>
    BY <1>1 DEF ChunkInBuffer
  <2>6. \A i \in 0 .. (nbytes[name] - 1) : i < chunk_start => chunk_data[name][i] = <<name, i>>
    BY <1>1, <1>2, <1>5, <1>6, <2>2 DEF Chunked
  <2>7. ASSUME NEW i \in 0 .. (nbytes[name] - 1)
        PROVE  (IF i \in chunk_start .. (chunk_start + chunk_size - 1)
                THEN buffer[i - chunk_start] ELSE chunk_data[name][i])
               = (IF i < chunk_start + BucketSize THEN <<name, i>> ELSE chunk_data[name][i])
    <3>1. CASE i < chunk_start
      BY <1>2, <2>2, <2>6, <3>1, NamesTyped
    <3>2. CASE i >= chunk_start /\ i < chunk_start + chunk_size
      <4>1. i - chunk_start \in 0 .. (chunk_size - 1) /\ chunk_start + (i - chunk_start) = i
            /\ i < chunk_start + BucketSize
            /\ i \in chunk_start .. (chunk_start + chunk_size - 1)
        BY <1>2, <2>2, <3>2, NamesTyped
      <4> QED BY <2>5, <4>1
    <3>3. CASE i >= chunk_start + chunk_size
      <4>1. ~(i < chunk_start + BucketSize)
            /\ i \notin chunk_start .. (chunk_start + chunk_size - 1)
        BY <1>2, <2>2, <3>3, NamesTyped
      <4> QED BY <4>1
    <3> QED BY <1>2, <2>2, <3>1, <3>2, <3>3
  <2> HIDE DEF info
  <2> QED BY <2>3, <2>4, <2>7
<1> QED BY <1>1, <1>2, <1>3, <1>4, <1>8, <1>9, <1>10

\* Only a chunk copied out makes progress.
LEMMA ProgressKept ==
  ASSUME Inv, [Next]_vars, ~PackTensor, ~CopyChunk, ~ChunkAcknowledged
  PROVE  /\ progress' = progress
         /\ UNCHANGED <<name, chunk_idx, received, chunk_data>>
         /\ receiver' # "failed" => receiver # "failed"
<1> USE DEF progress, vars, input_vars, sender_vars, receiver_vars
<1>1. CASE \/ SendHandle \/ FlushBucket \/ FillChunk \/ SendChunk \/ SendLast
           \/ Acknowledged \/ SendRaises
  BY <1>1 DEF SendHandle, FlushBucket, FillChunk, SendChunk, SendLast, send_bucket,
     Acknowledged, SendRaises, Looping
<1>2. CASE ReceiveHandle \/ ReceiveBucket
  BY <1>2 DEF Inv, Control, ReceiveHandle, ReceiveBucket
<1>3. CASE CopyTensor
  <2>1. sender # "chunk_sent"
    BY <1>3, WholeItem DEF CopyTensor
  <2> QED BY <1>3, <2>1 DEF CopyTensor
<1>4. CASE \/ CopyDone \/ ViewRaises \/ Acknowledge \/ LoadBucket \/ LoadRaises
           \/ UNCHANGED vars
  BY <1>4 DEF CopyDone, ViewRaises, Acknowledge, LoadBucket, LoadRaises, Copying
<1> QED BY <1>1, <1>2, <1>3, <1>4 DEF Next, Sender, Receiver

\* A chunk is acknowledged after it has been copied out.
LEMMA ChunkAcked ==
  ASSUME Inv, ChunkAcknowledged
  PROVE  /\ receiver # "failed" => progress = chunk_idx + 1
         /\ progress' = chunk_idx'
         /\ name \in Names /\ bucket_meta = << >>
         /\ chunk_idx \in Nat /\ num_chunks(name) \in Nat /\ chunk_idx < num_chunks(name)
<1>1. sender = "chunk_sent" /\ reply /\ request = << >> /\ sender' = "loop"
  BY DEF ChunkAcknowledged, Inv, Lockstep
<1>2. name \in Names /\ bucket_meta = << >> /\ chunk_idx < num_chunks(name)
      /\ chunk_idx \in Nat /\ nbytes[name] \in Nat
  BY <1>1 DEF Inv, Chunking, Types
<1>3. receiver # "failed" => entry = 2
  <2> SUFFICES ASSUME receiver # "failed" PROVE entry = 2
    OBVIOUS
  <2>1. MessageOK(metadata) /\ entry = Len(metadata.bucket_meta) + 1
    BY <1>1 DEF Inv, Messages, Waiting
  <2>2. metadata.bucket_meta = <<chunk_meta>>
    BY <1>1, <2>1 DEF MessageOK, ChunkMessage
  <2> QED BY <2>1, <2>2
<1> QED BY <1>1, <1>2, <1>3, NumChunks DEF progress

\* Every step keeps the account of the received chunks.
LEMMA ChunkedStep == Inv /\ [Next]_vars => Chunked'
<1> SUFFICES ASSUME Inv, [Next]_vars PROVE Chunked'
  OBVIOUS
<1>0. Chunked /\ Types /\ nbytes' = nbytes /\ \A n \in Names : num_chunks(n)' = num_chunks(n)
  BY InputsKept DEF Inv, num_chunks
<1> USE DEF vars, input_vars, sender_vars, receiver_vars
<1>1. CASE ~PackTensor /\ ~CopyChunk /\ ~ChunkAcknowledged
  <2>1. progress' = progress /\ UNCHANGED <<name, received, chunk_data>>
        /\ (receiver' # "failed" => receiver # "failed")
    BY <1>1, ProgressKept
  <2> QED BY <1>0, <2>1 DEF Chunked, num_chunks
<1>2. CASE PackTensor
  <2>1. chunk_idx = 0 /\ progress = 0 /\ progress' = 0
        /\ UNCHANGED <<receiver, received, chunk_data>>
    BY <1>2, PackedFits DEF PackTensor, Looping, progress
  <2>2. 0 .. (0 - 1) = {} /\ \A i \in Nat : ~(i < 0 * BucketSize)
    BY NamesTyped
  <2>3. receiver # "failed" => received = [n \in Names |-> {}]
    BY <1>0, <2>1, <2>2 DEF Chunked
  <2>4. receiver # "failed" =>
          chunk_data = [n \in Names |-> [i \in 0 .. (nbytes[n] - 1) |-> chunk_data[n][i]]]
    BY <1>0 DEF Chunked
  <2> QED BY <1>0, <2>1, <2>2, <2>3, <2>4 DEF Chunked
<1>3. CASE ChunkAcknowledged
  <2>1. UNCHANGED <<receiver, received, chunk_data>>
    BY <1>3 DEF ChunkAcknowledged
  <2>2. /\ receiver # "failed" => progress = chunk_idx + 1
        /\ progress' = chunk_idx'
        /\ name \in Names
        /\ chunk_idx \in Nat /\ num_chunks(name) \in Nat /\ chunk_idx < num_chunks(name)
    BY <1>3, ChunkAcked
  <2>3. CASE chunk_idx + 1 < num_chunks(name)
    <3>1. chunk_idx' = chunk_idx + 1 /\ name' = name
      BY <1>3, <2>3 DEF ChunkAcknowledged
    <3> QED BY <1>0, <2>1, <2>2, <3>1 DEF Chunked
  <2>4. CASE ~(chunk_idx + 1 < num_chunks(name))
    <3>1. chunk_idx' = 0 /\ name' = name + 1
      BY <1>3, <2>4 DEF ChunkAcknowledged
    <3>2. 0 .. (0 - 1) = {} /\ \A i \in Nat : ~(i < 0 * BucketSize)
      BY NamesTyped
    <3>3. receiver # "failed" => received = [n \in Names |-> {}]
      BY <1>0, <2>2, <2>4 DEF Chunked
    <3>4. receiver # "failed" =>
            chunk_data = [n \in Names |-> [i \in 0 .. (nbytes[n] - 1) |-> chunk_data[n][i]]]
      BY <1>0 DEF Chunked
    <3> QED BY <1>0, <2>1, <2>2, <3>1, <3>2, <3>3, <3>4 DEF Chunked
  <2> QED BY <2>3, <2>4
<1>4. CASE CopyChunk
  <2> DEFINE info == meta.chunk_info
             done == chunk_idx + 1 = num_chunks(name)
             data == [i \in 0 .. (nbytes[name] - 1) |->
                        IF i < (chunk_idx + 1) * BucketSize THEN <<name, i>>
                        ELSE chunk_data[name][i]]
  <2>1. /\ receiver # "failed" /\ sender = "chunk_sent" /\ request = << >> /\ entry = 1
        /\ name \in Names /\ nbytes[name] \in Nat /\ chunk_idx \in Nat
        /\ chunk_idx < num_chunks(name) /\ num_chunks(name) \in Nat
        /\ meta.name = name
        /\ received[name] \cup {info.chunk_idx} = 0 .. chunk_idx
        /\ is_complete(info, 0 .. chunk_idx) <=> done
        /\ chunk_copied(info) = data
    BY <1>4, ChunkArrives
  <2>2. /\ progress = chunk_idx /\ progress' = chunk_idx + 1
        /\ UNCHANGED <<name, receiver>>
    BY <1>4, <2>1 DEF progress, CopyChunk
  <2>3. /\ chunk_data' = [chunk_data EXCEPT ![name] = data]
        /\ received' = [received EXCEPT ![name] = IF done THEN {} ELSE 0 .. chunk_idx]
    <3> HIDE DEF info, data, done
    <3>1. /\ chunk_data' = [chunk_data EXCEPT ![name] = chunk_copied(info)]
          /\ IF is_complete(info, received[name] \cup {info.chunk_idx})
             THEN received' = [received EXCEPT ![name] = {}]
             ELSE received' = [received EXCEPT ![name] =
                                 received[name] \cup {info.chunk_idx}]
      BY <1>4, <2>1 DEF CopyChunk, info
    <3> QED BY <2>1, <3>1
  <2>4. /\ received = [n \in Names |-> IF n = name /\ chunk_idx < num_chunks(n)
                                       THEN 0 .. (chunk_idx - 1) ELSE {}]
        /\ chunk_data = [n \in Names |-> [i \in 0 .. (nbytes[n] - 1) |-> chunk_data[n][i]]]
    BY <1>0, <2>1, <2>2 DEF Chunked
  <2>5. received' = [n \in Names |-> IF n = name /\ chunk_idx + 1 < num_chunks(n)
                                     THEN 0 .. ((chunk_idx + 1) - 1) ELSE {}]
    <3>1. (chunk_idx + 1) - 1 = chunk_idx /\ (done <=> ~(chunk_idx + 1 < num_chunks(name)))
      BY <2>1
    <3>2. received' = [n \in Names |-> IF n = name
                                       THEN IF done THEN {} ELSE 0 .. chunk_idx ELSE {}]
      BY <2>1, <2>3, <2>4
    <3> HIDE DEF done
    <3> QED BY <3>1, <3>2
  <2>6. /\ chunk_data'[name] = data
        /\ \A n \in Names : n # name => chunk_data'[n] = chunk_data[n]
        /\ DOMAIN chunk_data' = Names
    BY <2>1, <2>3, <2>4
  <2>7. chunk_data' = [n \in Names |-> [i \in 0 .. (nbytes[n] - 1) |-> chunk_data'[n][i]]]
    <3>1. \A n \in Names : chunk_data'[n] = [i \in 0 .. (nbytes[n] - 1) |-> chunk_data'[n][i]]
      <4> SUFFICES ASSUME NEW n \in Names
                   PROVE  chunk_data'[n] = [i \in 0 .. (nbytes[n] - 1) |-> chunk_data'[n][i]]
        OBVIOUS
      <4>1. CASE n = name
        BY <2>6, <4>1
      <4>2. CASE n # name
        <5>1. chunk_data[n] = [i \in 0 .. (nbytes[n] - 1) |-> chunk_data[n][i]]
          BY <2>4
        <5> QED BY <2>6, <4>2, <5>1
      <4> QED BY <4>1, <4>2
    <3>2. chunk_data' = [n \in Names |-> chunk_data'[n]]
      BY <2>3, <2>4
    <3> QED BY <3>1, <3>2
  <2>8. \A i \in 0 .. (nbytes[name] - 1) :
          i < (chunk_idx + 1) * BucketSize => chunk_data'[name][i] = <<name, i>>
    BY <2>6
  <2> HIDE DEF data, done, info
  <2> QED BY <1>0, <2>2, <2>5, <2>7, <2>8 DEF Chunked
<1> QED
  BY <1>1, <1>2, <1>3, <1>4

-----------------------------------------------------------------------------
(* What the receiver has. *)

\* A prefix of a sequence, in two parts, grows by the next element.
LEMMA PrefixGrows ==
  ASSUME NEW S, NEW all \in Seq(S), NEW a \in Seq(S), NEW b \in Seq(S),
         Len(a) + Len(b) < Len(all),
         a \o b = SubSeq(all, 1, Len(a) + Len(b))
  PROVE  LET c == Append(b, all[Len(a) + Len(b) + 1])
         IN  /\ c \in Seq(S) /\ Len(c) = Len(b) + 1
             /\ a \o c = SubSeq(all, 1, Len(a) + Len(c))
<1> DEFINE k == Len(a) + Len(b) + 1
           e == all[k]
           c == Append(b, e)
<1>1. k \in 1 .. Len(all) /\ k - 1 = Len(a) + Len(b) /\ k \in Nat /\ 1 \in 1 .. Len(all)
      /\ Len(a) \in Nat /\ Len(b) \in Nat /\ Len(all) \in Nat
  BY LenProperties
<1>2. e \in S
  BY <1>1, ElementOfSeq
<1> HIDE DEF e
<1>3. c \in Seq(S) /\ Len(c) = Len(b) + 1 /\ c = b \o <<e>> /\ <<e>> \in Seq(S)
  BY <1>2, AppendProperties, AppendIsConcat
<1>4. a \o c = (a \o b) \o <<e>>
  BY <1>3, ConcatAssociative
<1>5. SubSeq(all, 1, k) = SubSeq(all, 1, k - 1) \o <<e>>
  <2>1. k \in 1 .. Len(all)
    BY <1>1
  <2> QED BY <1>1, <2>1, SubSeqRecursiveSecond DEF e
<1>6. Len(a) + Len(c) = k
  BY <1>1, <1>3
<1> QED BY <1>1, <1>3, <1>4, <1>5, <1>6 DEF e

\* Of a prefix in two parts, a prefix of the second part can be left out.
LEMMA PrefixCut ==
  ASSUME NEW S, NEW all \in Seq(S), NEW a \in Seq(S), NEW b \in Seq(S),
         Len(a) + Len(b) <= Len(all),
         a \o b = SubSeq(all, 1, Len(a) + Len(b)),
         NEW m \in 0 .. Len(b)
  PROVE  /\ SubSeq(b, 1, m) \in Seq(S) /\ Len(SubSeq(b, 1, m)) = m
         /\ a \o SubSeq(b, 1, m) = SubSeq(all, 1, Len(a) + m)
<1> DEFINE c == SubSeq(b, 1, m)
           k == Len(a) + m
<1>1. Len(a) \in Nat /\ Len(b) \in Nat /\ Len(all) \in Nat /\ m \in Nat /\ m \in Int
      /\ k \in Nat /\ k \in Int /\ 1 \in Int
  BY LenProperties
<1>2. c \in Seq(S) /\ Len(c) = m /\ \A i \in 1 .. m : c[i] = b[i]
  <2>1. \A i \in 1 .. m : b[i] \in S
    BY <1>1, ElementOfSeq
  <2>2. /\ c \in Seq(S) /\ Len(c) = IF 1 <= m THEN m - 1 + 1 ELSE 0
        /\ \A i \in 1 .. m - 1 + 1 : c[i] = b[1 + i - 1]
    BY <1>1, <2>1, SubSeqProperties
  <2>3. m - 1 + 1 = m /\ \A i \in 1 .. m : 1 + i - 1 = i
    BY <1>1
  <2> HIDE DEF c
  <2> QED BY <1>1, <2>2, <2>3
<1>3. a \o c \in Seq(S) /\ Len(a \o c) = k
      /\ \A i \in 1 .. k : (a \o c)[i] = IF i <= Len(a) THEN a[i] ELSE c[i - Len(a)]
  BY <1>2, ConcatProperties
<1>4. ASSUME NEW h \in Nat, h <= Len(all)
      PROVE  SubSeq(all, 1, h) \in Seq(S) /\ Len(SubSeq(all, 1, h)) = h
             /\ \A i \in 1 .. h : SubSeq(all, 1, h)[i] = all[i]
  <2>1. \A i \in 1 .. h : all[i] \in S
    BY <1>1, <1>4, ElementOfSeq
  <2>2. /\ SubSeq(all, 1, h) \in Seq(S)
        /\ Len(SubSeq(all, 1, h)) = IF 1 <= h THEN h - 1 + 1 ELSE 0
        /\ \A i \in 1 .. h - 1 + 1 : SubSeq(all, 1, h)[i] = all[1 + i - 1]
    BY <1>1, <2>1, SubSeqProperties
  <2>3. h - 1 + 1 = h /\ \A i \in 1 .. h : 1 + i - 1 = i
    OBVIOUS
  <2> QED BY <2>2, <2>3
<1>5. k <= Len(all) /\ Len(a) + Len(b) \in Nat
  BY <1>1
<1>6. ASSUME NEW i \in 1 .. k PROVE (a \o c)[i] = SubSeq(all, 1, k)[i]
  <2>1. SubSeq(all, 1, k)[i] = all[i]
    BY <1>1, <1>4, <1>5
  <2>2. i \in 1 .. Len(a) + Len(b)
    BY <1>1
  <2>3. (a \o b)[i] = all[i]
    BY <1>4, <1>5, <2>2
  <2>4. (a \o b)[i] = IF i <= Len(a) THEN a[i] ELSE b[i - Len(a)]
    BY <2>2, ConcatProperties
  <2>5. ~(i <= Len(a)) => i - Len(a) \in 1 .. m
    BY <1>1
  <2> HIDE DEF c, k
  <2> QED BY <1>2, <1>3, <2>1, <2>3, <2>4, <2>5
<1>7. a \o c = SubSeq(all, 1, k)
  <2> HIDE DEF c, k
  <2> QED BY <1>1, <1>3, <1>4, <1>5, <1>6, SeqEqual
<1> QED BY <1>2, <1>7

\* Nothing but a tensor copied out changes what the receiver must have.
LEMMA ExpectedKept ==
  ASSUME Inv, [Next]_vars, ~CopyTensor, ~CopyChunk, receiver' # "failed"
  PROVE  expected' = expected
<1> USE DEF vars, input_vars, sender_vars, receiver_vars
<1>0. Types /\ Control /\ Lockstep /\ nbytes' = nbytes /\ receiver # "failed"
      /\ name \in Nat /\ Len(bucket_meta) \in Nat
  <2>1. receiver # "failed"
    BY DEF Next, CopyDone, Sender, SendHandle, PackTensor, FlushBucket, FillChunk, SendChunk,
       SendLast, Acknowledged, ChunkAcknowledged, SendRaises, Receiver, ReceiveHandle,
       ReceiveBucket, ViewRaises, Acknowledge, LoadBucket, LoadRaises
  <2>2. Types /\ name \in Nat /\ Len(bucket_meta) \in Nat
    BY NamesTyped, LenProperties DEF Inv, Types
  <2> QED BY <2>1, <2>2, InputsKept DEF Inv
<1>1. CASE PackTensor
  <2>1. Len(bucket_meta') = Len(bucket_meta) + 1 /\ name' = name + 1
        /\ sender = "loop" /\ sender' = "loop"
    BY <1>1, PackedFits, AppendProperties DEF PackTensor, Looping
  <2> QED BY <1>0, <2>1 DEF expected
<1>2. CASE SendHandle \/ FillChunk \/ SendRaises
  BY <1>2 DEF expected, SendHandle, FillChunk, SendRaises, Looping
<1>3. CASE FlushBucket \/ SendLast
  <2>1. /\ request' # << >> /\ Head(request').bucket_meta = bucket_meta
        /\ sender' \in {"bucket_sent", "last_sent"} /\ sender = "loop" /\ name' = name
    BY <1>3 DEF FlushBucket, SendLast, send_bucket, Looping
  <2> QED BY <2>1 DEF expected
<1>4. CASE SendChunk
  <2>1. /\ sender = "chunk" /\ sender' = "chunk_sent" /\ request' # << >>
        /\ name' = name /\ chunk_idx' = chunk_idx
    BY <1>4 DEF SendChunk
  <2>2. name \in Names /\ bucket_meta = << >> /\ chunk_idx < num_chunks(name)
    BY <2>1 DEF Inv, Chunking
  <2>3. num_chunks(name) \in Nat /\ chunk_idx \in Nat
    BY <1>0, <2>2, NumChunks DEF Types
  <2>4. progress' = chunk_idx /\ num_chunks(name)' = num_chunks(name)
    BY <1>0, <2>1 DEF progress, num_chunks
  <2>5. chunk_idx # num_chunks(name)
    BY <2>2, <2>3
  <2> QED BY <1>0, <2>1, <2>2, <2>4, <2>5 DEF expected
<1>5. CASE Acknowledged
  <2>1. /\ request = << >> /\ request' = << >> /\ reply /\ name' = name
        /\ UNCHANGED <<bucket_meta, metadata, entry>>
        /\ sender' = IF sender = "last_sent" THEN "done" ELSE "loop"
    BY <1>0, <1>5 DEF Lockstep, Acknowledged
  <2>2. CASE sender = "handle_sent"
    BY <2>1, <2>2 DEF expected
  <2>3. CASE sender \in {"bucket_sent", "last_sent"}
    <3>1. MessageOK(metadata) /\ entry = Len(metadata.bucket_meta) + 1
      BY <1>0, <2>1, <2>3 DEF Inv, Messages, Waiting
    <3>2. Len(metadata.bucket_meta) \in Nat
      BY <1>0, <2>3, <3>1, MessageSeq
    <3>3. name - 1 - Len(metadata.bucket_meta) + (entry - 1) = name - 1
      BY <1>0, <3>1, <3>2
    <3>4. sender = "bucket_sent" => bucket_meta = << >> /\ Len(bucket_meta) = 0
      BY <1>0 DEF Control
    <3>5. CASE sender = "last_sent"
      BY <2>1, <3>3, <3>5 DEF expected
    <3>6. CASE sender = "bucket_sent"
      <4>1. name - 1 - Len(bucket_meta) = name - 1
        BY <1>0, <3>4, <3>6
      <4> QED BY <2>1, <3>3, <3>6, <4>1 DEF expected
    <3> QED BY <2>3, <3>5, <3>6
  <2> QED BY <1>5, <2>2, <2>3 DEF Acknowledged
<1>6. CASE ChunkAcknowledged
  <2>1. /\ progress = chunk_idx + 1 /\ bucket_meta = << >> /\ sender = "chunk_sent"
        /\ sender' = "loop" /\ bucket_meta' = bucket_meta
        /\ chunk_idx \in Nat /\ num_chunks(name) \in Nat /\ chunk_idx < num_chunks(name)
    BY <1>0, <1>6, ChunkAcked DEF ChunkAcknowledged
  <2>2. name' = IF chunk_idx + 1 = num_chunks(name) THEN name + 1 ELSE name
    BY <1>6, <2>1 DEF ChunkAcknowledged
  <2> QED BY <1>0, <2>1, <2>2 DEF expected
<1>7. CASE ReceiveHandle
  BY <1>0, <1>7 DEF ReceiveHandle, Control, expected
<1>8. CASE ReceiveBucket
  <2>1. /\ request # << >> /\ request' = << >> /\ metadata' = Head(request) /\ entry' = 1
        /\ UNCHANGED sender_vars /\ sender \in {"bucket_sent", "chunk_sent", "last_sent"}
    BY <1>0, <1>8 DEF ReceiveBucket, Lockstep, Control, Waiting
  <2>2. progress' = progress /\ num_chunks(name)' = num_chunks(name)
    BY <1>0, <2>1 DEF progress, num_chunks
  <2>3. MessageOK(Head(request))
    BY <2>1 DEF Inv, Messages
  <2>4. Len(Head(request).bucket_meta) \in Nat
    BY <1>0, <2>1, <2>3, MessageSeq
  <2> QED BY <1>0, <2>1, <2>2, <2>4 DEF expected
<1>9. CASE CopyDone \/ ViewRaises \/ Acknowledge \/ LoadBucket \/ LoadRaises \/ UNCHANGED vars
  <2>1. UNCHANGED <<nbytes, sender_vars, request, metadata, entry>>
    BY <1>9 DEF CopyDone, ViewRaises, Acknowledge, LoadBucket, LoadRaises
  <2> QED BY <2>1 DEF expected, progress, num_chunks
<1> QED
  BY <1>1, <1>2, <1>3, <1>4, <1>5, <1>6, <1>7, <1>8, <1>9 DEF Next, Sender, Receiver

\* The tensors to send form a sequence.
LEMMA AllWeightsSeq ==
  /\ AllWeights \in Seq(Whole)
  /\ Len(AllWeights) = NumWeights
  /\ \A n \in Names : AllWeights[n] = Tensor(n)
<1>1. AllWeights \in [1 .. NumWeights -> Whole]
  BY DEF AllWeights, Whole, Names
<1>2. AllWeights \in Seq(Whole)
  BY <1>1, NamesTyped, SeqDef
<1>3. Len(AllWeights) \in Nat /\ DOMAIN AllWeights = 1 .. Len(AllWeights)
  BY <1>2, LenProperties
<1>4. DOMAIN AllWeights = 1 .. NumWeights
  BY <1>1
<1>5. Len(AllWeights) = NumWeights
  <2> DEFINE a == Len(AllWeights)
             b == NumWeights
  <2>1. a \in Nat /\ b \in Nat /\ 1 .. a = 1 .. b
    BY <1>3, <1>4, NamesTyped
  <2> HIDE DEF a, b
  <2>2. ~(a < b)
    <3> SUFFICES ASSUME a < b PROVE FALSE
      OBVIOUS
    <3>1. b \in 1 .. b /\ b \notin 1 .. a
      BY <2>1
    <3> QED BY <2>1, <3>1
  <2>3. ~(b < a)
    <3> SUFFICES ASSUME b < a PROVE FALSE
      OBVIOUS
    <3>1. a \in 1 .. a /\ a \notin 1 .. b
      BY <2>1
    <3> QED BY <2>1, <3>1
  <2>4. a = b
    BY <2>1, <2>2, <2>3
  <2> QED BY <2>4 DEF a, b
<1> QED BY <1>2, <1>5 DEF AllWeights

\* The receiver adds the next tensor, whole, to what it has.
LEMMA NextTensor ==
  ASSUME Inv, [Next]_vars, NEW k \in Names, k = Len(loaded) + Len(weights) + 1,
         weights' = Append(weights, Tensor(k)), loaded' = loaded,
         expected' = k
  PROVE  Delivered'
<1>1. /\ loaded \in Seq(Whole) /\ weights \in Seq(Whole)
      /\ loaded \o weights = SubSeq(AllWeights, 1, Len(loaded) + Len(weights))
  BY DEF Inv, Delivered
<1>2. /\ AllWeights \in Seq(Whole) /\ Len(AllWeights) = NumWeights
      /\ AllWeights[k] = Tensor(k)
  BY AllWeightsSeq
<1>3. Len(loaded) \in Nat /\ Len(weights) \in Nat
  BY <1>1, LenProperties
<1>4. k \in Nat /\ k <= NumWeights
  BY NamesTyped DEF Names
<1>5. Len(loaded) + Len(weights) < Len(AllWeights)
  BY <1>2, <1>3, <1>4, NamesTyped
<1>6. /\ weights' \in Seq(Whole) /\ Len(weights') = Len(weights) + 1
      /\ loaded \o weights' = SubSeq(AllWeights, 1, Len(loaded) + Len(weights'))
  BY <1>1, <1>2, <1>5, PrefixGrows
<1>7. Len(loaded') + Len(weights') = k
  BY <1>3, <1>6
<1> QED BY <1>1, <1>4, <1>6, <1>7, DataKept DEF Delivered

\* Every step keeps what the receiver has a prefix of the tensors, of the length
\* expected.
LEMMA DeliveredStep == Inv /\ [Next]_vars => Delivered'
<1> SUFFICES ASSUME Inv, [Next]_vars PROVE Delivered'
  OBVIOUS
<1>0. Delivered /\ Types /\ nbytes' = nbytes /\ AllWeights' = AllWeights /\ Whole' = Whole
  BY InputsKept, DataKept DEF Inv
<1> USE DEF vars, input_vars, sender_vars, receiver_vars
<1>a. /\ Len(loaded) \in Nat /\ Len(weights) \in Nat
      /\ AllWeights \in Seq(Whole) /\ Len(AllWeights) = NumWeights
  BY <1>0, LenProperties, AllWeightsSeq DEF Delivered
<1>1. CASE CopyTensor
  <2> DEFINE k == meta.name
  <2>1. /\ sender \in {"bucket_sent", "last_sent"}
        /\ k \in Names
        /\ k = name - 1 - Len(metadata.bucket_meta) + entry
        /\ meta.offset \in Nat
        /\ InBuffer(meta)
    BY <1>1, WholeItem DEF CopyTensor
  <2>2. /\ request = << >> /\ Len(metadata.bucket_meta) \in Nat /\ entry \in Nat
        /\ receiver = "copy" /\ name \in Nat
    BY <1>0, <1>1, WorkedOn, NamesTyped DEF CopyTensor, Copying, Types
  <2>3. expected = k - 1
    BY <2>1, <2>2 DEF expected
  <2>4. expected' = k
    BY <1>1, <2>1, <2>2 DEF expected, CopyTensor
  <2>5. k = Len(loaded) + Len(weights) + 1
    <3>1. Len(loaded) + Len(weights) = k - 1
      BY <1>0, <2>2, <2>3 DEF Delivered
    <3>2. k \in Nat
      BY <2>1, NamesTyped
    <3> HIDE DEF k
    <3> QED BY <1>a, <3>1, <3>2
  <2>6. weights' = Append(weights, Tensor(k)) /\ loaded' = loaded
    <3>1. [i \in 0 .. (nbytes[meta.name] - 1) |-> buffer[meta.offset + i]]
          = [i \in 0 .. (nbytes[meta.name] - 1) |-> <<meta.name, i>>]
      BY <2>1 DEF InBuffer
    <3> QED BY <1>1, <3>1 DEF CopyTensor, Tensor
  <2> HIDE DEF k
  <2> QED BY <2>1, <2>4, <2>5, <2>6, NextTensor
<1>2. CASE CopyChunk
  <2>1. /\ receiver # "failed" /\ sender = "chunk_sent" /\ request = << >> /\ entry = 1
        /\ name \in Names /\ nbytes[name] \in Nat /\ chunk_idx \in Nat
        /\ chunk_idx < num_chunks(name) /\ num_chunks(name) \in Nat
        /\ meta.name = name
        /\ received[name] \cup {meta.chunk_info.chunk_idx} = 0 .. chunk_idx
        /\ is_complete(meta.chunk_info, 0 .. chunk_idx)
             <=> chunk_idx + 1 = num_chunks(name)
        /\ chunk_copied(meta.chunk_info) =
             [i \in 0 .. (nbytes[name] - 1) |->
                IF i < (chunk_idx + 1) * BucketSize THEN <<name, i>>
                ELSE chunk_data[name][i]]
    BY <1>2, ChunkArrives
  <2>2. /\ UNCHANGED <<name, sender, receiver, loaded>> /\ entry' = 2 /\ request' = << >>
        /\ chunk_idx' = chunk_idx /\ num_chunks(name)' = num_chunks(name)
    BY <1>0, <1>2, <2>1 DEF CopyChunk, num_chunks
  <2>3. progress = chunk_idx /\ progress' = chunk_idx + 1 /\ name \in Nat
    BY <2>1, <2>2, NamesTyped DEF progress
  <2>4. expected = name - 1
    BY <2>1, <2>3 DEF expected
  <2>5. Len(loaded) + Len(weights) = name - 1
    BY <1>0, <2>1, <2>4 DEF Delivered
  <2>6. CASE chunk_idx + 1 = num_chunks(name)
    <3>1. expected' = name
      BY <2>1, <2>2, <2>3, <2>6 DEF expected
    <3>2. \A i \in 0 .. (nbytes[name] - 1) : i < (chunk_idx + 1) * BucketSize
      <4>1. ~((chunk_idx + 1) * BucketSize < nbytes[name])
        <5>1. chunk_idx + 1 \in Nat /\ ~(chunk_idx + 1 < num_chunks(name))
          BY <2>1, <2>6
        <5> QED BY <2>1, <5>1, NumChunks
      <4>2. (chunk_idx + 1) * BucketSize \in Int
        BY <2>1, NamesTyped
      <4> QED BY <2>1, <4>1, <4>2
    <3>3. chunk_copied(meta.chunk_info) = [i \in 0 .. (nbytes[name] - 1) |-> <<name, i>>]
      BY <2>1, <3>2
    <3>4. weights' = Append(weights, [name |-> name, data |-> chunk_copied(meta.chunk_info)])
      BY <1>2, <2>1, <2>6 DEF CopyChunk
    <3>5. weights' = Append(weights, Tensor(name))
      BY <3>3, <3>4 DEF Tensor
    <3>6. name = Len(loaded) + Len(weights) + 1
      BY <1>a, <2>3, <2>5
    <3>7. PICK k : k = name
      OBVIOUS
    <3>8. k \in Names /\ k = Len(loaded) + Len(weights) + 1 /\ expected' = k
          /\ weights' = Append(weights, Tensor(k)) /\ loaded' = loaded
      BY <2>1, <2>2, <3>1, <3>5, <3>6, <3>7
    <3> QED BY <3>8, NextTensor
  <2>7. CASE chunk_idx + 1 # num_chunks(name)
    <3>1. weights' = weights
      BY <1>2, <2>1, <2>7 DEF CopyChunk
    <3>2. expected' = name - 1
      BY <2>1, <2>2, <2>3, <2>7 DEF expected
    <3> QED BY <1>0, <2>2, <2>5, <3>1, <3>2 DEF Delivered
  <2> QED BY <2>6, <2>7
<1>3. CASE LoadBucket
  <2>1. loaded' = loaded \o weights /\ weights' = << >>
    BY <1>3 DEF LoadBucket
  <2>2. /\ loaded' \in Seq(Whole) /\ weights' \in Seq(Whole)
        /\ Len(loaded') = Len(loaded) + Len(weights) /\ Len(weights') = 0
        /\ loaded' \o weights' = loaded'
    <3>1. loaded \in Seq(Whole) /\ weights \in Seq(Whole)
      BY <1>0 DEF Delivered
    <3>2. loaded' \in Seq(Whole) /\ Len(loaded') = Len(loaded) + Len(weights)
      BY <2>1, <3>1, ConcatProperties
    <3>3. loaded' \o << >> = loaded'
      BY <3>2, ConcatEmptySeq
    <3> QED BY <2>1, <3>2, <3>3, EmptySeq
  <2>3. Len(loaded') + Len(weights') = Len(loaded) + Len(weights)
    BY <1>a, <2>2
  <2>4. receiver' # "failed" => expected' = expected /\ receiver # "failed"
    <3>1. ~CopyTensor /\ ~CopyChunk
      BY <1>3 DEF LoadBucket, CopyTensor, CopyChunk, Copying
    <3> QED BY <1>3, <3>1, ExpectedKept DEF LoadBucket
  <2> QED BY <1>0, <2>1, <2>2, <2>3, <2>4 DEF Delivered
<1>4. CASE LoadRaises
  <2>1. PICK k \in DOMAIN weights : loaded' = loaded \o SubSeq(weights, 1, k - 1)
    BY <1>4 DEF LoadRaises
  <2>2. k - 1 \in 0 .. Len(weights)
    BY <1>0, <1>a, LenProperties DEF Delivered
  <2> DEFINE m == k - 1
             c == SubSeq(weights, 1, m)
  <2> HIDE DEF m
  <2>3. /\ c \in Seq(Whole) /\ Len(c) = m
        /\ loaded \o c = SubSeq(AllWeights, 1, Len(loaded) + m)
    <3>1. m \in 0 .. Len(weights)
      BY <2>2 DEF m
    <3>2. /\ loaded \in Seq(Whole) /\ weights \in Seq(Whole)
          /\ loaded \o weights = SubSeq(AllWeights, 1, Len(loaded) + Len(weights))
          /\ Len(loaded) + Len(weights) <= Len(AllWeights)
      BY <1>0, <1>a DEF Delivered
    <3>3. AllWeights \in Seq(Whole)
      BY <1>a
    <3>4. \A i \in 0 .. Len(weights) :
            /\ SubSeq(weights, 1, i) \in Seq(Whole) /\ Len(SubSeq(weights, 1, i)) = i
            /\ loaded \o SubSeq(weights, 1, i) = SubSeq(AllWeights, 1, Len(loaded) + i)
      BY <3>2, <3>3, PrefixCut
    <3> QED BY <3>1, <3>4
  <2>4. weights' = << >> /\ receiver' = "failed" /\ loaded' = loaded \o c
    BY <1>4, <2>1 DEF LoadRaises, m
  <2> HIDE DEF c
  <2>5. /\ loaded' \in Seq(Whole) /\ weights' \in Seq(Whole)
        /\ Len(loaded') = Len(loaded) + m /\ Len(weights') = 0
        /\ loaded' \o weights' = loaded'
    <3>1. loaded \in Seq(Whole)
      BY <1>0 DEF Delivered
    <3>2. loaded' \in Seq(Whole) /\ Len(loaded') = Len(loaded) + m
      BY <2>3, <2>4, <3>1, ConcatProperties
    <3>3. loaded' \o << >> = loaded'
      BY <3>2, ConcatEmptySeq
    <3> QED BY <2>4, <3>2, <3>3, EmptySeq
  <2>6. Len(loaded') + Len(weights') = Len(loaded) + m
        /\ Len(loaded) + m <= NumWeights
    BY <1>0, <1>a, <2>2, <2>5, NamesTyped DEF Delivered, m
  <2> QED BY <1>0, <2>3, <2>4, <2>5, <2>6 DEF Delivered
<1>5. CASE ~CopyTensor /\ ~CopyChunk /\ ~LoadBucket /\ ~LoadRaises
  <2>1. loaded' = loaded /\ weights' = weights
    <3>1. CASE ReceiveBucket
      BY <3>1 DEF ReceiveBucket, Inv, Control
    <3>2. CASE CopyDone \/ Sender \/ ReceiveHandle \/ ViewRaises \/ Acknowledge
               \/ UNCHANGED vars
      BY <3>2 DEF CopyDone, Sender, SendHandle, PackTensor, FlushBucket, FillChunk, SendChunk,
         SendLast, Acknowledged, ChunkAcknowledged, SendRaises, ReceiveHandle, ViewRaises,
         Acknowledge
    <3> QED BY <1>5, <3>1, <3>2 DEF Next, Receiver
  <2>2. receiver' # "failed" => expected' = expected /\ receiver # "failed"
    <3>1. receiver' # "failed" => receiver # "failed"
      BY <1>5 DEF Next, CopyDone, Sender, SendHandle, PackTensor, FlushBucket, FillChunk,
         SendChunk, SendLast, Acknowledged, ChunkAcknowledged, SendRaises, Receiver,
         ReceiveHandle, ReceiveBucket, ViewRaises, Acknowledge
    <3> QED BY <1>5, <3>1, ExpectedKept
  <2> QED BY <1>0, <2>1, <2>2 DEF Delivered
<1> QED BY <1>1, <1>2, <1>3, <1>4, <1>5

-----------------------------------------------------------------------------
(* The theorems. *)

\* The invariant holds before either process has done anything.
LEMMA InvInit == Init => Inv
<1> SUFFICES ASSUME Init PROVE Inv
  OBVIOUS
<1> USE DEF Init, NoMessage
<1>1. Types
  <2>1. nbytes \in [Names -> Nat]
    BY TransferAssumption
  <2>2. buffer \in [0 .. (BucketSize - 1) -> Int \X Int]
    BY DEF Garbage
  <2>3. name \in 1 .. (NumWeights + 1) /\ offset \in 0 .. BucketSize
    BY NamesTyped
  <2>4. bucket_meta \in Seq(Entries) /\ copies \in Seq(CopyRecords) /\ chunk_idx \in Nat
    BY EmptySeq
  <2> QED BY <2>1, <2>2, <2>3, <2>4 DEF Types
<1>2. Lockstep /\ Control /\ Filling /\ Copies /\ Messages
  BY NamesTyped DEF Lockstep, Control, Filling, Copies, Messages, Waiting
<1>3. Chunking
  BY DEF Chunking
<1>4. Chunked
  <2>1. progress = 0
    BY DEF progress
  <2>2. 0 .. (0 - 1) = {} /\ \A i \in Nat : ~(i < 0 * BucketSize)
    BY NamesTyped
  <2>3. received = [n \in Names |-> IF n = name /\ 0 < num_chunks(n)
                                    THEN 0 .. (0 - 1) ELSE {}]
    BY <2>2
  <2>4. chunk_data = [n \in Names |-> [i \in 0 .. (nbytes[n] - 1) |-> chunk_data[n][i]]]
    OBVIOUS
  <2>5. \A i \in 0 .. (nbytes[name] - 1) : ~(i < 0 * BucketSize)
    BY NamesTyped
  <2> HIDE DEF Init
  <2> QED BY <2>1, <2>3, <2>4, <2>5 DEF Chunked
<1>5. Delivered
  <2>1. expected = 0
    <3>1. Len(bucket_meta) = 0 /\ name - 1 - 0 = 0
      BY EmptySeq
    <3> QED BY <3>1 DEF expected
  <2>2. /\ loaded \in Seq(Whole) /\ weights \in Seq(Whole)
        /\ Len(loaded) = 0 /\ Len(weights) = 0 /\ loaded \o weights = << >>
    BY EmptySeq, ConcatEmptySeq
  <2>3. SubSeq(AllWeights, 1, 0) = << >>
    BY SubSeqEmpty
  <2> QED BY <2>1, <2>2, <2>3, NamesTyped DEF Delivered
<1> QED BY <1>1, <1>2, <1>3, <1>4, <1>5 DEF Inv

\* The invariant is inductive.
LEMMA InvNext == Inv /\ [Next]_vars => Inv'
<1> SUFFICES ASSUME Inv, [Next]_vars PROVE Inv'
  OBVIOUS
<1>1. Lockstep'
  BY LockstepNext DEF Inv
<1> QED
  BY <1>1, TypesStep, ControlStep, FillingStep, CopiesStep, MessagesStep, ChunkingStep,
     ChunkedStep, DeliveredStep DEF Inv

\* The invariant holds in every reachable state.
LEMMA AlwaysInv == Spec => []Inv
BY InvInit, InvNext, PTL DEF Spec

\* The invariant gives SentMeansReceived.
LEMMA InvSent == Inv => SentMeansReceived
<1> SUFFICES ASSUME Inv, sender = "done", receiver # "failed"
             PROVE  loaded \o weights = AllWeights
  BY DEF SentMeansReceived
<1>1. name = NumWeights + 1
  BY DEF Inv, Control
<1>2. Len(loaded) + Len(weights) = NumWeights
  BY <1>1, NamesTyped DEF Inv, Delivered, expected
<1>3. SubSeq(AllWeights, 1, NumWeights) = AllWeights
  BY AllWeightsSeq, SubSeqFull
<1> QED BY <1>2, <1>3 DEF Inv, Delivered

\* When send_weights has returned and the receiver has not failed, the tensors in
\* the model and those in the receiver's hands are all the tensors, in order and
\* byte for byte: the sender may release the buffer.
THEOREM SentIsReceived == Spec => []SentMeansReceived
BY AlwaysInv, InvSent, PTL

\* The transfer implements WeightUpdate under every interleaving of sender,
\* receiver and device, failures included: each load extends the model by the next
\* tensors, whole, and receive_weights returns only when the last is loaded.
THEOREM TransferRefines == Spec => ImplementsWeightUpdate
<1>1. Init => Update!Init
  BY DEF Init, Update!Init
<1>2. Inv /\ Inv' /\ [Next]_vars
        => [Update!Load]_<<AllWeights, loaded, receiver = "done">>
  <2> SUFFICES ASSUME Inv, Inv', [Next]_vars,
                      ~UNCHANGED <<AllWeights, loaded, receiver = "done">>
               PROVE  Update!Load
    OBVIOUS
  <2>0. AllWeights' = AllWeights
    BY DataKept
  <2>1. LoadBucket \/ LoadRaises
    BY <2>0 DEF Next, CopyDone, Sender, SendHandle, PackTensor, FlushBucket, FillChunk,
       SendChunk, SendLast, Acknowledged, ChunkAcknowledged, SendRaises, Receiver,
       ReceiveHandle, ReceiveBucket, CopyTensor, CopyChunk, Copying, ViewRaises, Acknowledge,
       vars, receiver_vars
  <2>2. receiver = "load" /\ weights' = << >>
    BY <2>1 DEF LoadBucket, LoadRaises
  <2>3. /\ loaded \in Seq(Whole) /\ weights \in Seq(Whole) /\ loaded' \in Seq(Whole)
        /\ Len(loaded') <= Len(AllWeights)
        /\ loaded' = SubSeq(AllWeights, 1, Len(loaded'))
        /\ Len(loaded) \in Nat /\ Len(loaded') \in Nat /\ Len(AllWeights) \in Nat
    <3>1. loaded \in Seq(Whole) /\ weights \in Seq(Whole)
      BY DEF Inv, Delivered
    <3>2. /\ loaded' \in Seq(Whole) /\ Len(loaded') + Len(weights') <= NumWeights
          /\ loaded' \o weights' = SubSeq(AllWeights, 1, Len(loaded') + Len(weights'))
      BY <2>0, DataKept DEF Inv, Delivered
    <3>3. Len(loaded) \in Nat /\ Len(loaded') \in Nat /\ Len(weights') = 0
          /\ Len(AllWeights) = NumWeights /\ NumWeights \in Nat
      BY <2>2, <3>1, <3>2, LenProperties, EmptySeq, AllWeightsSeq, NamesTyped
    <3>4. loaded' \o weights' = loaded' /\ Len(loaded') + Len(weights') = Len(loaded')
      BY <2>2, <3>2, <3>3, ConcatEmptySeq
    <3> QED BY <3>1, <3>2, <3>3, <3>4
  <2>4. Len(loaded) <= Len(loaded')
    <3>1. \E b \in Seq(Whole) : loaded' = loaded \o b
      <4>1. CASE LoadBucket
        BY <2>3, <4>1 DEF LoadBucket
      <4>2. CASE LoadRaises
        <5>1. PICK k \in DOMAIN weights : loaded' = loaded \o SubSeq(weights, 1, k - 1)
          BY <4>2 DEF LoadRaises
        <5>2. k \in 1 .. Len(weights) /\ Len(weights) \in Nat
          BY <2>3, LenProperties
        <5>3. k - 1 \in Int /\ 1 \in Int /\ \A i \in 1 .. (k - 1) : weights[i] \in Whole
          BY <2>3, <5>2, ElementOfSeq
        <5>4. SubSeq(weights, 1, k - 1) \in Seq(Whole)
          BY <5>3, SubSeqProperties
        <5> QED BY <5>1, <5>4
      <4> QED BY <2>1, <4>1, <4>2
    <3>2. PICK b \in Seq(Whole) : loaded' = loaded \o b
      BY <3>1
    <3>3. Len(loaded') = Len(loaded) + Len(b) /\ Len(b) \in Nat
      BY <2>3, <3>2, ConcatProperties, LenProperties
    <3> QED BY <2>3, <3>3
  <2>5. receiver' = "done" => loaded' = AllWeights
    <3> SUFFICES ASSUME receiver' = "done" PROVE loaded' = AllWeights
      OBVIOUS
    <3>1. LoadBucket /\ metadata.is_last
      BY <2>1 DEF LoadBucket, LoadRaises
    <3>2. sender \in {"done", "last_sent"} /\ (sender = "last_sent" => request = << >>)
      BY <3>1 DEF Inv, Control
    <3>3. expected = NumWeights
      <4>1. name = NumWeights + 1
        BY <3>2 DEF Inv, Control
      <4>2. CASE sender = "done"
        BY <4>1, <4>2, NamesTyped DEF expected
      <4>3. CASE sender = "last_sent"
        <5>1. reply /\ request = << >>
          BY <2>2, <3>2, <4>3 DEF Inv, Control, Waiting
        <5>2. MessageOK(metadata) /\ entry = Len(metadata.bucket_meta) + 1
          BY <2>2, <4>3, <5>1 DEF Inv, Messages, Waiting
        <5>3. Len(metadata.bucket_meta) \in Nat
          BY <4>3, <5>2, MessageSeq DEF Inv
        <5>4. name - 1 - Len(metadata.bucket_meta) + (entry - 1) = NumWeights
          BY <4>1, <5>2, <5>3, NamesTyped
        <5> QED BY <4>3, <5>1, <5>4 DEF expected
      <4> QED BY <3>2, <4>2, <4>3
    <3>4. Len(loaded) + Len(weights) = NumWeights
      BY <2>2, <3>3 DEF Inv, Delivered
    <3>5. loaded \o weights = AllWeights
      BY <3>4, AllWeightsSeq, SubSeqFull DEF Inv, Delivered
    <3> QED BY <3>1, <3>5 DEF LoadBucket
  <2>6. Len(loaded') \in Len(loaded) .. Len(AllWeights)
    BY <2>3, <2>4
  <2>7. /\ ~(receiver = "done")
        /\ \E n \in Len(loaded) .. Len(AllWeights) : loaded' = SubSeq(AllWeights, 1, n)
        /\ (receiver' = "done") \in BOOLEAN
    BY <2>2, <2>3, <2>6
  <2> QED BY <2>0, <2>5, <2>7 DEF Update!Load
<1> QED BY <1>1, <1>2, AlwaysInv, PTL DEF Spec, ImplementsWeightUpdate, Update!Spec

=============================================================================
