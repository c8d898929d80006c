-------------------------------- MODULE Ring --------------------------------
(***************************************************************************)
(* The pipeline ranks at work: Inferencer.infer on every rank              *)
(* (vexact/inferencer/inferencer.py), PPMessager between them              *)
(* (vexact/distributed/pp_messager.py) and the two generation loops        *)
(* (vexact/worker/driver_worker.py, worker.py), over the model of module   *)
(* ModelShards.                                                            *)
(*                                                                         *)
(* Every rank is a CPU thread and a GPU.  The thread launches work on the  *)
(* GPU's stream and runs ahead of it; it waits for other threads in the    *)
(* object messages (gloo), and for its own GPU only where the code copies  *)
(* between host and device.  Tensors move between the GPUs (NCCL) when the *)
(* sender's and the receiver's streams have both got there.                *)
(***************************************************************************)
EXTENDS ModelShards

CONSTANTS Configs,     \* the configurations to run: ModelShards' fields and
                       \* rendezvous, whether a gloo send waits for its receiver
          MaxBatches   \* bound: how many batches the scheduler issues

ASSUME RingAssumption ==
  /\ \A c \in Configs : c.pp_size \in Nat \ {0}
  /\ MaxBatches \in Nat

VARIABLES
  config,
  inflight,      \* per slot, the batch its active requests were sent in, or 0
  current_batch_idx,
  issued,        \* how many batches schedule() has returned
  answered,      \* the outputs handed to update(), oldest first
  to_update,     \* rank 0: whether batch_to_update has requests
  pc,            \* where each rank's thread is
  gen_ctx,       \* the batch in each rank's hands, 0 for None
  objects,       \* the object messages from each rank to the next
  stream,        \* the operations each rank's GPU has still to do
  sends, recvs,  \* the transfers its NCCL streams have begun and not finished
  received,      \* per rank, the tensors last received
  outputs        \* per rank, the (static) output tensors of its model

loop_vars == <<inflight, current_batch_idx, issued, answered, to_update>>

gpu_vars == <<sends, recvs, received, outputs>>

vars == <<config, loop_vars, pc, gen_ctx, objects, stream, gpu_vars>>

pp_size == config.pp_size

Ranks == 0 .. (pp_size - 1)

is_last_rank(r) == r = pp_size - 1

\* The pair groups make a ring; with two ranks there are two groups of the same
\* pair, one for each direction.
next_rank(r) == (r + 1) % pp_size

prev_rank(r) == (r + pp_size - 1) % pp_size

NoTensor == [batch |-> 0, hidden |-> << >>]

Init ==
  /\ config \in Configs
  /\ inflight = [k \in Ranks |-> 0]
  /\ current_batch_idx = 0
  /\ issued = 0
  /\ answered = << >>
  /\ to_update = FALSE
  /\ pc = [r \in Ranks |-> IF r = 0 THEN "schedule" ELSE "recv_gen_ctx"]
  /\ gen_ctx = [r \in Ranks |-> 0]
  /\ objects = [r \in Ranks |-> << >>]
  /\ stream = [r \in Ranks |-> << >>]
  /\ sends = [r \in Ranks |-> << >>]
  /\ recvs = [r \in Ranks |-> 0]
  /\ received = [r \in Ranks |-> [ctx |-> 0, out |-> NoTensor]]
  /\ outputs = [r \in Ranks |-> NoTensor]

Goto(r, label) == pc' = [pc EXCEPT ![r] = label]

Launch(r, ops) == stream' = [stream EXCEPT ![r] = @ \o ops]

\* A copy between host and device waits for everything launched before it.
Synchronized(r) == stream[r] = << >>

-----------------------------------------------------------------------------
\* Mutant: rank 0 sends its batch on before it receives the oldest output.
next_call_send_first(r, done) ==
  IF pp_size = 1 THEN "update"
  ELSE IF r # 0 THEN IF done = "send" THEN "recv_gen_ctx" ELSE "send"
  ELSE IF done = "forward" /\ gen_ctx[0] # 0 THEN "send"
  ELSE IF done # "recv_infer_out" /\ to_update THEN "recv_infer_out"
  ELSE IF to_update THEN "update" ELSE "schedule"

\* The order of the calls in infer(): what follows when one is done.  Rank 0
\* receives the oldest output before it sends its own batch on.
next_call(r, done) ==
  IF pp_size = 1 THEN "update"
  ELSE IF r # 0 THEN IF done = "send" THEN "recv_gen_ctx" ELSE "send"
  ELSE IF done = "forward" /\ to_update THEN "recv_infer_out"
  ELSE IF done # "send" /\ gen_ctx[0] # 0 THEN "send"
  ELSE IF to_update THEN "update" ELSE "schedule"

-----------------------------------------------------------------------------
(* PPMessager. *)

\* Mutant: the requests are not waited for.
send_batch_tensor_nowait(b) == <<<<"isend", b>>>>

\* wait() makes the stream, not the thread, wait for the transfer.
_send_batch_tensor(b) == <<<<"isend", b>>, <<"wait_send", b>>>>

_recv_batch_tensor(b) == <<<<"irecv", b>>, <<"wait_recv", b>>>>

\* send_gen_ctx and send_infer_out: the object list first ...
_send_object_list(r) ==
  /\ pc[r] = "send"
  /\ objects' = [objects EXCEPT ![r] = Append(@, gen_ctx[r])]
  /\ Goto(r, "sending")
  /\ UNCHANGED <<config, loop_vars, gen_ctx, stream, gpu_vars>>

\* ... and the tensors once that call has returned.
SendTensors(r) ==
  /\ pc[r] = "sending"
  /\ config.rendezvous => objects[r] = << >>
  /\ Launch(r, _send_batch_tensor(gen_ctx[r]))
  /\ Goto(r, next_call(r, "send"))
  /\ UNCHANGED <<config, loop_vars, gen_ctx, objects, gpu_vars>>

-----------------------------------------------------------------------------
(* Rank 0: the driver's generation loop. *)

\* schedule(), seen from the inferencer: the slot at hand gets a batch or is
\* left without requests, the slot rotated to is the one to update.  The loop
\* goes round at once when neither has any.
Schedule ==
  /\ pc[0] = "schedule"
  /\ \E b \in {0, issued + 1} :
       /\ b <= MaxBatches
       /\ inflight' = [inflight EXCEPT ![current_batch_idx] = b]
       /\ issued' = IF b = 0 THEN issued ELSE b
       /\ gen_ctx' = [gen_ctx EXCEPT ![0] = b]
       /\ current_batch_idx' = (current_batch_idx + 1) % pp_size
       /\ to_update' = (inflight'[current_batch_idx'] # 0)
       /\ Goto(0, IF b = 0 /\ ~to_update' THEN "schedule" ELSE "infer")
  /\ UNCHANGED <<config, answered, objects, stream, gpu_vars>>

\* _prepare_gen_ctx ends with a blocking copy of the input ids; _forward only
\* launches.
PrepareAndForward ==
  /\ pc[0] = "infer"
  /\ gen_ctx[0] # 0
  /\ Synchronized(0)
  /\ Launch(0, <<<<"forward", gen_ctx[0]>>>>)
  /\ Goto(0, next_call(0, "forward"))
  /\ UNCHANGED <<config, loop_vars, gen_ctx, objects, gpu_vars>>

\* Without a batch rank 0 only receives.
SkipForward ==
  /\ pc[0] = "infer"
  /\ gen_ctx[0] = 0
  /\ Goto(0, next_call(0, "forward"))
  /\ UNCHANGED <<config, loop_vars, gen_ctx, objects, stream, gpu_vars>>

recv_infer_out ==
  /\ pc[0] = "recv_infer_out"
  /\ objects[prev_rank(0)] # << >>
  /\ objects' = [objects EXCEPT ![prev_rank(0)] = Tail(@)]
  /\ Launch(0, _recv_batch_tensor(Head(objects[prev_rank(0)])))
  /\ Goto(0, next_call(0, "recv_infer_out"))
  /\ UNCHANGED <<config, loop_vars, gen_ctx, gpu_vars>>

\* scheduler.update() begins with .cpu(), which waits for the GPU.
Update ==
  /\ pc[0] = "update"
  /\ Synchronized(0)
  /\ answered' = Append(answered, IF pp_size = 1 THEN outputs[0] ELSE received[0].out)
  /\ to_update' = FALSE
  /\ Goto(0, "schedule")
  /\ UNCHANGED <<config, inflight, current_batch_idx, issued, gen_ctx, objects,
                 stream, gpu_vars>>

-----------------------------------------------------------------------------
(* The other ranks: Worker._generation_loop calls infer([]) for ever. *)

recv_gen_ctx(r) ==
  /\ pc[r] = "recv_gen_ctx"
  /\ objects[prev_rank(r)] # << >>
  /\ LET b == Head(objects[prev_rank(r)])
     IN  /\ gen_ctx' = [gen_ctx EXCEPT ![r] = b]
         /\ Launch(r, _recv_batch_tensor(b) \o <<<<"forward", b>>>>)
  /\ objects' = [objects EXCEPT ![prev_rank(r)] = Tail(@)]
  /\ Goto(r, next_call(r, "forward"))
  /\ UNCHANGED <<config, loop_vars, gpu_vars>>

-----------------------------------------------------------------------------
(* The GPUs. *)

\* The model of rank r on batch b: hidden is the sequence of ranks that a
\* hidden state has gone through.  The KV-cache context and the hidden states
\* come from what was received last; a mixture belongs to no batch.
model_output(r, b) ==
  LET in == received[r]
  IN  IF r = 0 THEN [batch |-> b, hidden |-> <<0>>]
      ELSE [batch |-> IF in.ctx = b /\ in.out.batch = b THEN b ELSE 0,
            hidden |-> Append(in.out.hidden, r)]

NextOp(r, kind) == stream[r] # << >> /\ Head(stream[r])[1] = kind

Advance(r) ==
  /\ stream' = [stream EXCEPT ![r] = Tail(@)]
  /\ UNCHANGED <<config, loop_vars, pc, gen_ctx, objects>>

\* The output tensors are the graph's own: every replay overwrites them.
RunForward(r) ==
  /\ NextOp(r, "forward")
  /\ outputs' = [outputs EXCEPT ![r] = model_output(r, Head(stream[r])[2])]
  /\ Advance(r)
  /\ UNCHANGED <<sends, recvs, received>>

BeginSend(r) ==
  /\ NextOp(r, "isend")
  /\ sends' = [sends EXCEPT ![r] = Append(@, Head(stream[r])[2])]
  /\ Advance(r)
  /\ UNCHANGED <<recvs, received, outputs>>

BeginRecv(r) ==
  /\ NextOp(r, "irecv")
  /\ recvs' = [recvs EXCEPT ![r] = @ + 1]
  /\ Advance(r)
  /\ UNCHANGED <<sends, received, outputs>>

FinishWait(r) ==
  /\ \/ NextOp(r, "wait_send") /\ sends[r] = << >>
     \/ NextOp(r, "wait_recv") /\ recvs[r] = 0
  /\ Advance(r)
  /\ UNCHANGED gpu_vars

\* The transfer reads the sender's tensors while it runs, not when it began.
Transfer(r) ==
  /\ sends[r] # << >>
  /\ recvs[next_rank(r)] > 0
  /\ received' = [received EXCEPT ![next_rank(r)] =
                    [ctx |-> Head(sends[r]), out |-> outputs[r]]]
  /\ sends' = [sends EXCEPT ![r] = Tail(@)]
  /\ recvs' = [recvs EXCEPT ![next_rank(r)] = @ - 1]
  /\ UNCHANGED <<config, loop_vars, pc, gen_ctx, objects, stream, outputs>>

-----------------------------------------------------------------------------

Thread(r) ==
  \/ _send_object_list(r) \/ SendTensors(r)
  \/ r = 0 /\ (Schedule \/ PrepareAndForward \/ SkipForward \/ recv_infer_out \/ Update)
  \/ r # 0 /\ recv_gen_ctx(r)

Gpu(r) == RunForward(r) \/ BeginSend(r) \/ BeginRecv(r) \/ FinishWait(r) \/ Transfer(r)

Next == \E r \in Ranks : Thread(r) \/ Gpu(r)

Spec == Init /\ [][Next]_vars

\* The ranks of the largest configuration.
AllRanks == UNION {0 .. (c.pp_size - 1) : c \in Configs}

\* Threads and GPUs keep running; whether another batch is issued is not up to
\* them.
FairSpec ==
  /\ Spec
  /\ \A r \in AllRanks : WF_vars(r \in Ranks /\ Thread(r)) /\ WF_vars(r \in Ranks /\ Gpu(r))

-----------------------------------------------------------------------------
(* Properties. *)

WholeRoute(c) == [i \in 1 .. c.pp_size |-> i - 1]

\* The configurations whose ranks, one after the other, compute the whole model.
ExactSplits ==
  {c \in Configs :
     FlattenSeq([i \in 1 .. c.pp_size |-> forward(c, i - 1)]) = WholeForward(c)}

\* The batches answered, 0 for an output that is not the whole model's.
answered_batches ==
  [i \in DOMAIN answered |->
     IF config \in ExactSplits /\ answered[i].hidden = WholeRoute(config)
     THEN answered[i].batch ELSE 0]

pipe == INSTANCE Pipe WITH depth <- pp_size, answered <- answered_batches

\* The ring implements the FIFO that the scheduler relies on: outputs come back
\* in the order of the batches, each computed by every layer once, in order,
\* with the weights of the checkpoint, for any split of the layers, tied or
\* not; and every batch is eventually answered.
ImplementsPipe == pipe!Spec

\* A thread that waits for another rank's thread.
Waits(r) ==
  \/ pc[r] \in {"recv_gen_ctx", "recv_infer_out"} /\ objects[prev_rank(r)] = << >>
  \/ pc[r] = "sending" /\ config.rendezvous /\ objects[r] # << >>

\* Blocking sends round a ring never leave every rank waiting for another one,
\* however the ranks interleave and although all of them may hold a batch: rank 0
\* takes the oldest output off the ring before it puts its own batch on it.
NoCyclicWait ==
  \E r \in Ranks :
    \/ ~Waits(r)
    \/ stream[r] # << >>

\* CUDA-graph outputs are static: a replay never overwrites the output of the
\* previous batch while a transfer to the next rank may still read it.
OutputKeptUntilSent ==
  [][\A r \in Ranks : outputs'[r] # outputs[r] => sends[r] = << >>]_vars

=============================================================================
