# vexact: a TLA+ verification project

vexact is an LLM inference engine for reinforcement learning whose answers must
not depend on what they are batched with.  Part of that promise is kept by GPU
kernels (every result is computed by the same operations in the same order), the
rest by the control code that decides which tokens of which request are fed at
which position, where their KV cache lives, which weights they meet and to whom
an output belongs.  This project models both.

## 1. Inventory

| component (under `src/vexact/`) | state | operations | hard behaviour |
|---|---|---|---|
| `core/scheduler.py` `Scheduler` | request and result queues, one slot of active requests per pipeline rank | `submit_request`, `schedule`, `update`, `poll_results` | three threads; preemption in the middle of planning; rotation of slots; requeueing by the queue's only consumer |
| `core/request.py` `InferenceRequest` | status, tokens, scores, progress, block table | `activate`, `should_finish`, `preempt`, `finish`, `fail` | folding of generated tokens at repeated preemption |
| `batch_invariant_ops/kv_cache_context.py` | free and allocated blocks | `allocate_blocks`, `free_blocks`, store kernel | ownership is recorded elsewhere (in the request) |
| `worker/driver_worker.py`, `inferencer/inferencer.py` | generation loop, input buffers | schedule, `infer`, update | outputs without ids, pipelined by `pp_size - 1` steps; packed scores |
| `distributed/pp_messager.py` | process groups of the ring | send / receive of contexts and outputs | blocking sends around a ring; threads that run ahead of their GPUs |
| `inferencer/cudagraph_utils.py`, `core/runtime_data.py` | captured graphs, static buffers | `dispatch`, `capture`, `replay` | padding, stale contents, outputs overwritten by the next replay |
| `inferencer/model_loader.py`, `models/*` | modules and parameters of a rank | `get_pp_indices`, `_apply_pp`, weight loading, forward | uneven splits, tied embeddings, three naming schemes of experts |
| `ipc/request_channel.py`, `worker/driver_client.py`, `engine.py` | one queue per request id | `submit`, receive loop, server loops | timeouts, late answers, clean-up that runs later |
| `ipc/control_channel.py` | REQ/REP sockets | `collective_rpc`, `_run` | partial failure |
| `worker/worker.py`, `worker_proxy.py`, `worker_proc_manager.py` | threads and processes | start, stop, READY handshake, shutdown | crashes during start-up, a parent that is killed |
| `integrations/verl/bucketed_weight_transfer.py` | shared buffer, chunk buffers | `send_weights`, `receive_weights` | lockstep protocol over one reused buffer |
| `integrations/verl/async_server.py`, `rollout.py`, `utils/torch_memory_saver_adapter.py` | memory regions, weight version | `generate`, `sleep`, `wake_up`, `receive_weights` | control operations beside a loop that never stops |
| `batch_invariant_ops/*` | device memory | matrix products, row reductions, attention, mixture of experts | grids, masks, tails, atomics, order of reductions |
| `utils/profiler.py`, `inferencer/sampler.py`, `config.py`, other `utils/*` | - | - | not modelled, see section 6 |

How they interact: a client (`VeXact`) sends requests over a ZeroMQ channel to
the driver process, whose input thread calls `submit_request` and whose output
thread calls `poll_results`.  The driver's generation loop runs `schedule`,
`infer`, `update` for ever; `infer` launches the model's kernels, sends the batch
down the ring of pipeline ranks and receives the oldest outstanding output.  The
control channel calls `sleep`, `wake_up` and `receive_weights` on all workers
from another thread, on behalf of veRL's trainer.

Every hazard found in this reading is listed, at its line, under `hazards` in
`PROJECT.json`, with the properties that cover it.

## 2. Modules

| module | models |
|---|---|
| `KVCacheManager`, `Request`, `Scheduler` | the block allocator; `InferenceRequest`; `Scheduler`, the generation loop and rank 0's half of `infer` |
| `ModelShards`, `Ring` | what each rank holds, loads and computes; all ranks at work |
| `Pipe` | the FIFO that `Scheduler` assumes of the inferencer; `Ring` implements it |
| `RequestChannel`, `ControlChannel`, `WorkerProcs` | the two channels; the processes of the ranks |
| `Serving` | these three composed around an abstract generation loop, with the veRL server and the trainer's calls |
| `WeightTransfer`, `WeightUpdate` | both sides of the bucketed transfer; what it promises, which it implements |
| `Tiles`, `DenseKernels`, `AttentionKernels`, `MoEKernels` | the kernels: tile arithmetic, matrix products and row reductions, attention and step metadata, mixture of experts |
| `KernelStream` | a device stream that runs their programs in any order, and what they must compute |
| `SchedulerProofs`, `ExactnessProofs` | theorems about `Scheduler`, the second building on the first |
| `RingProofs`, `ServingProofs`, `WeightTransferProofs` | theorems about `Ring`, `Serving` and `WeightTransfer` |
| `DenseProofs`, `MoEProofs`, `AttentionProofs` | theorems about `KernelStream`: the stream and the dense kernels; the mixture of experts; attention, and that no two programs disagree on a cell |
| `MCScheduler`, `MCRing`, `MCServing`, `MCWeightTransfer`, `MCKernels` | constants for TLC |

### Scheduler

A token is the pair of the request and the position it belongs to
(`[req, pos]`), and the model of the LLM is: fed with exactly the request's own
tokens at their own positions, it samples the request's next token; fed with
anything else, it samples a token with position -1.  So a token folded twice,
skipped, fed at a wrong position or given to another request is visible in the
answer.  A log-probability is named by the token it is of.

The threads of the driver share `_request_queue`, `_result_queue` and nothing
else, so the generation loop is cut at its queue operations (`AdmitRequest`
contains one `get`; the puts of `_preempt_request` and of the requeueing are the
actions `PutVictim` and `Requeue`, because they may block), and, to keep the
actions small, once per request in the planning loop of `schedule()` and in the
row loop of `update()`:

| action | code |
|---|---|
| `submit_request`, `poll_results` | the methods of the same name |
| `ScheduleBegin`, `SkipPreempted`, `PlanActive`, `ExtendActive`, `PreemptVictim`, `PutVictim`, `RetryExtend` | planning loop of `schedule()` with `_plan_tokens_for_request`, `_extend_or_preempt`, `_preempt_request` |
| `PlanDone`, `AdmitRequest`, `RejectHead`, `Requeue` | admission loop with `_activate_request` and fair share |
| `Dispatch` | snapshot, rotation, snapshot; the loop's early `continue` |
| `Infer` | `infer()` on rank 0; `pipe` holds the batches whose outputs are outstanding |
| `UpdateSkip`, `UpdateContinue`, `UpdateFinish`, `UpdateRaise`, `UpdateDone` | `update()`, one row at a time; `finished_requests`, a local of `update()`, put at the end or lost in the loop's `except` branch |

The slots are sequences in insertion order (`OrderedDict`); `min()` over them
picks the first of the least advanced.  `allocate_blocks` is a set with the one
list it returns, or the empty set for `None`.  In fair share, the code divides
floats and truncates; the model divides integers exactly, which differs only if
the rounding of a quotient crosses an integer.

### Ring

A rank is a CPU thread and a GPU.  The thread puts operations on its GPU's
`stream` and waits only for object messages (gloo) and where the code copies
between host and device (`Synchronized`: the copy at the end of
`_prepare_gen_ctx` and the `.cpu()` in `update()`).  Whether a gloo send returns
before it is received is not specified, so both are configurations
(`rendezvous`).  NCCL transfers happen when both streams have reached them and
read the sender's tensors while they run; `wait()` holds the stream, not the
thread.  Model outputs are the CUDA graph's own tensors, overwritten by every
replay.

What a rank computes is the sequence of weights it applies; `ModelShards` derives
it from the layer split, the modules kept by `_apply_pp` and the weights loaded
by name.  `ImplementsPipe` puts the two together: the n-th output received is
that of the n-th batch, has gone through every rank, and the ranks one after the
other apply the whole model.  This justifies the FIFO `pipe` of `Scheduler`.

### Serving

`RequestChannel` keeps the client's table of queues.  `submit()` registers the
queue and then awaits the send, which suspends only while the socket takes no
message (`sending`).  The send completes (`SendRequest`, `GenerateSends`), raises
(`SendRaises`, `GenerateFails`) or is cancelled by the timeout (`CancelSend`,
`GenerateTimesOut`).  The `try` whose `finally` removes the queue starts after
it, so in the last two cases the queue stays registered (`cut_off`); a request
whose send is cancelled may or may not have gone.  `generate()` takes the first
output of an async generator and drops it, so the generator's `finally` runs at a
later turn of the event loop (`CloseGenerator`); a timeout that cancels the
generator inside `queue.get()` is `Timeout`, and its `finally` runs at once.
`ControlChannel` has the two phases of `collective_rpc` one socket at a time,
and REQ sockets that refuse a second send.  `WorkerProcs` has the start of all
processes, the reports read in the order of the ranks, and a shutdown by death
pipe, `join`, `terminate` and `kill`.

`Serving` composes them.  A token is the vector of weight versions of the ranks
when it was sampled, or `Garbage` if a memory region it needs is released.  The
trainer waits for its samples, releases the memory, resumes the weights, updates
them and resumes the cache, each call awaited, as veRL does; nothing in vexact
itself makes the generation loop pause.  The uses that are explored (`Uses`) are
plain use with timeouts, and training with and without `free_cache_engine`.

### Weight transfer

The tensors to send (their sizes and item sizes) are chosen in the initial state
from the sets `Sizes` and `ItemSizes`; a byte is the pair of a tensor and a
position.  `copies` is the stream of asynchronous copies into the shared buffer,
done one by one by `CopyDone`; `synchronize()` is the guard that the stream is
empty.  The sockets hold at most one message each way, as REQ and REP do.
`PackTensor`, `FlushBucket` and `FillChunk` / `SendChunk` are the three cases of
`send_weights`, `Acknowledged` and `ChunkAcknowledged` its `recv()`;
`ReceiveBucket`, `CopyTensor`, `CopyChunk`, `Acknowledge` and `LoadBucket` are one
round of `receive_weights`, in the code's order: the acknowledgement precedes the
load.  `SendRaises`, `ViewRaises` and `LoadRaises` are the errors; each closes its
own side only.  `weights` is emptied after the load, where the code drops it at
the next bucket.  `WeightUpdate` sees only `loaded` and whether `receive_weights`
has returned.

### Kernels

A kernel is an operator from a launch, a program id and device memory to the
stores that program makes, pairs of a cell and a term.  The term records what was
read and in which order it was reduced, because floating-point addition does not
associate: two runs agree to the last bit if they compute the same term.  Lanes
of one tile are reduced by one instruction and form a unit; tiles are folded one
after the other.  Memory that was never written holds `Garbage`.  Host functions
are sequences of launches (`FusedForward`, `GraphStep`, ...) whose arguments
follow the code; torch operators between the kernels are launches of one program.
`KernelStream` runs a launch by running its programs in every order; atomics take
effect at once, stores when the launch has finished.

A tile whose keys are all masked contributes `exp2(-1e6 - m) = 0` and is dropped
from a fold; a lane read as 0 but not masked is kept and would be seen.  The
ranking of matmul configurations is abstracted to its result: any candidate.
Scale factors, dtypes, strides and the head dimension are left out.

### Assumptions

Names of tensors are distinct.  Prompts are not empty; the sampling parameters of
concurrent requests are equal (`_select_tokens` asserts it); `max_new_tokens` is
set.  In `Scheduler` request ids are unique and the loop is not shut down; in
`Serving` two calls that wait at the same time have different ids, and the calls of
a trained engine have no timeout, as `VeXactServer.generate` passes none.  A router
picks distinct experts for a token.  `CREATED` stands for a request its client has
not submitted yet.  Wall-clock times and log messages are left out.

## 3. Runs

| run | configuration | shows |
|---|---|---|
| `single` | one rank, chunked prefill, `FairSpec` | all safety properties of the scheduler, `AnswerFinal`, `EveryRequestAnswered` |
| `pipeline` | three slots, fair share, `FairSpec` | slots that compete for one cache: `OutputsAligned`, `TokensExact`, `EveryRequestAnswered` |
| `degraded` | chunking off, `max_queue_size = 1`, one request with logits, one with scores, one that meets eos | `BatchFits` when inputs are all or nothing, `PlacedOnce` under rejection: nothing lost when the loop is stuck in a put; when `update()` raises, exactly the requests that earlier rows of it had finished are lost (the loop then stops, so deadlock is not checked) |
| `ring` | one to three ranks, layers that divide evenly or not, tied or not, three kinds of checkpoint, two kinds of send, four batches, `FairSpec` | `NoCyclicWait`, `ImplementsPipe`, `OutputKeptUntilSent` |
| `serving` | two ranks, three calls whose sends may wait, fail or be cancelled, two weight updates, one failing worker method, one process fault, `FairSpec` | the properties of the engine |
| `transfer` | three tensors of sizes 0, 1, 2, 4, 5 or 9, items of 1 or 2, a bucket of 4, failures on both sides, `FairSpec` | `ImplementsWeightUpdate`, `BufferStable`, `SentMeansReceived`, `DeliveredOrFailed` |
| `kernels` | tiles of 1 to 4, sizes with full and partial tiles, histories of chunked prefill, decoding and a preemption, every routing of three tokens to two of three experts | each kernel computes the term of its row alone |
| `queue_stuck`, `never_replayed`, `mixed_scores`, `transfer_mixed`, `id_reuse` | expected violations | section 5 |

**Scheduler.**  `BlocksConserved` (each block free or owned once); `PlacedOnce`
(each request in one place, except those that a raising `update()` had already
finished, which are in none and never answered); `BatchFits` (a batch fits the input buffers and has
a token for everyone); `BatchCovered` (blocks cover exactly the positions
written); `TokensExact` (the answer is the continuation of the request's own
prompt); `OutputsAligned` (positional matching in the pipeline);
`LimitsRespected`; `ScoresExact`; `AnswerFinal` (nothing is written to a request
that was handed out); `EveryRequestAnswered`.

**Ring.**  `NoCyclicWait` (never is every rank waiting for another);
`ImplementsPipe` (FIFO, the whole model, every batch answered);
`OutputKeptUntilSent` (no replay overwrites an output that is being sent).

**Serving.**  `OwnResult` (a call returns the complete answer to its own request,
in spite of timeouts and late answers); `StepsTrue` (an answer is sampled on one
version of the weights, the one reported with it); `ComputesMapped` (no token is
computed on released memory); `SocketsReady` (a collective call leaves nothing
behind, also when a method raised); `QueuesCleaned` (no queue outlives its call,
unless the call ended while its request was being sent); `NoOrphans` (no process
stays when the start fails, the engine is closed or the parent is killed);
`EveryCallAnswered`.

**Weight transfer.**  `ImplementsWeightUpdate` (what is loaded is always a prefix
of what was sent, and all of it when `receive_weights` returns), `BufferStable`
(no write to the buffer while it is read), `SentMeansReceived` (when
`send_weights` returns the receiver has every byte), `DeliveredOrFailed` (unless a
side raises, both loops end and everything is loaded).

**Kernels.**  `WrittenOnce` (no two programs store different terms in a cell);
`DenseExact` (matrix products and row reductions); `PagedExact` (the paged kernel
folds a request's own keys in the same tiles whatever the chunk, the batch, the
blocks and the padding); `PackedExact`, `GradExact` (the training kernels: the
same tiles, so training and rollout agree); `FlexExact` (the keys flex attention
attends to, as a set); `CacheKept` (no key or value is overwritten before a later
batch is given its slot); `DispatchSorted`, `MoEExact`, `MoEGradExact` (dispatch
by atomics or by sorting, the layer and its gradients: of a token, of its gates,
and of each of the three weights of an expert, over exactly the tokens routed to
it).

**Bounds.**  Scheduler: three requests are the least with a victim, a beneficiary
and a bystander; three new tokens let a request be preempted after having
generated, again after the re-prefill, and finish; the cache is large enough for
each request alone and too small for all together; three slots are the least in
which the slot sent, the slot updated and another differ.  Ring: three ranks are
the least with a middle one, four batches go once round and wrap.  Serving: two
ranks can disagree about weights and memory, three calls can be one answered, one
late and one waiting; two updates let a stale version be seen.  Transfer: three
tensors make a bucket that is left open, one that closes it and one after it; the
sizes lie on both sides of every comparison with the bucket size.  Kernels: every
size has full and partial tiles, groups of tiles that are smaller than the others,
and programs with nothing to do.  Requests, calls and ranks differ from each
other, so no symmetry is used.  A transfer, a stream of kernels and an engine that
is closed end, so deadlock is not checked there; in `ring` it is.  Each property
is broken by a plausible mutation of the code (listed under `mutants`), so the
bounds let the case happen.

**Fairness.**  `FairSpec` of `Scheduler` has weak fairness of the generation loop
and of `poll_results`: each is a thread that runs `while not shutdown`, and
Python's threads are all scheduled.  Nobody is obliged to submit.  `FairSpec` of
`WeightTransfer` has weak fairness of the two processes, which only ever block in
a `recv`, and of the device, which completes the copies it is given.  `Ring` has it
for every rank's thread and GPU; that another batch is issued is not assumed
(`Schedule` may find no request for ever).  `Serving` has it for the threads and
event loop of the engine, for the steps of start-up and shutdown (which include
the collection of the failed manager and the timeout of a process group that is
not complete), and for a collective call in progress; nobody has to call, train,
close or fail.

## 4. Proofs

Theorems hold for every value of the constants that satisfies the `ASSUME`s
(TLC evaluates them in every run).  Each rests on an inductive invariant that TLC
checked on the run's instance before it was proved.

| module | theorems | for every |
|---|---|---|
| `SchedulerProofs` | `TypeCorrect`, `RequestsPlacedOnce`, `BlocksAreConserved`, `BatchesFit`, `BatchesAreCovered` | finite set of requests; cache, page, batch and queue size; number of slots; chunked or not |
| `ExactnessProofs` | `TokensAreExact`, `OutputsAreAligned`, `LimitsAreRespected`, `ScoresAreExact`, `AnswersAreFinal` | the same |
| `RingProofs` | `NeverAllWait`, `OutputsAreKept`, `RingIsPipe` | number of ranks and batches, with either kind of send |
| `ServingProofs` | `EngineTypes`, `CallsGetTheirOwn`, `StepsAreTrue`, `ComputesOnMapped`, `CallsLeaveNoReply`, `QueuesAreCleaned` | calls, ids, ranks, tokens, updates and failing methods |
| `WeightTransferProofs` | `BufferIsStable`, `SentIsReceived`, `TransferRefines` | number and size of tensors, bucket size, failures on both sides |
| `DenseProofs` | `DenseIsExact` | shape, tile shape, group of tiles, number of SMs, row block; order of the programs |
| `MoEProofs` | `DispatchIsSorted`, `MoEIsExact`, `MoEGradIsExact` | number of tokens, experts and choices, routing, hidden and intermediate size, tile and block sizes; order of the programs and of their atomics; fused or with the external GEMM |
| `AttentionProofs` | `PackedIsExact`, `GradIsExact`, `CacheIsKept`, `PagedIsExact`, `FlexIsExact`, `WrittenIsOnce` | number and lengths of sequences and cached prefixes, heads and groups, tile shapes; history of batches, chunks, block tables, size of pages, of the cache and of the buffers; order of the programs |

**SchedulerProofs.**  `IInv` is `TypeOK` with four parts.  `WaitingOnce`,
`RunningOnce` and `AnsweredOnce` tie a request's status to the one container it
is in; they are mutually dependent (a request leaves one for another) and type
correctness needs `RunningOnce`, because a snapshot of a slot is typed as the
slot itself only if it filters nothing.  `InputKept` (the input is never shorter
than the prompt) is what makes the slice of `preempt()` start inside the list.
`WaitingOnce` also says that the loop holds a request exactly between the get
and the put, which `PlacedOnce` alone does not.  `FinishedRows` says that the rows
`update()` has passed and not answered are in `finished_requests`.
`RequestsPlacedOnce` adds to `IInv` that a request lost by a raise is in no result
and was not polled (`LostUnanswered`): lost is exact, neither more nor fewer.  Block ownership is inductive
over `IInv`: `AllocatedAreFree` (an allocation is a list of distinct free
blocks), `TakeKeepsBlocks` and `FreeKeepsBlocks` carry it through the four
actions that touch the cache.

The second half of the module is about capacity.  `CInv` adds how far each request is (`Progress`), and why the
budget suffices although it is not checked against what is already active:
`OnePrefill` says that only the last request of a slot can be in the middle of its
prefill, since the one before it would have taken the rest of the budget.  So all
others take one token each, and a slot that once fitted still fits (`Budgeted`).
`Covered` says that a running request owns exactly the blocks of its positions,
except the request the planning loop is at, which may lack one.  Once another
request was preempted for it a block is free, so the failure of the retry in
`_extend_or_preempt` is unreachable.  Rows of the input buffers are counted as the
cardinality of a set of pairs (`BatchRows`), because sums are folds.

**ExactnessProofs.**  Outputs carry no ids, so `XInv` adds an order to `CInv`:
`InPipe` says that every busy slot but the base has one output in the pipeline, and
that the outputs are in the order in which the rotation reaches their slots.
Rotation makes the next slot the base; its output, if it has one, is the oldest
(`Matched`).  That output was sampled from an exact context, since its requests
were planned (`Progress`) and their inputs are their own tokens.  `ScoresAreExact`
has the hypothesis `OutputScores \in {{}, Requests}`: all requests ask for scores
or none does.  Without it the statement is false (run `mixed_scores`).

**RingProofs.**  `RInv` has three layers.  Threads: the slots hold the batches in
flight (`InSlots`), and what is between two ranks is what one has put and the other
has not taken (`Channels`).  GPUs of the other ranks: each runs through receive,
wait, forward, send, wait, and where it is in this cycle tells what it holds
(`Workers`).  GPU of rank 0, whose thread launches transfers in an order that
depends on whether there is something to update (`Device0`).  `NeverAllWait`: if
all wait and rank 0 waits for an output, every channel is empty, yet a batch is in
flight; if rank 0 waits to send, every rank holds a batch it cannot hand over,
which is more than the slots hold.  `OutputsAreKept` follows from the order of the
stream alone: a `wait_send` precedes the next replay.  `RingIsPipe` is the safety
part of `ImplementsPipe`, under the hypothesis `ExactSplits = Configs`, that the
split of layers loses nothing.  This is about folds over layers and stays with
TLC: in the run `ring` a lossy split would answer batch 0 and violate
`ImplementsPipe`.

**ServingProofs.**  `Registered` (which says what a `cut_off` call leaves),
`Ahead`, `Behind` and `Own` follow a request from the call through the sockets,
queues and the driver to the answer; `Sockets`, `Calling`, `Memory` and `Versions`
follow the trainer through its collective calls, rank by rank.  They meet in
`Tokenized`: tokens are sampled only while some call waits, and the trainer waits
for its samples before it releases memory or sends weights, so all tokens of an
answer have one version.  `CallsGetTheirOwn` has the hypothesis `DistinctIds \/
\A u \in Uses : ~u.timeouts`: an id may be reused, or calls may time out, but not
both, or the late answer to the first call is put in the queue of the second.
`StepsAreTrue` and `ComputesOnMapped` need that the calls of a trained engine do
not time out (`ServingAssumption`, `async_server.py:264`); a call that timed out
would leave a request that generates on while memory is released.

**WeightTransferProofs.**  `Lockstep` says that a message, a bucket being copied
out and an acknowledgement exclude each other, that each means the sender waits,
and that a waiting sender has no copy outstanding.  `Inv` adds where the bytes of a
tensor are: planned in the bucket (`Filling`), in copies under way (`Copies`),
announced (`Messages`), in the receiver's chunk buffer (`Chunking`, `Chunked`), or
in the list handed over (`Delivered`).  With it each step of the transfer is a step
of `WeightUpdate` or leaves it alone.

**DenseProofs.**  A stream may run any job that satisfies `JobsAssumption`: launches
of the kernels modelled (`KernelNames`), the dense ones made by their host functions
(`DenseLaunch`); the layers and inputs of a mixture of experts are those of `MoEJob`,
and likewise for attention (`PackedJob`, `PagedJob`).  `Stream` says that a launch
without atomics has stored exactly what the programs that have run store, given the
memory the launch began with; so at its end memory is that memory overwritten by
`AllStores`, whatever the order was.  What is left is about one launch: a *sound*
lemma (every store is the term of its cell, so two programs never disagree) and a
*complete* one (every cell is stored).  Completeness of the matrix product is the
arithmetic of `get_pid_mn`: every tile is taken by some program (`TileIsTaken`),
the smaller last group included, and no program leaves the grid (`TileInRange`).
`FlatChunks` says that the tiles of a row, one after the other, are the row.

**MoEProofs.**  `Dispatch` follows the two kernels with atomics step by step: the
histogram counts the pairs of the programs that have run; the counter of an expert is
its last row minus what was reserved, the reserved rows are distinct and lie between
the counter and the last row, and a program that has passed an expert has rows for
all its pairs of that expert.  When the counters are used up, pairs and rows
correspond one to one (`DispatchSorted`).  The sort of the other path gives each pair
its rank, which is also such a row (`RankSorts`).  `Values` says of each tensor that
has been made that it holds, at the row of a pair, a term of that pair alone; it has
one lemma per kernel.  The launches for the gradients are made for `T` rows per
expert; that suffices because the experts of a token are distinct, so no expert has
more than `T` rows (`OneRowPerToken`).

**AttentionProofs.**  A packed job is one of `PackedJob`: the launches of
`_NonpagedFlashAttentionVarlen`, forward and backward, whose tiles of keys divide its
tiles of queries (128 or 32 by 64 or 32 in the code) and whose queries are the last
tokens of their sequences.  The forward loop folds the tiles below the block of
queries unmasked and those of the block masked; the lemmas about `Ascending` and
`NonEmpty` show that what is left for a query are the tiles of its keys 0 to its
position, whichever block it is in, which is `Alone`.  The backward kernels fold tiles
of other sizes; flattened, these are the kept keys or queries in ascending order
(`FlatKept`, `FlatFlat`).  Each kernel is sound and complete as in `DenseProofs`, and
`PackedValues` says that the tensors of the launches that are done hold their terms,
the log-sum-exp that both backward kernels read included.

A paged job is one of `PagedJob`: a history of inferencer steps, each of four launches
(prepare the metadata, store keys, store values, attend), eager, padded into the
buffers of a CUDA graph, or with flex attention.  What it assumes of the batches is
what the scheduler is proved to guarantee: an entry has blocks for its positions
(`BatchCovered`), no block belongs to two requests (`BlocksConserved`), a batch fits
the buffers (`BatchFits`), and the keys before a chunk were computed by earlier steps
in blocks the request still has.  A graph step has found a captured shape inside the
buffers (`_forward` raises if there is none, `capture` refuses one that is larger).
`PagedValues` has three parts, each about the launches done so far.  `CacheOk`: every
token of every step whose store is done is in its slot, unless a later batch takes
that slot; it is what ties a step to all earlier ones.  `MetaOk`: during a step the
metadata describes its batch, and the padded rows have slot -1 and an empty context;
here the resets of the static buffers matter.  `OutOk`: after a step each token has
its attention.  A step then goes through: padded rows store nothing (`StoreIs`); slots
of a batch are distinct (`SlotsApart`), so a store overwrites only what its batch
takes; before the attention launch every key up to the end of each chunk is in its
slot (`CachedReady`); the page table leads to it (`PageIs`), or for flex attention the
inverted table back from it (`LogicalIs`, `SeesIs`).

`WrittenIsOnce` is about all four families of kernels and rests on all their
invariants, so it comes last.  For dense, packed and paged kernels it is soundness
read twice: two stores in one cell are both the term of that cell, since queries, keys, tokens and slots have cells
of their own (`QueriesApart`, `KeysApart`, `TokensApart`, `SlotsApart`).  For the
mixture of experts it needs the invariant of the dispatch: a row has one pair
(`SortOnce`, `ScatterOnce`), and the rows of two experts do not meet (`GroupsApart`),
although the grid of a grouped GEMM is laid out for more rows than an expert has.
For the buffers of a CUDA graph it is that the batch replaces the reset values and
the padding replaces both (`OverOnce`).

**Only model-checked.**  Liveness (`EveryRequestAnswered`, `EveryCallAnswered`,
`DeliveredOrFailed`, `NoOrphans`, and that every batch of `ImplementsPipe` is
answered) rests on fairness, which is out of the prover's reach.  The
induction theorems of the library take an operator and cannot be used; an induction is
done through the least counterexample (`LeastNat`), and a fold by giving the function
of its partial results and showing that it is the only one (`FlattenIs`,
`FoldIsTotal`).  `ExactSplits`, which nests folds over layers, is checked by TLC.  Every
invariant that a passing run checks is a theorem, two of them under the hypotheses
named above (`ScoresAreExact`, `CallsGetTheirOwn`).

## 5. Disagreements found

1. `queue_stuck`.  With `max_queue_size` set, the loop's blocking `put` of a
   request it has just taken waits for itself when a client filled the place.
2. `never_replayed`.  Without chunked prefill, a preempted request whose prompt
   plus generated tokens exceeds `max_num_batched_tokens` is never admitted
   again, and is requeued for ever.
3. `mixed_scores`.  If requests with and without `output_scores` share a batch,
   log-probabilities are shifted to other requests, and the last scored request
   can hit an assert that ends the generation loop (`UpdateRaise`, in the run
   `degraded`).  Requests that earlier rows of that `update()` had finished are in
   its local list and are lost with it (`scheduler.py:213`, 232-235).  The veRL server sets `output_scores` for every request and is
   not affected.
4. `transfer_mixed`.  Tensors are packed without alignment, and the receiver
   views a slice of bytes as the tensor's dtype; after a bfloat16 tensor with an
   odd number of elements, a float32 tensor cannot be viewed, `receive_weights`
   raises before it acknowledges, and `send_weights` waits for ever.
5. `id_reuse`.  A call that reuses the request id of one that has just returned
   registers its queue before the first one's dropped generator is closed; the
   close removes it, the answer is dropped, and without a timeout the call waits
   for ever.

## 6. Not modelled, and the plan

Left out: sampling (a distribution over logits), the tuning tables and cost model
of the kernels, the gradient of `rms_norm`, `flash_attention.py` (a wrapper of an
external kernel), `standalone_logprobs.py`, the mask of unpaged flex attention,
patches of the transformers library, tokenizers, configuration, logging, the
profiler's window, launching over Ray, HTTP, and the examples.  Not modelled
because the code does not handle them: a worker that dies while it serves, and
two concurrent requests with one id.

Known limits of what is shown: flex attention reduces in the order of physical
slots, so its sums depend on the blocks a request was given (`FlexExact` is about
the set of keys); `build_capture_sizes` rounds up, and `capture` refuses a maximum
that is not a power of two.

Two defects are stated inside a property that otherwise holds and not by a run of
their own: the requests lost by a raising `update()` (`PlacedOnce`,
`LostByRaise`), and the queue that stays registered when a call ends at the await
of `request_channel.py:77`, before the `try` of line 79 (`QueuesCleaned`).  The
reply of `_on_request` to a full queue is not in `Serving`: it needs a
`max_queue_size` that is not the default; the full queue itself is in `Scheduler`
(`submit_request`).  No property covers the reuse of an id by calls that wait at
the same time, or a `wake_up` with several tags, of which only the first is
resumed (see `hazards` in `PROJECT.json`).

A proof that would follow: that the shutdown of `WorkerProcs` leaves no process
that is not told to end (the safety part of `NoOrphans`).
