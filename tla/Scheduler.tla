----------------------------- MODULE Scheduler -----------------------------
(***************************************************************************)
(* The continuous-batching core of the driver process: class Scheduler     *)
(* (vexact/core/scheduler.py) driven by DriverWorker._generation_loop      *)
(* (vexact/worker/driver_worker.py), over the requests of module Request   *)
(* and the block allocator of module KVCacheManager.                       *)
(*                                                                         *)
(* Three threads meet here: the request server's thread calls              *)
(* submit_request, the generation loop runs schedule / infer / update      *)
(* forever, and the result thread calls poll_results.  They share the two  *)
(* queues only, so the loop is cut into steps at its queue operations; the *)
(* planning and update loops take one step per request.                    *)
(*                                                                         *)
(* The inferencer is abstract: pipe is the FIFO of batches that rank 0 has *)
(* sent down the pipeline and whose outputs have not been received yet.    *)
(***************************************************************************)
EXTENDS Integers, FiniteSets, Sequences, SequencesExt, KVCacheManager, Request

CONSTANTS
  PPSize,                \* pp_info.pp_size
  MaxNumBatchedTokens,   \* config.max_num_batched_tokens
  MaxNumSeqs,            \* config.max_num_seqs
  MaxQueueSize,          \* config.max_queue_size, 0 is no limit
  EnableChunkedPrefill,  \* config.enable_chunked_prefill
  EnablePPFairShare      \* config.enable_pp_fair_share

ASSUME SchedulerAssumption ==
  /\ PPSize \in Nat \ {0}
  /\ MaxNumBatchedTokens \in Nat \ {0}
  /\ MaxNumSeqs \in Nat \ {0}
  /\ MaxQueueSize \in Nat
  /\ EnableChunkedPrefill \in BOOLEAN
  /\ EnablePPFairShare \in BOOLEAN

VARIABLES
  request_queue,      \* _request_queue
  result_queue,       \* _result_queue: a sequence of lists of requests
  polled,             \* requests that poll_results has returned
  inflight_batches,   \* active_requests of every slot, in insertion order
  current_batch_idx,
  pc,                 \* where the generation loop is
  todo,               \* active requests the planning loop has still to visit
  budget,             \* available_token_budget
  seqs_budget,
  held,               \* the request the loop is putting back: << >> or <<r>>
  batch_to_infer,
  batch_to_update,
  pipe,               \* batches between rank 0 and their outputs
  infer_result,
  row,                \* the row of infer_result that update() is at
  finished_requests   \* local of update()

infer_vars == <<batch_to_infer, batch_to_update, pipe, infer_result, row,
                finished_requests>>

loop_vars == <<pc, todo, budget, seqs_budget, held, infer_vars>>

queue_vars == <<request_queue, result_queue, polled>>

slot_vars == <<inflight_batches, current_batch_idx>>

vars == <<request_vars, cache_vars, queue_vars, slot_vars, loop_vars>>

Slots == 0 .. (PPSize - 1)

active_requests == inflight_batches[current_batch_idx]

NoOutput == [configs |-> << >>, token_ids |-> << >>]

Init ==
  /\ RequestInit
  /\ CacheInit
  /\ request_queue = << >>
  /\ result_queue = << >>
  /\ polled = {}
  /\ inflight_batches = [k \in Slots |-> << >>]
  /\ current_batch_idx = 0
  /\ pc = "schedule"
  /\ todo = << >>
  /\ budget = 0
  /\ seqs_budget = 0
  /\ held = << >>
  /\ batch_to_infer = << >>
  /\ batch_to_update = << >>
  /\ pipe = << >>
  /\ infer_result = NoOutput
  /\ row = 0
  /\ finished_requests = << >>

-----------------------------------------------------------------------------
(* The other two threads. *)

QueueHasRoom == MaxQueueSize = 0 \/ Len(request_queue) < MaxQueueSize

\* Mutant: a rejected request is failed but never answered.
submit_unanswered(r) ==
  /\ status[r] = "CREATED"
  /\ IF QueueHasRoom
     THEN /\ request_queue' = Append(request_queue, r)
          /\ status' = [status EXCEPT ![r] = "PENDING"]
     ELSE /\ status' = [status EXCEPT ![r] = "FAILED"]
          /\ UNCHANGED request_queue
  /\ UNCHANGED <<input_ids_list, output_vars, num_computed_tokens,
                 tokens_this_step, block_ids, cache_vars, result_queue, polled,
                 slot_vars, loop_vars>>

\* put(block=False) raises queue.Full at once; the request is then failed and
\* answered without ever reaching the loop.
submit_request(r) ==
  /\ status[r] = "CREATED"
  /\ IF QueueHasRoom
     THEN /\ request_queue' = Append(request_queue, r)
          /\ status' = [status EXCEPT ![r] = "PENDING"]
          /\ UNCHANGED result_queue
     ELSE /\ status' = [status EXCEPT ![r] = "FAILED"]
          /\ result_queue' = Append(result_queue, <<r>>)
          /\ UNCHANGED request_queue
  /\ UNCHANGED <<input_ids_list, output_vars, num_computed_tokens,
                 tokens_this_step, block_ids, cache_vars, polled, slot_vars,
                 loop_vars>>

poll_results ==
  /\ result_queue # << >>
  /\ polled' = polled \cup ToSet(Head(result_queue))
  /\ result_queue' = Tail(result_queue)
  /\ UNCHANGED <<request_vars, cache_vars, request_queue, slot_vars, loop_vars>>

-----------------------------------------------------------------------------
(* schedule(), first half: plan the active requests of the current slot. *)

prefill_remaining(r) == Max({0, Len(input_ids_list[r]) - num_computed_tokens[r]})

\* A decoding request always takes one token, even when the budget is spent;
\* without chunked prefill a prefill always takes the whole input.
planned_tokens(r, available) ==
  IF prefill_remaining(r) = 0 THEN 1
  ELSE IF EnableChunkedPrefill THEN Min({available, prefill_remaining(r)})
  ELSE Len(input_ids_list[r])

next_num_comp(r, available) ==
  IF prefill_remaining(r) # 0 /\ ~EnableChunkedPrefill
  THEN Len(input_ids_list[r])
  ELSE num_computed_tokens[r] + planned_tokens(r, available)

ScheduleBegin ==
  /\ pc = "schedule"
  /\ budget' = MaxNumBatchedTokens
  /\ todo' = active_requests
  /\ pc' = "plan"
  /\ UNCHANGED <<request_vars, cache_vars, queue_vars, slot_vars, seqs_budget,
                 held, infer_vars>>

\* The request was preempted while an earlier one was planned.
SkipPreempted ==
  /\ pc = "plan"
  /\ todo # << >>
  /\ Head(todo) \notin ToSet(active_requests)
  /\ todo' = Tail(todo)
  /\ UNCHANGED <<request_vars, cache_vars, queue_vars, slot_vars, pc, budget,
                 seqs_budget, held, infer_vars>>

PlanActive ==
  /\ pc = "plan"
  /\ todo # << >>
  /\ LET r == Head(todo)
     IN  /\ r \in ToSet(active_requests)
         /\ tokens_this_step' =
              [tokens_this_step EXCEPT ![r] = planned_tokens(r, budget)]
         /\ num_computed_tokens' =
              [num_computed_tokens EXCEPT ![r] = next_num_comp(r, budget)]
  /\ pc' = "extend"
  /\ UNCHANGED <<status, input_ids_list, output_vars, block_ids, cache_vars,
                 queue_vars, slot_vars, todo, budget, seqs_budget, held,
                 infer_vars>>

\* _extend_or_preempt(request): the blocks for the planned tokens.
\* Mutant: forgets that num_computed_tokens already counts this step.
extension_behind(r) ==
  allocate_blocks(num_computed_tokens[r] - tokens_this_step[r], Len(block_ids[r]))

extension(r) == allocate_blocks(num_computed_tokens[r], Len(block_ids[r]))

\* Mutant: the tokens of active requests are not charged to the budget.
ExtendUncharged(r) ==
  /\ \E new \in extension(r) :
       /\ TakeBlocks(new)
       /\ block_ids' = [block_ids EXCEPT ![r] = @ \o new]
  /\ todo' = Tail(todo)
  /\ pc' = "plan"
  /\ UNCHANGED <<status, input_ids_list, output_vars, num_computed_tokens,
                 tokens_this_step, queue_vars, slot_vars, budget,
                 seqs_budget, held, infer_vars>>

Extend(r) ==
  /\ \E new \in extension(r) :
       /\ TakeBlocks(new)
       /\ block_ids' = [block_ids EXCEPT ![r] = @ \o new]
  /\ budget' = budget - tokens_this_step[r]
  /\ todo' = Tail(todo)
  /\ pc' = "plan"
  /\ UNCHANGED <<status, input_ids_list, output_vars, num_computed_tokens,
                 tokens_this_step, queue_vars, slot_vars, seqs_budget, held,
                 infer_vars>>

ExtendActive ==
  /\ pc = "extend"
  /\ extension(Head(todo)) # {}
  /\ Extend(Head(todo))

\* min() over the slot's active requests: the first of the least advanced.
least_progress(i) ==
  /\ i \in DOMAIN active_requests
  /\ \A j \in DOMAIN active_requests :
       LET p == num_computed_tokens[active_requests[i]]
           q == num_computed_tokens[active_requests[j]]
       IN  p <= q /\ (j < i => p < q)

\* _preempt_request up to the put, which may block.
\* Mutant: the victim is requeued but stays in its slot.
preempt_in_place(i) ==
  /\ free_blocks(block_ids[active_requests[i]])
  /\ preempt(active_requests[i])
  /\ UNCHANGED inflight_batches

preempt_request(i) ==
  /\ free_blocks(block_ids[active_requests[i]])
  /\ preempt(active_requests[i])
  /\ inflight_batches' =
       [inflight_batches EXCEPT ![current_batch_idx] = RemoveAt(@, i)]

PreemptVictim ==
  /\ pc = "extend"
  /\ extension(Head(todo)) = {}
  /\ \E i \in DOMAIN active_requests :
       /\ least_progress(i)
       /\ preempt_request(i)
       /\ held' = <<active_requests[i]>>
  /\ pc' = "put_victim"
  /\ UNCHANGED <<queue_vars, current_batch_idx, todo, budget, seqs_budget,
                 infer_vars>>

\* put() blocks while the queue is full; the loop is its only consumer.
PutVictim ==
  /\ pc = "put_victim"
  /\ QueueHasRoom
  /\ request_queue' = request_queue \o held
  /\ held' = << >>
  /\ IF held = <<Head(todo)>>
     THEN pc' = "plan" /\ todo' = Tail(todo)
     ELSE pc' = "retry" /\ todo' = todo
  /\ UNCHANGED <<request_vars, cache_vars, result_queue, polled, slot_vars,
                 budget, seqs_budget, infer_vars>>

\* If even the victim's blocks do not suffice, the request stays active with
\* the tokens it was planned and without the blocks for them.
RetryExtend ==
  /\ pc = "retry"
  /\ IF extension(Head(todo)) # {}
     THEN Extend(Head(todo))
     ELSE /\ todo' = Tail(todo)
          /\ pc' = "plan"
          /\ UNCHANGED <<request_vars, cache_vars, queue_vars, slot_vars,
                         budget, seqs_budget, held, infer_vars>>

-----------------------------------------------------------------------------
(* schedule(), second half: admit requests from the queue, pick batches. *)

total_inflight_request_count ==
  Cardinality({r \in Requests : \E k \in Slots : r \in ToSet(inflight_batches[k])})

\* int(fair_share_blocks / avg_blocks_per_seq), avg_blocks_per_seq at least 1.0
fair_share ==
  LET seqs      == Max({1, total_inflight_request_count})
      allocated == Max({seqs, Cardinality(allocated_blocks)})
      fair_share_blocks == Max({1, Cardinality(free_blocks_set) \div PPSize})
  IN  Max({1, (fair_share_blocks * seqs) \div allocated})

admission_budget ==
  LET room == MaxNumSeqs - Len(active_requests)
  IN  IF PPSize > 1 /\ EnablePPFairShare THEN Min({room, fair_share}) ELSE room

PlanDone ==
  /\ pc = "plan"
  /\ todo = << >>
  /\ seqs_budget' = admission_budget
  /\ pc' = "admit"
  /\ UNCHANGED <<request_vars, cache_vars, queue_vars, slot_vars, todo,
                 budget, held, infer_vars>>

Admitting == pc = "admit" /\ budget > 0 /\ seqs_budget > 0

activation(r) == allocate_blocks(Len(input_ids_list[r]), 0)

\* Mutant: a request that would use up the budget exactly is not admitted.
admissible_strict(r) == budget > planned_tokens(r, budget) /\ activation(r) # {}

\* Mutant: the budget is not compared.
admissible_any(r) == activation(r) # {}

admissible(r) == budget >= planned_tokens(r, budget) /\ activation(r) # {}

\* get_nowait(), _plan_tokens_for_request and _activate_request, all of which
\* touch no other thread's state after the get.
AdmitRequest ==
  /\ Admitting
  /\ request_queue # << >>
  /\ LET r == Head(request_queue)
     IN  /\ admissible(r)
         /\ \E new \in activation(r) :
              /\ TakeBlocks(new)
              /\ block_ids' = [block_ids EXCEPT ![r] = @ \o new]
         /\ status' = [status EXCEPT ![r] = "RUNNING"]
         /\ inflight_batches' =
              [inflight_batches EXCEPT ![current_batch_idx] = Append(@, r)]
         /\ budget' = budget - planned_tokens(r, budget)
         /\ tokens_this_step' =
              [tokens_this_step EXCEPT ![r] = planned_tokens(r, budget)]
         /\ num_computed_tokens' =
              [num_computed_tokens EXCEPT ![r] = next_num_comp(r, budget)]
  /\ request_queue' = Tail(request_queue)
  /\ seqs_budget' = seqs_budget - 1
  /\ UNCHANGED <<input_ids_list, output_vars, result_queue, polled,
                 current_batch_idx, pc, todo, held, infer_vars>>

\* The head of the queue does not fit this step: it goes to the tail.
RejectHead ==
  /\ Admitting
  /\ request_queue # << >>
  /\ ~admissible(Head(request_queue))
  /\ held' = <<Head(request_queue)>>
  /\ request_queue' = Tail(request_queue)
  /\ pc' = "requeue"
  /\ UNCHANGED <<request_vars, cache_vars, result_queue, polled, slot_vars,
                 todo, budget, seqs_budget, infer_vars>>

Requeue ==
  /\ pc = "requeue"
  /\ QueueHasRoom
  /\ request_queue' = request_queue \o held
  /\ held' = << >>
  /\ pc' = "dispatch"
  /\ UNCHANGED <<request_vars, cache_vars, result_queue, polled, slot_vars,
                 todo, budget, seqs_budget, infer_vars>>

\* active_requests without the finished ones (there are none to leave out
\* unless a finished request stayed in its slot).
get_snapshot(s) ==
  IF \A r \in ToSet(s) : ~is_finished(r) THEN s
  ELSE SelectSeq(s, LAMBDA r : ~is_finished(r))

next_batch_idx == (current_batch_idx + 1) % PPSize

\* Mutant: the batch to update is taken before the rotation.
DispatchStale ==
  /\ \/ pc = "dispatch"
     \/ pc = "admit" /\ (budget <= 0 \/ seqs_budget <= 0 \/ request_queue = << >>)
  /\ batch_to_infer' = get_snapshot(active_requests)
  /\ current_batch_idx' = next_batch_idx
  /\ batch_to_update' = get_snapshot(active_requests)
  /\ pc' = IF batch_to_infer' = << >> THEN "schedule" ELSE "infer"
  /\ budget' = 0
  /\ seqs_budget' = 0
  /\ UNCHANGED <<request_vars, cache_vars, queue_vars, inflight_batches, todo,
                 held, pipe, infer_result, row, finished_requests>>

\* schedule() returns, after queue.Empty, a spent budget or a requeue; the loop
\* goes round at once when neither batch has a request.
Dispatch ==
  /\ \/ pc = "dispatch"
     \/ pc = "admit" /\ (budget <= 0 \/ seqs_budget <= 0 \/ request_queue = << >>)
  /\ batch_to_infer' = get_snapshot(active_requests)
  /\ current_batch_idx' = next_batch_idx
  /\ batch_to_update' = get_snapshot(inflight_batches[next_batch_idx])
  /\ pc' = IF batch_to_infer' = << >> /\ batch_to_update' = << >>
           THEN "schedule" ELSE "infer"
  /\ budget' = 0
  /\ seqs_budget' = 0
  /\ UNCHANGED <<request_vars, cache_vars, queue_vars, inflight_batches, todo,
                 held, pipe, infer_result, row, finished_requests>>

-----------------------------------------------------------------------------
(* infer(): rank 0's half of the pipeline. *)

\* The tokens _prepare_gen_ctx feeds for r are those of the positions it
\* feeds them at: a slice of input_ids_list, or the last generated token.
exact_context(r) ==
  LET start == num_computed_tokens[r] - tokens_this_step[r]
  IN  IF start < Len(input_ids_list[r])
      THEN \A p \in start .. (num_computed_tokens[r] - 1) :
             /\ p + 1 \in DOMAIN input_ids_list[r]
             /\ input_ids_list[r][p + 1] = TokenAt(r, p)
      ELSE /\ generated_tokens[r] # << >>
           /\ Last(generated_tokens[r]) = TokenAt(r, num_computed_tokens[r] - 1)

\* The token sampled from the last position of r's context.
sampled(r) == TokenAt(r, IF exact_context(r) THEN num_computed_tokens[r] ELSE -1)

output_of(batch) ==
  [configs |-> batch, token_ids |-> [i \in DOMAIN batch |-> sampled(batch[i])]]

\* With one rank the output is returned directly; otherwise rank 0 receives
\* the oldest outstanding output before it sends its own batch on.
Infer ==
  /\ pc = "infer"
  /\ IF PPSize = 1
     THEN /\ infer_result' = output_of(batch_to_infer)
          /\ pipe' = pipe
     ELSE /\ batch_to_update # << >> => pipe # << >>
          /\ infer_result' = IF batch_to_update # << >> THEN Head(pipe) ELSE NoOutput
          /\ pipe' = (IF batch_to_update # << >> THEN Tail(pipe) ELSE pipe)
                     \o (IF batch_to_infer # << >> THEN <<output_of(batch_to_infer)>>
                         ELSE << >>)
  /\ pc' = IF PPSize = 1 \/ batch_to_update # << >> THEN "update" ELSE "schedule"
  /\ row' = 1
  /\ UNCHANGED <<request_vars, cache_vars, queue_vars, slot_vars, todo,
                 budget, seqs_budget, held, batch_to_infer, batch_to_update,
                 finished_requests>>

-----------------------------------------------------------------------------
(* update(): one step per row of the zip, then the put of what finished. *)

\* _select_tokens computes logprobs for the rows that asked for scores only, so
\* the i-th log-probability belongs to the i-th of those rows.
ith_scored_row(i, j) ==
  /\ infer_result.configs[j] \in OutputScores
  /\ Cardinality({k \in 1..j : infer_result.configs[k] \in OutputScores}) = i

ScoreRows(i) ==
  {j \in DOMAIN infer_result.token_ids : ith_scored_row(i, j)}

\* Logits are returned for every row or for none, as the first row asks.
logits_returned ==
  infer_result.configs # << >> /\ Head(infer_result.configs) \in OutputLogits

current == batch_to_update[row]

\* Mutant: the last chunk of a prefill yields no token.
prefilling_late(r) == num_computed_tokens[r] <= Len(input_ids_list[r])

prefilling(r) == num_computed_tokens[r] < Len(input_ids_list[r])

\* zip_longest runs to the end of the longer list.
rows == Max({Len(batch_to_update), Len(infer_result.token_ids)})

\* It pads the shorter lists with None: a field of no request, .item() of no
\* token, and the two asserts of _process_generated_token, raise.
row_raises ==
  \/ row \notin DOMAIN batch_to_update
  \/ row \notin DOMAIN infer_result.token_ids
  \/ current \in OutputLogits /\ ~logits_returned
  \/ current \in OutputScores /\ ScoreRows(row) = {}

UpdateSkip ==
  /\ pc = "update"
  /\ row \in DOMAIN batch_to_update
  /\ is_finished(current) \/ prefilling(current)
  /\ row' = row + 1
  /\ UNCHANGED <<request_vars, cache_vars, queue_vars, slot_vars, pc, todo,
                 budget, seqs_budget, held, batch_to_infer, batch_to_update,
                 pipe, infer_result, finished_requests>>

TakesToken ==
  /\ pc = "update"
  /\ row <= rows
  /\ row \in DOMAIN batch_to_update =>
       ~is_finished(current) /\ ~prefilling(current)

process_generated_token(r) ==
  /\ IF r \in OutputScores
     THEN \E j \in ScoreRows(row) :
            generated_logprobs' =
              [generated_logprobs EXCEPT ![r] = Append(@, infer_result.token_ids[j])]
     ELSE generated_logprobs' = generated_logprobs
  /\ generated_tokens' =
       [generated_tokens EXCEPT ![r] = Append(@, infer_result.token_ids[row])]

\* Whether the token is EOS is the model's choice.
FinishesNow(r, eos) ==
  /\ eos => r \in EosRequests
  /\ should_finish(r, eos, Len(generated_tokens[r]) + 1)

UpdateContinue ==
  /\ TakesToken
  /\ ~row_raises
  /\ process_generated_token(current)
  /\ ~FinishesNow(current, FALSE)
  /\ row' = row + 1
  /\ UNCHANGED <<status, input_ids_list, num_computed_tokens,
                 tokens_this_step, block_ids, cache_vars, queue_vars,
                 slot_vars, pc, todo, budget, seqs_budget, held,
                 batch_to_infer, batch_to_update, pipe, infer_result,
                 finished_requests>>

\* Mutant: the finished request stays in its slot.
finalize_in_place(r) ==
  /\ free_blocks(block_ids[r])
  /\ status' = [status EXCEPT ![r] = "FINISHED"]
  /\ block_ids' = [block_ids EXCEPT ![r] = << >>]
  /\ UNCHANGED inflight_batches

\* _finalize_request: after the rotation the updated slot is the current one.
finalize_request(r) ==
  /\ free_blocks(block_ids[r])
  /\ status' = [status EXCEPT ![r] = "FINISHED"]
  /\ block_ids' = [block_ids EXCEPT ![r] = << >>]
  /\ \E i \in DOMAIN active_requests :
       /\ active_requests[i] = r
       /\ inflight_batches' =
            [inflight_batches EXCEPT ![current_batch_idx] = RemoveAt(@, i)]

UpdateFinish ==
  /\ TakesToken
  /\ ~row_raises
  /\ process_generated_token(current)
  /\ \E eos \in BOOLEAN : FinishesNow(current, eos)
  /\ finalize_request(current)
  /\ finished_requests' = Append(finished_requests, current)
  /\ row' = row + 1
  /\ UNCHANGED <<input_ids_list, num_computed_tokens, tokens_this_step,
                 queue_vars, current_batch_idx, pc, todo, budget, seqs_budget,
                 held, batch_to_infer, batch_to_update, pipe, infer_result>>

\* Any exception ends the generation loop for good.  finished_requests is a
\* local that is put only after the last row: the exception discards it, with
\* the requests that earlier rows have finished.
UpdateRaise ==
  /\ TakesToken
  /\ row_raises
  /\ pc' = "dead"
  /\ finished_requests' = << >>
  /\ UNCHANGED <<request_vars, cache_vars, queue_vars, slot_vars, todo,
                 budget, seqs_budget, held, batch_to_infer, batch_to_update,
                 pipe, infer_result, row>>

UpdateDone ==
  /\ pc = "update"
  /\ row > rows
  /\ result_queue' = IF finished_requests = << >> THEN result_queue
                     ELSE Append(result_queue, finished_requests)
  /\ finished_requests' = << >>
  /\ batch_to_infer' = << >>
  /\ batch_to_update' = << >>
  /\ infer_result' = NoOutput
  /\ row' = 0
  /\ pc' = "schedule"
  /\ UNCHANGED <<request_vars, cache_vars, request_queue, polled, slot_vars,
                 todo, budget, seqs_budget, held, pipe>>

-----------------------------------------------------------------------------

GenerationLoop ==
  \/ ScheduleBegin \/ SkipPreempted \/ PlanActive \/ ExtendActive
  \/ PreemptVictim \/ PutVictim \/ RetryExtend \/ PlanDone
  \/ AdmitRequest \/ RejectHead \/ Requeue \/ Dispatch
  \/ Infer
  \/ UpdateSkip \/ UpdateContinue \/ UpdateFinish \/ UpdateRaise \/ UpdateDone

Next ==
  \/ \E r \in Requests : submit_request(r)
  \/ poll_results
  \/ GenerationLoop

Spec == Init /\ [][Next]_vars

\* Every thread keeps running; nobody is obliged to submit anything.
FairSpec == Spec /\ WF_vars(GenerationLoop) /\ WF_vars(poll_results)

-----------------------------------------------------------------------------
(* Properties. *)

PCs == {"schedule", "plan", "extend", "put_victim", "retry", "admit",
        "requeue", "dispatch", "infer", "update", "dead"}

InferencerOutput == [configs : Seq(Requests), token_ids : Seq(Token)]

\* The type invariant of the driver: the fields of every request, the allocator,
\* the queues and the locals of the generation loop.
TypeOK ==
  /\ status \in [Requests -> Status]
  /\ input_ids_list \in [Requests -> Seq(Token)]
  /\ generated_tokens \in [Requests -> Seq(Token)]
  /\ generated_logprobs \in [Requests -> Seq(Token)]
  /\ num_computed_tokens \in [Requests -> Int]
  /\ tokens_this_step \in [Requests -> Int]
  /\ block_ids \in [Requests -> Seq(Blocks)]
  /\ free_blocks_set \subseteq Blocks
  /\ allocated_blocks \subseteq Blocks
  /\ request_queue \in Seq(Requests)
  /\ result_queue \in Seq(Seq(Requests))
  /\ polled \subseteq Requests
  /\ inflight_batches \in [Slots -> Seq(Requests)]
  /\ current_batch_idx \in Slots
  /\ pc \in PCs
  /\ todo \in Seq(Requests)
  /\ pc \in {"extend", "put_victim", "retry"} => todo # << >>
  /\ budget \in Int
  /\ seqs_budget \in Int
  /\ held \in Seq(Requests)
  /\ batch_to_infer \in Seq(Requests)
  /\ batch_to_update \in Seq(Requests)
  /\ pipe \in Seq(InferencerOutput)
  /\ infer_result \in InferencerOutput
  /\ row \in Nat
  /\ finished_requests \in Seq(Requests)

\* Every cache block is free or owned by exactly one request, at one place of
\* its block table, through any history of admissions, extensions, preemptions
\* and completions: no block is leaked, shared or freed twice.  (KVCacheManager
\* and the block_ids of the requests are updated by separate statements.)
BlocksConserved ==
  /\ free_blocks_set \cap allocated_blocks = {}
  /\ free_blocks_set \cup allocated_blocks = Blocks
  /\ \A r, s \in Requests :
       \A i \in DOMAIN block_ids[r], j \in DOMAIN block_ids[s] :
         block_ids[r][i] = block_ids[s][j] => r = s /\ i = j
  /\ \A b \in Blocks : b \in allocated_blocks <=>
       \E r \in Requests : b \in ToSet(block_ids[r])

\* Finished by an earlier row of the update() that has raised.
LostByRaise(r) ==
  /\ pc = "dead"
  /\ status[r] = "FINISHED"
  /\ \E i \in DOMAIN batch_to_update : i < row /\ batch_to_update[i] = r

\* A submitted request is in exactly one place: once in the queue (or in the
\* loop's hands on its way there), once in one slot, or answered once.  Neither
\* preemption nor requeueing nor finishing loses or duplicates a request.  One
\* path of the code does lose requests, and no other may: when a row of
\* update() raises, those its earlier rows have finished have left their slot
\* and are never answered.
PlacedOnce ==
  LET waiting == request_queue \o held
      answers == result_queue \o <<finished_requests>>
  IN  /\ \A i, j \in DOMAIN waiting : waiting[i] = waiting[j] => i = j
      /\ \A k, l \in Slots :
           \A i \in DOMAIN inflight_batches[k], j \in DOMAIN inflight_batches[l] :
             inflight_batches[k][i] = inflight_batches[l][j] => k = l /\ i = j
      /\ \A m, n \in DOMAIN answers :
           \A i \in DOMAIN answers[m], j \in DOMAIN answers[n] :
             /\ answers[m][i] = answers[n][j] => m = n /\ i = j
             /\ answers[m][i] \notin polled
      /\ \A r \in Requests :
           /\ status[r] = "PENDING" <=> r \in ToSet(waiting)
           /\ status[r] = "RUNNING" <=>
                \E k \in Slots : r \in ToSet(inflight_batches[k])
           /\ r \in polled \/ (\E m \in DOMAIN answers : r \in ToSet(answers[m]))
                <=> status[r] \in {"FINISHED", "FAILED"} /\ ~LostByRaise(r)

\* The rows of the input buffers that a batch fills, one per token.
BatchRows(batch) ==
  UNION {{i} \X (1 .. tokens_this_step[batch[i]]) : i \in DOMAIN batch}

\* A batch that reaches the inferencer fits the preallocated input buffers
\* (max_num_batched_tokens rows, max_num_seqs sequences), although a decoding
\* request takes its token without looking at the budget; and every request in
\* it has at least one token to compute, so that the last row of its slice,
\* which is sampled, exists.
BatchFits ==
  pc = "infer" =>
    /\ Cardinality(BatchRows(batch_to_infer)) <= MaxNumBatchedTokens
    /\ Len(batch_to_infer) <= MaxNumSeqs
    /\ \A r \in ToSet(batch_to_infer) : tokens_this_step[r] >= 1

\* Every running request owns exactly the blocks that its computed positions
\* and its whole input need when a batch is sent: _prepare_gen_ctx never
\* indexes past block_ids, and the failing retry of _extend_or_preempt, which
\* would leave a request active without blocks, never happens.
BatchCovered ==
  pc = "infer" =>
    \A r \in Requests : status[r] = "RUNNING" =>
      LET positions == Max({num_computed_tokens[r], Len(input_ids_list[r])})
      IN  /\ positions <= Len(block_ids[r]) * PageSize
          /\ (Len(block_ids[r]) - 1) * PageSize < positions

\* The answer is the continuation of the request's own prompt whatever is
\* batched with it: in spite of preemption and re-prefill (with tokens folded
\* into the input), of chunking and of the positional match of outputs with the
\* slot rotated to, the k-th generated token is the one sampled at position
\* PromptLen + k - 1 of this request.
TokensExact ==
  \A r \in Requests :
    /\ \A i \in DOMAIN input_ids_list[r] : input_ids_list[r][i] = TokenAt(r, i - 1)
    /\ \A k \in DOMAIN generated_tokens[r] :
         generated_tokens[r][k] = TokenAt(r, PromptLen[r] + k - 1)

\* Outputs carry no request ids: what arrives for the slot rotated to is matched
\* with it by position.  It is the output of exactly that batch, computed for
\* the positions its requests are still at, so that rank 0 neither waits for an
\* output that was never requested nor takes another slot's.
OutputsAligned ==
  pc = "infer" /\ PPSize > 1 /\ batch_to_update # << >> =>
    /\ pipe # << >>
    /\ Head(pipe).configs = batch_to_update
    /\ \A i \in DOMAIN batch_to_update :
         Head(pipe).token_ids[i] =
           TokenAt(batch_to_update[i], num_computed_tokens[batch_to_update[i]])

\* max_new_tokens and max_length bound the answer even when it was preempted and
\* its tokens replayed as input; a request always generates one token.
LimitsRespected ==
  \A r \in Requests :
    LET n == Len(generated_tokens[r])
    IN  /\ n <= Max({1, MaxNewTokens[r]})
        /\ r \in DOMAIN MaxLength => n <= Max({1, MaxLength[r] - PromptLen[r]})
        /\ is_finished(r) /\ r \notin EosRequests =>
             \/ n >= MaxNewTokens[r]
             \/ r \in DOMAIN MaxLength /\ n >= MaxLength[r] - PromptLen[r]

HandedOut == polled \cup UNION {ToSet(result_queue[m]) : m \in DOMAIN result_queue}

\* An answered request that asked for scores gets one log-probability per
\* generated token, its own ("each request gets its own result"), although the
\* inferencer returns scores by rank among the scored rows and preempted
\* requests carry theirs through re-prefill.
ScoresExact ==
  \A r \in HandedOut \cap OutputScores : generated_logprobs[r] = generated_tokens[r]

\* The result thread reads the request objects it polls without a lock: once a
\* request is in the result queue the loop never writes to it again.
AnswerFinal ==
  [][\A r \in HandedOut :
       /\ status'[r] = status[r]
       /\ generated_tokens'[r] = generated_tokens[r]
       /\ generated_logprobs'[r] = generated_logprobs[r]]_vars

\* Every submitted request is eventually answered, through any number of
\* preemptions, provided the threads keep running.
EveryRequestAnswered ==
  \A r \in Requests : status[r] # "CREATED" ~> r \in polled

\* "Allocation failed (e.g., out of KV cache); requeue and retry later": the
\* loop gets past the put of a rejected or preempted request.
RequeueCompletes ==
  pc \in {"requeue", "put_victim"} ~> pc \notin {"requeue", "put_victim"}

\* "Preempt a request: free blocks, reset state for re-prefill, and requeue":
\* a preempted request is eventually prefilled again.
PreemptedIsReplayed ==
  \A r \in Requests :
    status[r] = "PENDING" /\ generated_tokens[r] # << >> ~> status[r] = "RUNNING"

=============================================================================
