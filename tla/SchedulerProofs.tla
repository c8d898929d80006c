-------------------------- MODULE SchedulerProofs --------------------------
(***************************************************************************)
(* Proofs about module Scheduler, for every set of requests, every cache   *)
(* and page size, every pipeline depth and every batch and queue limit.    *)
(***************************************************************************)
EXTENDS Scheduler, FiniteSetTheorems, FunctionTheorems, SequenceTheorems, WellFoundedInduction, TLAPS

-----------------------------------------------------------------------------
(* Facts about the operators the model is built from. *)

\* Max and Min of two integers, as max() and min() are used in schedule().
LEMMA MaxPair ==
  ASSUME NEW x \in Int, NEW y \in Int
  PROVE  /\ Max({x, y}) \in Int
         /\ Max({x, y}) >= x /\ Max({x, y}) >= y
         /\ Max({x, y}) \in {x, y}
<1>1. \E m \in {x, y} : \A z \in {x, y} : m >= z
  OBVIOUS
<1> QED BY <1>1 DEF Max

LEMMA MinPair ==
  ASSUME NEW x \in Int, NEW y \in Int
  PROVE  /\ Min({x, y}) \in Int
         /\ Min({x, y}) <= x /\ Min({x, y}) <= y
         /\ Min({x, y}) \in {x, y}
<1>1. \E m \in {x, y} : \A z \in {x, y} : m <= z
  OBVIOUS
<1> QED BY <1>1 DEF Min

\* OrderedDict.pop: one element is gone, the others keep their order.
LEMMA RemoveAtFacts ==
  ASSUME NEW S, NEW s \in Seq(S), NEW i \in DOMAIN s
  PROVE  /\ RemoveAt(s, i) \in Seq(S)
         /\ Len(RemoveAt(s, i)) = Len(s) - 1
         /\ \A j \in 1..(Len(s) - 1) :
              RemoveAt(s, i)[j] = IF j < i THEN s[j] ELSE s[j + 1]
<1> DEFINE front == SubSeq(s, 1, i - 1)
           back  == SubSeq(s, i + 1, Len(s))
<1>0. /\ Len(s) \in Nat /\ i \in 1..Len(s)
      /\ \A j \in 1..Len(s) : s[j] \in S
  BY LenProperties, ElementOfSeq
<1>1. /\ front \in Seq(S) /\ Len(front) = i - 1
      /\ \A j \in 1..(i - 1) : front[j] = s[j]
  BY <1>0, SubSeqProperties
<1>2. /\ back \in Seq(S) /\ Len(back) = Len(s) - i
      /\ \A j \in 1..(Len(s) - i) : back[j] = s[i + j]
  BY <1>0, SubSeqProperties
<1> HIDE DEF front, back
<1>3. RemoveAt(s, i) = front \o back
  BY DEF RemoveAt, front, back
<1>4. /\ front \o back \in Seq(S)
      /\ Len(front \o back) = Len(s) - 1
      /\ \A j \in 1..(Len(s) - 1) : (front \o back)[j] =
           IF j <= i - 1 THEN front[j] ELSE back[j - (i - 1)]
  BY <1>0, <1>1, <1>2, ConcatProperties
<1>5. ASSUME NEW j \in 1..(Len(s) - 1)
      PROVE  (front \o back)[j] = IF j < i THEN s[j] ELSE s[j + 1]
  <2>1. CASE j < i
    BY <1>0, <1>1, <1>4, <2>1
  <2>2. CASE ~(j < i)
    <3>1. j - (i - 1) \in 1..(Len(s) - i) /\ i + (j - (i - 1)) = j + 1
      BY <1>0, <2>2
    <3>2. back[j - (i - 1)] = s[j + 1]
      BY <1>2, <3>1
    <3> QED BY <1>0, <1>4, <2>2, <3>2
  <2> QED BY <2>1, <2>2
<1> QED BY <1>3, <1>4, <1>5

\* What allocate_blocks returns is a list of distinct free blocks.
LEMMA AllocatedAreFree ==
  ASSUME free_blocks_set \subseteq Blocks,
         NEW t \in Int, NEW n \in Int, NEW new \in allocate_blocks(t, n)
  PROVE  /\ new \in Seq(free_blocks_set)
         /\ \A i, j \in DOMAIN new : new[i] = new[j] => i = j
<1> DEFINE delta == num_blocks_needed(t) - n
<1>1. delta \in Int
  BY CacheAssumption DEF num_blocks_needed
<1>2. CASE delta <= 0
  BY <1>2 DEF allocate_blocks
<1>3. CASE ~(delta <= 0)
  <2>1. new \in LowestFree(delta)
    BY <1>3 DEF allocate_blocks
  <2>2. /\ new \in [1..delta -> free_blocks_set]
        /\ \A i, j \in 1..delta : i < j => new[i] < new[j]
    BY <2>1 DEF LowestFree
  <2>3. new \in Seq(free_blocks_set) /\ DOMAIN new = 1..delta
    BY <1>1, <1>3, <2>2
  <2>4. \A i \in 1..delta : new[i] \in Int
    <3>1. Blocks \subseteq Int
      BY CacheAssumption DEF Blocks
    <3> QED BY <2>2, <3>1
  <2>5. \A i, j \in 1..delta : new[i] = new[j] => i = j
    BY <1>1, <2>2, <2>4
  <2> QED BY <2>3, <2>5
<1> QED BY <1>2, <1>3

-----------------------------------------------------------------------------
(* The inductive invariant. *)

\* A request waits once: in the queue, or in the loop's hands on its way there.
WaitingOnce ==
  /\ held # << >> <=> pc \in {"put_victim", "requeue"}
  /\ held # << >> => Len(held) = 1 /\ status[held[1]] = "PENDING"
  /\ \A i \in DOMAIN request_queue :
       /\ status[request_queue[i]] = "PENDING"
       /\ held # << >> => request_queue[i] # held[1]
       /\ \A j \in DOMAIN request_queue :
            request_queue[i] = request_queue[j] => i = j
  /\ \A r \in Requests : status[r] = "PENDING" =>
       \/ held # << >> /\ r = held[1]
       \/ \E i \in DOMAIN request_queue : r = request_queue[i]

\* A running request is in one place of one slot.
RunningOnce ==
  /\ \A k \in Slots : \A i \in DOMAIN inflight_batches[k] :
       /\ status[inflight_batches[k][i]] = "RUNNING"
       /\ \A l \in Slots : \A j \in DOMAIN inflight_batches[l] :
            inflight_batches[k][i] = inflight_batches[l][j] => k = l /\ i = j
  /\ \A r \in Requests : status[r] = "RUNNING" =>
       \E k \in Slots : \E i \in DOMAIN inflight_batches[k] :
         r = inflight_batches[k][i]

Done == {"FINISHED", "FAILED"}

\* A finished or rejected request is answered once.
AnsweredOnce ==
  /\ \A r \in polled : status[r] \in Done
  /\ \A j \in DOMAIN finished_requests :
       /\ status[finished_requests[j]] \in Done
       /\ finished_requests[j] \notin polled
       /\ \A i \in DOMAIN finished_requests :
            finished_requests[i] = finished_requests[j] => i = j
       /\ \A m \in DOMAIN result_queue : \A i \in DOMAIN result_queue[m] :
            finished_requests[j] # result_queue[m][i]
  /\ \A m \in DOMAIN result_queue : \A i \in DOMAIN result_queue[m] :
       /\ status[result_queue[m][i]] \in Done
       /\ result_queue[m][i] \notin polled
       /\ \A n \in DOMAIN result_queue : \A j \in DOMAIN result_queue[n] :
            result_queue[m][i] = result_queue[n][j] => m = n /\ i = j
  /\ \A r \in Requests : status[r] \in Done =>
       \/ LostByRaise(r)
       \/ r \in polled
       \/ \E j \in DOMAIN finished_requests : r = finished_requests[j]
       \/ \E m \in DOMAIN result_queue : \E i \in DOMAIN result_queue[m] :
            r = result_queue[m][i]

\* The local list of update() holds what its earlier rows have finished: when a
\* row raises and the list is lost, these are the requests lost with it.
FinishedRows ==
  /\ finished_requests # << >> => pc = "update"
  /\ \A j \in DOMAIN finished_requests :
       /\ status[finished_requests[j]] = "FINISHED"
       /\ \E i \in DOMAIN batch_to_update :
            i < row /\ batch_to_update[i] = finished_requests[j]

\* Folding only ever extends the prompt.
InputKept == \A r \in Requests : Len(input_ids_list[r]) >= PromptLen[r]

IInv ==
  /\ TypeOK /\ InputKept /\ WaitingOnce /\ RunningOnce /\ AnsweredOnce
  /\ FinishedRows

-----------------------------------------------------------------------------
(* Types. *)

\* What _plan_tokens_for_request and the admission formula return.
LEMMA PlanTypes ==
  ASSUME TypeOK, NEW r \in Requests, NEW available \in Int
  PROVE  /\ prefill_remaining(r) \in Int
         /\ planned_tokens(r, available) \in Int
         /\ next_num_comp(r, available) \in Int
<1>1. Len(input_ids_list[r]) \in Nat /\ num_computed_tokens[r] \in Int
  BY DEF TypeOK
<1>2. prefill_remaining(r) \in Int
  <2> DEFINE d == Len(input_ids_list[r]) - num_computed_tokens[r]
  <2>1. d \in Int
    BY <1>1
  <2> HIDE DEF d
  <2>2. 0 \in Int
    OBVIOUS
  <2>3. Max({0, d}) \in Int
    BY <2>1, <2>2, MaxPair, Zenon
  <2> QED BY <2>3 DEF prefill_remaining, d
<1>3. planned_tokens(r, available) \in Int
  <2>1. Min({available, prefill_remaining(r)}) \in Int
    BY <1>2, MinPair
  <2> QED BY <1>1, <1>2, <2>1 DEF planned_tokens
<1> QED BY <1>1, <1>2, <1>3 DEF next_num_comp

\* The fair share of the free blocks is an integer: no division is by zero.
LEMMA FairShareType == TypeOK => fair_share \in Int
<1> SUFFICES ASSUME TypeOK PROVE fair_share \in Int
  OBVIOUS
<1>2. IsFiniteSet(Blocks)
  BY CacheAssumption, FS_Interval DEF Blocks
<1>3. Cardinality(free_blocks_set) \in Nat /\ Cardinality(allocated_blocks) \in Nat
  BY <1>2, FS_Subset, FS_CardinalityType DEF TypeOK
<1>4. total_inflight_request_count \in Nat
  <2> DEFINE T == {r \in Requests : \E k \in Slots : r \in ToSet(inflight_batches[k])}
  <2>1. T \subseteq Requests
    OBVIOUS
  <2>2. IsFiniteSet(T)
    BY <2>1, RequestAssumption, FS_Subset
  <2> QED BY <2>2, FS_CardinalityType DEF total_inflight_request_count
<1> DEFINE seqs == Max({1, total_inflight_request_count})
           allocated == Max({seqs, Cardinality(allocated_blocks)})
           blocks == Max({1, Cardinality(free_blocks_set) \div PPSize})
<1>5. seqs \in Int /\ seqs >= 1
  BY <1>4, MaxPair
<1>6. allocated \in Int /\ allocated >= 1
  <2> HIDE DEF seqs
  <2>1. allocated \in Int /\ allocated >= seqs
    BY <1>3, <1>5, MaxPair
  <2> QED BY <1>5, <2>1
<1>7. Cardinality(free_blocks_set) \div PPSize \in Int
  BY <1>3, SchedulerAssumption
<1>8. blocks \in Int
  BY <1>7, MaxPair
<1>9. (blocks * seqs) \div allocated \in Int
  <2> HIDE DEF seqs, allocated, blocks
  <2>1. blocks * seqs \in Int
    BY <1>5, <1>8
  <2> QED BY <2>1, <1>6
<1> HIDE DEF seqs, allocated, blocks
<1>10. fair_share = Max({1, (blocks * seqs) \div allocated})
  BY DEF fair_share, seqs, allocated, blocks
<1> QED BY <1>9, <1>10, MaxPair

LEMMA AdmissionBudgetType == TypeOK => admission_budget \in Int
<1> SUFFICES ASSUME TypeOK PROVE admission_budget \in Int
  OBVIOUS
<1>1. Len(active_requests) \in Nat
  BY DEF TypeOK, active_requests
<1>2. MaxNumSeqs - Len(active_requests) \in Int
  BY <1>1, SchedulerAssumption
<1> QED BY <1>2, FairShareType, MinPair DEF admission_budget

\* get_snapshot has nothing to filter: a finished request has left its slot.
LEMMA SnapshotIsSlot ==
  ASSUME TypeOK, RunningOnce, NEW k \in Slots
  PROVE  get_snapshot(inflight_batches[k]) = inflight_batches[k]
BY DEF get_snapshot, is_finished, ToSet, RunningOnce

LEMMA OutputType ==
  ASSUME TypeOK, NEW batch \in Seq(Requests)
  PROVE  output_of(batch) \in InferencerOutput
<1>1. \A i \in DOMAIN batch : sampled(batch[i]) \in Token
  BY DEF TypeOK, sampled, TokenAt, Token
<1>2. DOMAIN batch = 1..Len(batch) /\ Len(batch) \in Nat
  OBVIOUS
<1>3. [i \in DOMAIN batch |-> sampled(batch[i])] \in Seq(Token)
  BY <1>1, <1>2
<1> QED BY <1>3 DEF output_of, InferencerOutput

\* new_blocks extend the block table of the request they were allocated for.
LEMMA ExtendedTable ==
  ASSUME TypeOK, NEW r \in Requests, NEW t \in Int, NEW n \in Int,
         NEW new \in allocate_blocks(t, n), TakeBlocks(new),
         block_ids' = [block_ids EXCEPT ![r] = @ \o new]
  PROVE  /\ block_ids' \in [Requests -> Seq(Blocks)]
         /\ free_blocks_set' \subseteq Blocks
         /\ allocated_blocks' \subseteq Blocks
<1>1. free_blocks_set \subseteq Blocks /\ block_ids \in [Requests -> Seq(Blocks)]
      /\ allocated_blocks \subseteq Blocks
  BY DEF TypeOK
<1>2. new \in Seq(free_blocks_set)
  BY <1>1, AllocatedAreFree
<1>3. new \in Seq(Blocks)
  BY <1>1, <1>2, SeqMonotonic
<1>4. \A i \in DOMAIN new : new[i] \in Blocks
  BY <1>3
<1>5. block_ids[r] \o new \in Seq(Blocks)
  BY <1>1, <1>3, ConcatProperties
<1> QED BY <1>1, <1>4, <1>5 DEF TakeBlocks

LEMMA FoldedInput ==
  ASSUME TypeOK, InputKept, NEW r \in Requests
  PROVE  /\ new_tokens(r) \in Seq(Token)
         /\ input_ids_list[r] \o new_tokens(r) \in Seq(Token)
         /\ Len(input_ids_list[r] \o new_tokens(r)) >= Len(input_ids_list[r])
<1>1. /\ input_ids_list[r] \in Seq(Token) /\ generated_tokens[r] \in Seq(Token)
      /\ Len(input_ids_list[r]) \in Nat /\ Len(generated_tokens[r]) \in Nat
      /\ PromptLen[r] \in Nat /\ Len(input_ids_list[r]) >= PromptLen[r]
  <2>1. input_ids_list[r] \in Seq(Token) /\ generated_tokens[r] \in Seq(Token)
    BY DEF TypeOK
  <2>2. PromptLen[r] \in Nat
    BY RequestAssumption
  <2> QED BY <2>1, <2>2, LenProperties DEF InputKept
<1>2. already_folded(r) + 1 \in Int /\ already_folded(r) + 1 >= 1
  BY <1>1 DEF already_folded
<1>3. \A i \in (already_folded(r) + 1) .. Len(generated_tokens[r]) :
        generated_tokens[r][i] \in Token
  BY <1>1, <1>2
<1>4. new_tokens(r) \in Seq(Token)
  BY <1>1, <1>2, <1>3, SubSeqProperties DEF new_tokens
<1>5. /\ input_ids_list[r] \o new_tokens(r) \in Seq(Token)
      /\ Len(input_ids_list[r] \o new_tokens(r))
           = Len(input_ids_list[r]) + Len(new_tokens(r))
      /\ Len(new_tokens(r)) \in Nat
  BY <1>1, <1>4, ConcatProperties, LenProperties
<1> QED BY <1>1, <1>4, <1>5

LEMMA TypeInit == Init => TypeOK /\ InputKept
<1> SUFFICES ASSUME Init PROVE TypeOK /\ InputKept
  OBVIOUS
<1> USE DEF Init, RequestInit, CacheInit
<1>1. ASSUME NEW r \in Requests
      PROVE  /\ input_ids_list[r] \in Seq(Token)
             /\ Len(input_ids_list[r]) = PromptLen[r]
  <2>1. PromptLen[r] \in Nat
    BY RequestAssumption
  <2>2. \A i \in 1..PromptLen[r] : TokenAt(r, i - 1) \in Token
    BY <2>1 DEF TokenAt, Token
  <2>3. input_ids_list[r] = [i \in 1..PromptLen[r] |-> TokenAt(r, i - 1)]
    OBVIOUS
  <2> HIDE DEF Init, RequestInit, CacheInit
  <2> QED BY <2>1, <2>2, <2>3
<1>2. input_ids_list \in [Requests -> Seq(Token)]
  BY <1>1
<1>3. InputKept
  BY <1>1, RequestAssumption DEF InputKept
<1>4. 0 \in Slots
  BY SchedulerAssumption DEF Slots
<1>5. NoOutput \in InferencerOutput
  BY DEF NoOutput, InferencerOutput
<1>6. TypeOK
  BY <1>2, <1>4, <1>5 DEF TypeOK, Status, PCs
<1> QED BY <1>3, <1>6

LEMMA TypeStep == IInv /\ [Next]_vars => TypeOK' /\ InputKept'
<1> SUFFICES ASSUME IInv, [Next]_vars PROVE TypeOK' /\ InputKept'
  OBVIOUS
<1> USE DEF vars, request_vars, output_vars, cache_vars, queue_vars, slot_vars,
            loop_vars, infer_vars
<1>0. TypeOK /\ InputKept /\ RunningOnce
  BY DEF IInv
<1>a. /\ current_batch_idx \in Slots
      /\ active_requests \in Seq(Requests)
      /\ next_batch_idx \in Slots
  <2>1. current_batch_idx \in Slots /\ inflight_batches \in [Slots -> Seq(Requests)]
    BY <1>0 DEF TypeOK
  <2>2. (current_batch_idx + 1) % PPSize \in 0 .. (PPSize - 1)
    BY <2>1, SchedulerAssumption DEF Slots
  <2> QED BY <2>1, <2>2 DEF active_requests, next_batch_idx, Slots
<1>b. todo # << >> => Head(todo) \in Requests /\ Tail(todo) \in Seq(Requests)
  BY <1>0 DEF TypeOK
<1>c. request_queue # << >> => /\ Head(request_queue) \in Requests
                               /\ Tail(request_queue) \in Seq(Requests)
  BY <1>0 DEF TypeOK
<1>d. input_ids_list' = input_ids_list => InputKept'
  BY <1>0 DEF InputKept
<1>1. ASSUME NEW r \in Requests, submit_request(r) PROVE TypeOK' /\ InputKept'
  <2>1. status' \in [Requests -> Status]
    BY <1>0, <1>1 DEF TypeOK, submit_request, Status
  <2>2. request_queue' \in Seq(Requests) /\ result_queue' \in Seq(Seq(Requests))
    <3>1. CASE QueueHasRoom
      <4>1. result_queue \in Seq(Seq(Requests)) /\ request_queue \in Seq(Requests)
        BY <1>0 DEF TypeOK
      <4>2. request_queue' = Append(request_queue, r) /\ result_queue' = result_queue
        BY <1>1, <3>1 DEF submit_request
      <4> QED BY <4>1, <4>2, AppendProperties
    <3>2. CASE ~QueueHasRoom
      <4>1. <<r>> \in Seq(Requests)
        OBVIOUS
      <4>2. result_queue \in Seq(Seq(Requests)) /\ request_queue \in Seq(Requests)
        BY <1>0 DEF TypeOK
      <4>3. result_queue' = Append(result_queue, <<r>>) /\ request_queue' = request_queue
        BY <1>1, <3>2 DEF submit_request
      <4> QED BY <4>1, <4>2, <4>3, AppendProperties
    <3> QED BY <3>1, <3>2
  <2> QED BY <1>0, <1>1, <1>d, <2>1, <2>2 DEF TypeOK, submit_request
<1>2. CASE poll_results
  <2>1. Head(result_queue) \in Seq(Requests) /\ Tail(result_queue) \in Seq(Seq(Requests))
    BY <1>0, <1>2 DEF TypeOK, poll_results
  <2>2. ToSet(Head(result_queue)) \subseteq Requests
    BY <2>1 DEF ToSet
  <2> QED BY <1>0, <1>2, <2>1, <2>2 DEF TypeOK, InputKept, poll_results
<1>3. CASE ScheduleBegin
  BY <1>0, <1>3, <1>a, SchedulerAssumption DEF TypeOK, InputKept, ScheduleBegin, PCs
<1>4. CASE SkipPreempted
  BY <1>0, <1>4, <1>b DEF TypeOK, InputKept, SkipPreempted
<1>5. CASE PlanActive
  <2> DEFINE r == Head(todo)
  <2>1. r \in Requests /\ budget \in Int
    BY <1>0, <1>5, <1>b DEF PlanActive, TypeOK
  <2>2. planned_tokens(r, budget) \in Int /\ next_num_comp(r, budget) \in Int
    BY <1>0, <2>1, PlanTypes
  <2> HIDE DEF r
  <2>3. /\ tokens_this_step' = [tokens_this_step EXCEPT ![r] = planned_tokens(r, budget)]
        /\ num_computed_tokens' = [num_computed_tokens EXCEPT ![r] = next_num_comp(r, budget)]
    BY <1>5 DEF PlanActive, r
  <2>4. /\ tokens_this_step' \in [Requests -> Int]
        /\ num_computed_tokens' \in [Requests -> Int]
    BY <1>0, <2>1, <2>2, <2>3 DEF TypeOK
  <2> QED BY <1>0, <1>5, <2>4 DEF TypeOK, InputKept, PlanActive, PCs
<1>6. ASSUME pc \in {"extend", "retry"}, Extend(Head(todo))
      PROVE  TypeOK' /\ InputKept'
  <2> DEFINE r == Head(todo)
  <2>1. r \in Requests /\ Tail(todo) \in Seq(Requests)
    BY <1>0, <1>6, <1>b DEF TypeOK
  <2>2. num_computed_tokens[r] \in Int /\ Len(block_ids[r]) \in Int
        /\ tokens_this_step[r] \in Int /\ budget \in Int
    BY <1>0, <2>1 DEF TypeOK
  <2> HIDE DEF r
  <2>3. PICK new \in extension(r) : /\ TakeBlocks(new)
                                    /\ block_ids' = [block_ids EXCEPT ![r] = @ \o new]
    BY <1>6 DEF Extend, r
  <2>4. /\ block_ids' \in [Requests -> Seq(Blocks)]
        /\ free_blocks_set' \subseteq Blocks
        /\ allocated_blocks' \subseteq Blocks
    BY <1>0, <2>1, <2>2, <2>3, ExtendedTable DEF extension
  <2>5. budget' = budget - tokens_this_step[r] /\ todo' = Tail(todo)
    BY <1>6 DEF Extend, r
  <2>6. pc' = "plan" /\ InputKept'
    BY <1>6, <1>d DEF Extend
  <2>7. UNCHANGED <<status, input_ids_list, output_vars, num_computed_tokens,
                    tokens_this_step, queue_vars, slot_vars, seqs_budget, held,
                    infer_vars>>
    BY <1>6 DEF Extend
  <2>8. budget' \in Int /\ todo' \in Seq(Requests)
    BY <2>1, <2>2, <2>5
  <2> QED BY <1>0, <2>4, <2>6, <2>7, <2>8 DEF TypeOK, PCs
<1>7. CASE ExtendActive
  BY <1>6, <1>7 DEF ExtendActive
<1>8. CASE PreemptVictim
  <2>1. PICK i \in DOMAIN active_requests :
          preempt_request(i) /\ held' = <<active_requests[i]>>
    BY <1>8 DEF PreemptVictim
  <2> DEFINE v == active_requests[i]
  <2>2. v \in Requests
    BY <1>a, <2>1
  <2> HIDE DEF v
  <2>3. /\ free_blocks(block_ids[v])
        /\ preempt(v)
        /\ inflight_batches' =
             [inflight_batches EXCEPT ![current_batch_idx] = RemoveAt(@, i)]
        /\ held' = <<v>>
    BY <2>1 DEF preempt_request, v
  <2>4. RemoveAt(active_requests, i) \in Seq(Requests)
    BY <1>a, <2>1, RemoveAtFacts
  <2>5. inflight_batches' \in [Slots -> Seq(Requests)]
    BY <1>0, <1>a, <2>3, <2>4 DEF TypeOK, active_requests
  <2>6. /\ input_ids_list' \in [Requests -> Seq(Token)]
        /\ InputKept'
    <3>1. input_ids_list' = [input_ids_list EXCEPT ![v] = @ \o new_tokens(v)]
      BY <2>3 DEF preempt
    <3>2. /\ input_ids_list[v] \o new_tokens(v) \in Seq(Token)
          /\ Len(input_ids_list[v] \o new_tokens(v)) >= Len(input_ids_list[v])
      BY <1>0, <2>2, FoldedInput
    <3>3. input_ids_list \in [Requests -> Seq(Token)]
      BY <1>0 DEF TypeOK
    <3>4. input_ids_list' \in [Requests -> Seq(Token)]
      BY <2>2, <3>1, <3>2, <3>3
    <3>5. ASSUME NEW r \in Requests PROVE Len(input_ids_list'[r]) >= PromptLen[r]
      <4>1. Len(input_ids_list[r]) >= PromptLen[r] /\ Len(input_ids_list[r]) \in Nat
            /\ PromptLen[r] \in Nat /\ Len(input_ids_list'[r]) \in Nat
        BY <1>0, <3>3, <3>4, RequestAssumption DEF InputKept
      <4>2. input_ids_list'[r] = IF r = v THEN input_ids_list[v] \o new_tokens(v)
                                 ELSE input_ids_list[r]
        BY <3>1, <3>3
      <4> QED BY <3>2, <4>1, <4>2
    <3> QED BY <3>4, <3>5 DEF InputKept
  <2>7. /\ free_blocks_set' \subseteq Blocks
        /\ allocated_blocks' \subseteq Blocks
    BY <1>0, <2>3 DEF TypeOK, free_blocks
  <2>8. /\ status' \in [Requests -> Status]
        /\ block_ids' \in [Requests -> Seq(Blocks)]
        /\ num_computed_tokens' \in [Requests -> Int]
        /\ tokens_this_step' \in [Requests -> Int]
        /\ held' \in Seq(Requests)
    <3>1. status' = [status EXCEPT ![v] = "PENDING"] /\ "PENDING" \in Status
      BY <2>3 DEF preempt, Status
    <3>2. block_ids' = [block_ids EXCEPT ![v] = << >>]
      BY <2>3 DEF preempt
    <3>3. /\ num_computed_tokens' = [num_computed_tokens EXCEPT ![v] = 0]
          /\ tokens_this_step' = [tokens_this_step EXCEPT ![v] = 0]
      BY <2>3 DEF preempt
    <3>4. /\ status \in [Requests -> Status]
          /\ block_ids \in [Requests -> Seq(Blocks)]
          /\ num_computed_tokens \in [Requests -> Int]
          /\ tokens_this_step \in [Requests -> Int]
      BY <1>0 DEF TypeOK
    <3>5. << >> \in Seq(Blocks) /\ <<v>> \in Seq(Requests)
      BY <2>2
    <3> QED BY <2>2, <2>3, <3>1, <3>2, <3>3, <3>4, <3>5
  <2>9. UNCHANGED output_vars
    BY <2>3 DEF preempt
  <2> QED BY <1>0, <1>8, <2>5, <2>6, <2>7, <2>8, <2>9 DEF TypeOK, PreemptVictim, PCs
<1>9. CASE PutVictim
  <2>1. request_queue \in Seq(Requests) /\ held \in Seq(Requests)
    BY <1>0 DEF TypeOK
  <2>2. request_queue' \in Seq(Requests)
    BY <1>9, <2>1, ConcatProperties DEF PutVictim
  <2>3. todo # << >> /\ todo \in Seq(Requests)
    BY <1>0, <1>9 DEF TypeOK, PutVictim
  <2>4. /\ todo' \in Seq(Requests)
        /\ pc' \in {"plan", "retry"}
        /\ pc' = "retry" => todo' # << >>
    BY <1>9, <1>b, <2>3 DEF PutVictim
  <2>5. held' \in Seq(Requests) /\ InputKept'
    BY <1>9, <1>d DEF PutVictim
  <2>6. UNCHANGED <<request_vars, cache_vars, result_queue, polled, slot_vars,
                    budget, seqs_budget, infer_vars>>
    BY <1>9 DEF PutVictim
  <2> QED BY <1>0, <2>2, <2>4, <2>5, <2>6 DEF TypeOK, PCs
<1>10. CASE RetryExtend
  <2>1. CASE extension(Head(todo)) # {}
    BY <1>6, <1>10, <2>1 DEF RetryExtend
  <2>2. CASE extension(Head(todo)) = {}
    <3>1. todo # << >>
      BY <1>0, <1>10 DEF TypeOK, RetryExtend
    <3>2. /\ todo' = Tail(todo) /\ pc' = "plan"
          /\ UNCHANGED <<request_vars, cache_vars, queue_vars, slot_vars,
                         budget, seqs_budget, held, infer_vars>>
      BY <1>10, <2>2 DEF RetryExtend
    <3> QED BY <1>0, <1>b, <1>d, <3>1, <3>2 DEF TypeOK, PCs
  <2> QED BY <2>1, <2>2
<1>11. CASE PlanDone
  BY <1>0, <1>11, <1>d, AdmissionBudgetType DEF TypeOK, PlanDone, PCs
<1>12. CASE AdmitRequest
  <2> DEFINE r == Head(request_queue)
  <2>1. r \in Requests /\ Tail(request_queue) \in Seq(Requests)
    BY <1>12, <1>c DEF AdmitRequest
  <2>2. budget \in Int /\ seqs_budget \in Int /\ Len(input_ids_list[r]) \in Int
    BY <1>0, <2>1 DEF TypeOK
  <2>3. planned_tokens(r, budget) \in Int /\ next_num_comp(r, budget) \in Int
    BY <1>0, <2>1, <2>2, PlanTypes
  <2> HIDE DEF r
  <2>4. PICK new \in activation(r) : /\ TakeBlocks(new)
                                     /\ block_ids' = [block_ids EXCEPT ![r] = @ \o new]
    BY <1>12 DEF AdmitRequest, r
  <2>5. /\ block_ids' \in [Requests -> Seq(Blocks)]
        /\ free_blocks_set' \subseteq Blocks
        /\ allocated_blocks' \subseteq Blocks
    <3>1. 0 \in Int /\ new \in allocate_blocks(Len(input_ids_list[r]), 0)
      BY <2>4 DEF activation
    <3> QED BY <1>0, <2>1, <2>2, <2>4, <3>1, ExtendedTable
  <2>6. /\ status' = [status EXCEPT ![r] = "RUNNING"]
        /\ inflight_batches' =
              [inflight_batches EXCEPT ![current_batch_idx] = Append(@, r)]
        /\ budget' = budget - planned_tokens(r, budget)
        /\ tokens_this_step' =
              [tokens_this_step EXCEPT ![r] = planned_tokens(r, budget)]
        /\ num_computed_tokens' =
              [num_computed_tokens EXCEPT ![r] = next_num_comp(r, budget)]
        /\ request_queue' = Tail(request_queue)
        /\ seqs_budget' = seqs_budget - 1
    BY <1>12 DEF AdmitRequest, r
  <2>7. Append(active_requests, r) \in Seq(Requests)
    BY <1>a, <2>1, AppendProperties
  <2>8. inflight_batches' \in [Slots -> Seq(Requests)]
    BY <1>0, <1>a, <2>6, <2>7 DEF TypeOK, active_requests
  <2>9. /\ status' \in [Requests -> Status]
        /\ tokens_this_step' \in [Requests -> Int]
        /\ num_computed_tokens' \in [Requests -> Int]
    BY <1>0, <2>1, <2>3, <2>6 DEF TypeOK, Status
  <2>10. budget' \in Int /\ seqs_budget' \in Int /\ request_queue' \in Seq(Requests)
    BY <2>1, <2>2, <2>3, <2>6
  <2>11. UNCHANGED <<input_ids_list, output_vars, result_queue, polled,
                     current_batch_idx, pc, todo, held, infer_vars>>
    BY <1>12 DEF AdmitRequest
  <2> QED BY <1>0, <1>d, <2>5, <2>8, <2>9, <2>10, <2>11 DEF TypeOK
<1>13. CASE RejectHead
  <2>1. held' \in Seq(Requests) /\ request_queue' \in Seq(Requests) /\ pc' = "requeue"
    BY <1>13, <1>c DEF RejectHead
  <2>2. UNCHANGED <<request_vars, cache_vars, result_queue, polled, slot_vars,
                    todo, budget, seqs_budget, infer_vars>>
    BY <1>13 DEF RejectHead
  <2> QED BY <1>0, <1>d, <2>1, <2>2 DEF TypeOK, PCs
<1>14. CASE Requeue
  <2>1. request_queue \in Seq(Requests) /\ held \in Seq(Requests)
    BY <1>0 DEF TypeOK
  <2>2. request_queue' \in Seq(Requests)
    BY <1>14, <2>1, ConcatProperties DEF Requeue
  <2> QED BY <1>0, <1>14, <1>d, <2>2 DEF TypeOK, Requeue, PCs
<1>15. CASE Dispatch
  <2>1. get_snapshot(active_requests) = active_requests
    BY <1>0, <1>a, SnapshotIsSlot DEF active_requests
  <2>2. /\ get_snapshot(inflight_batches[next_batch_idx]) = inflight_batches[next_batch_idx]
        /\ inflight_batches[next_batch_idx] \in Seq(Requests)
    BY <1>0, <1>a, SnapshotIsSlot DEF TypeOK
  <2>3. batch_to_infer' \in Seq(Requests) /\ batch_to_update' \in Seq(Requests)
    BY <1>15, <1>a, <2>1, <2>2 DEF Dispatch
  <2>4. /\ pc' \in {"schedule", "infer"} /\ budget' = 0 /\ seqs_budget' = 0
        /\ current_batch_idx' = next_batch_idx
    BY <1>15 DEF Dispatch
  <2>5. UNCHANGED <<request_vars, cache_vars, queue_vars, inflight_batches, todo,
                    held, pipe, infer_result, row, finished_requests>>
    BY <1>15 DEF Dispatch
  <2> QED BY <1>0, <1>a, <1>d, <2>3, <2>4, <2>5 DEF TypeOK, PCs
<1>16. CASE Infer
  <2>1. output_of(batch_to_infer) \in InferencerOutput
    BY <1>0, OutputType DEF TypeOK
  <2>2. NoOutput \in InferencerOutput
    BY DEF NoOutput, InferencerOutput
  <2>3. pipe \in Seq(InferencerOutput)
    BY <1>0 DEF TypeOK
  <2>4. pipe' \in Seq(InferencerOutput) /\ infer_result' \in InferencerOutput
    <3>1. CASE PPSize = 1
      BY <1>16, <2>1, <2>3, <3>1 DEF Infer
    <3>2. CASE PPSize # 1
      <4> DEFINE rest == IF batch_to_update # << >> THEN Tail(pipe) ELSE pipe
                 sent == IF batch_to_infer # << >> THEN <<output_of(batch_to_infer)>>
                         ELSE << >>
      <4>1. /\ batch_to_update # << >> => pipe # << >>
            /\ infer_result' = IF batch_to_update # << >> THEN Head(pipe) ELSE NoOutput
            /\ pipe' = rest \o sent
        BY <1>16, <3>2 DEF Infer
      <4>2. rest \in Seq(InferencerOutput)
        BY <2>3, <4>1, HeadTailProperties
      <4>3. sent \in Seq(InferencerOutput)
        BY <2>1
      <4>4. infer_result' \in InferencerOutput
        BY <2>2, <2>3, <4>1, HeadTailProperties
      <4> HIDE DEF rest, sent
      <4> QED BY <4>1, <4>2, <4>3, <4>4, ConcatProperties
    <3> QED BY <3>1, <3>2
  <2>5. pc' \in {"update", "schedule"} /\ row' = 1
    BY <1>16 DEF Infer
  <2>6. UNCHANGED <<request_vars, cache_vars, queue_vars, slot_vars, todo,
                    budget, seqs_budget, held, batch_to_infer, batch_to_update,
                    finished_requests>>
    BY <1>16 DEF Infer
  <2> QED BY <1>0, <1>d, <2>4, <2>5, <2>6 DEF TypeOK, PCs
<1>e. row' = row + 1 => row' \in Nat
  BY <1>0 DEF TypeOK
<1>17. CASE UpdateSkip
  <2>1. row' \in Nat
    BY <1>17, <1>e DEF UpdateSkip
  <2>2. UNCHANGED <<request_vars, cache_vars, queue_vars, slot_vars, pc, todo,
                    budget, seqs_budget, held, batch_to_infer, batch_to_update,
                    pipe, infer_result, finished_requests>>
    BY <1>17 DEF UpdateSkip
  <2> QED BY <1>0, <1>d, <2>1, <2>2 DEF TypeOK
<1>18. ASSUME TakesToken, ~row_raises, process_generated_token(current)
       PROVE  /\ current \in Requests
              /\ generated_tokens' \in [Requests -> Seq(Token)]
              /\ generated_logprobs' \in [Requests -> Seq(Token)]
  <2>1. current \in Requests
    BY <1>0, <1>18 DEF TypeOK, row_raises, current
  <2>2. \A j \in DOMAIN infer_result.token_ids : infer_result.token_ids[j] \in Token
    BY <1>0 DEF TypeOK, InferencerOutput
  <2>3. /\ generated_tokens \in [Requests -> Seq(Token)]
        /\ generated_logprobs \in [Requests -> Seq(Token)]
    BY <1>0 DEF TypeOK
  <2> HIDE DEF current
  <2>4. generated_tokens' \in [Requests -> Seq(Token)]
    <3>1. infer_result.token_ids[row] \in Token
      BY <1>18, <2>2 DEF row_raises
    <3>2. generated_tokens' = [generated_tokens EXCEPT ![current] =
                                 Append(@, infer_result.token_ids[row])]
      BY <1>18 DEF process_generated_token
    <3>3. Append(generated_tokens[current], infer_result.token_ids[row]) \in Seq(Token)
      BY <2>1, <2>3, <3>1, AppendProperties
    <3> QED BY <2>1, <2>3, <3>2, <3>3
  <2>5. generated_logprobs' \in [Requests -> Seq(Token)]
    <3>1. CASE current \in OutputScores
      <4>1. PICK j \in ScoreRows(row) : generated_logprobs' =
              [generated_logprobs EXCEPT ![current] =
                 Append(@, infer_result.token_ids[j])]
        BY <1>18, <3>1 DEF process_generated_token
      <4>2. infer_result.token_ids[j] \in Token
        BY <2>2, <4>1 DEF ScoreRows
      <4>3. Append(generated_logprobs[current], infer_result.token_ids[j]) \in Seq(Token)
        BY <2>1, <2>3, <4>2, AppendProperties
      <4> QED BY <2>1, <2>3, <4>1, <4>3
    <3>2. CASE current \notin OutputScores
      BY <1>18, <2>3, <3>2 DEF process_generated_token
    <3> QED BY <3>1, <3>2
  <2> QED BY <2>1, <2>4, <2>5
<1>19. CASE UpdateContinue
  <2>1. /\ generated_tokens' \in [Requests -> Seq(Token)]
        /\ generated_logprobs' \in [Requests -> Seq(Token)]
    BY <1>18, <1>19 DEF UpdateContinue
  <2>2. row' \in Nat
    BY <1>19, <1>e DEF UpdateContinue
  <2>3. UNCHANGED <<status, input_ids_list, num_computed_tokens, tokens_this_step,
                    block_ids, cache_vars, queue_vars, slot_vars, pc, todo,
                    budget, seqs_budget, held, batch_to_infer, batch_to_update,
                    pipe, infer_result, finished_requests>>
    BY <1>19 DEF UpdateContinue
  <2> QED BY <1>0, <1>d, <2>1, <2>2, <2>3 DEF TypeOK
<1>20. CASE UpdateFinish
  <2>1. /\ current \in Requests
        /\ generated_tokens' \in [Requests -> Seq(Token)]
        /\ generated_logprobs' \in [Requests -> Seq(Token)]
    BY <1>18, <1>20 DEF UpdateFinish
  <2> HIDE DEF current
  <2>2. finalize_request(current)
    BY <1>20 DEF UpdateFinish
  <2>3. PICK i \in DOMAIN active_requests :
          inflight_batches' =
            [inflight_batches EXCEPT ![current_batch_idx] = RemoveAt(@, i)]
    BY <2>2 DEF finalize_request
  <2>4. RemoveAt(active_requests, i) \in Seq(Requests)
    BY <1>a, <2>3, RemoveAtFacts
  <2>5. inflight_batches' \in [Slots -> Seq(Requests)]
    BY <1>0, <1>a, <2>3, <2>4 DEF TypeOK, active_requests
  <2>6. /\ free_blocks_set' \subseteq Blocks
        /\ allocated_blocks' \subseteq Blocks
    BY <1>0, <2>2 DEF TypeOK, free_blocks, finalize_request
  <2>7. status' \in [Requests -> Status]
    <3>1. status' = [status EXCEPT ![current] = "FINISHED"] /\ "FINISHED" \in Status
      BY <2>2 DEF finalize_request, Status
    <3> QED BY <1>0, <2>1, <3>1 DEF TypeOK
  <2>8. block_ids' \in [Requests -> Seq(Blocks)]
    <3>1. block_ids' = [block_ids EXCEPT ![current] = << >>]
      BY <2>2 DEF finalize_request
    <3>2. << >> \in Seq(Blocks) /\ block_ids \in [Requests -> Seq(Blocks)]
      BY <1>0 DEF TypeOK
    <3> QED BY <2>1, <3>1, <3>2
  <2>9. finished_requests' \in Seq(Requests)
    BY <1>0, <1>20, <2>1, AppendProperties DEF TypeOK, UpdateFinish
  <2>10. row' \in Nat
    BY <1>20, <1>e DEF UpdateFinish
  <2>11. UNCHANGED <<input_ids_list, num_computed_tokens, tokens_this_step,
                     queue_vars, current_batch_idx, pc, todo, budget,
                     seqs_budget, held, batch_to_infer, batch_to_update, pipe,
                     infer_result>>
    BY <1>20 DEF UpdateFinish
  <2> QED BY <1>0, <1>d, <2>1, <2>5, <2>6, <2>7, <2>8, <2>9, <2>10, <2>11 DEF TypeOK
<1>21. CASE UpdateRaise
  <2>1. << >> \in Seq(Requests)
    OBVIOUS
  <2> QED BY <1>0, <1>21, <1>d, <2>1 DEF TypeOK, UpdateRaise, PCs
<1>22. CASE UpdateDone
  <2>1. result_queue' \in Seq(Seq(Requests))
    BY <1>0, <1>22, AppendProperties DEF TypeOK, UpdateDone
  <2>2. NoOutput \in InferencerOutput
    BY DEF NoOutput, InferencerOutput
  <2>3. /\ finished_requests' \in Seq(Requests)
        /\ batch_to_infer' \in Seq(Requests)
        /\ batch_to_update' \in Seq(Requests)
        /\ infer_result' = NoOutput /\ row' \in Nat /\ pc' = "schedule"
    BY <1>22 DEF UpdateDone
  <2>4. UNCHANGED <<request_vars, cache_vars, request_queue, polled, slot_vars,
                    todo, budget, seqs_budget, held, pipe>>
    BY <1>22 DEF UpdateDone
  <2> QED BY <1>0, <1>d, <2>1, <2>2, <2>3, <2>4 DEF TypeOK, PCs
<1>23. CASE UNCHANGED vars
  BY <1>0, <1>23 DEF TypeOK, InputKept
<1> QED
  BY <1>1, <1>2, <1>3, <1>4, <1>5, <1>7, <1>8, <1>9, <1>10, <1>11, <1>12, <1>13,
     <1>14, <1>15, <1>16, <1>17, <1>19, <1>20, <1>21, <1>22, <1>23
     DEF Next, GenerationLoop

-----------------------------------------------------------------------------
(* Block ownership. *)

\* A successful allocation moves distinct free blocks to the end of one table.
LEMMA TakeKeepsBlocks ==
  ASSUME TypeOK, BlocksConserved, NEW r \in Requests, NEW t \in Int, NEW n \in Int,
         NEW new \in allocate_blocks(t, n), TakeBlocks(new),
         block_ids' = [block_ids EXCEPT ![r] = @ \o new]
  PROVE  BlocksConserved'
<1>1. /\ free_blocks_set \subseteq Blocks
      /\ block_ids \in [Requests -> Seq(Blocks)]
  BY DEF TypeOK
<1>2. /\ new \in Seq(free_blocks_set)
      /\ \A i, j \in DOMAIN new : new[i] = new[j] => i = j
  BY <1>1, AllocatedAreFree
<1>3. new \in Seq(Blocks)
  BY <1>1, <1>2, SeqMonotonic
<1> DEFINE taken == {new[i] : i \in DOMAIN new}
           old == block_ids[r]
<1>4. /\ taken \subseteq free_blocks_set
      /\ free_blocks_set' = free_blocks_set \ taken
      /\ allocated_blocks' = allocated_blocks \cup taken
  BY <1>2 DEF TakeBlocks
<1>5. /\ DOMAIN (old \o new) = 1..(Len(old) + Len(new))
      /\ Len(old) \in Nat /\ Len(new) \in Nat
      /\ DOMAIN old = 1..Len(old) /\ DOMAIN new = 1..Len(new)
      /\ \A i \in 1..(Len(old) + Len(new)) :
           (old \o new)[i] = IF i <= Len(old) THEN old[i] ELSE new[i - Len(old)]
  <2>1. old \in Seq(Blocks)
    BY <1>1
  <2> HIDE DEF old
  <2>2. /\ old \o new \in Seq(Blocks)
        /\ Len(old \o new) = Len(old) + Len(new)
        /\ \A i \in 1..(Len(old) + Len(new)) :
             (old \o new)[i] = IF i <= Len(old) THEN old[i] ELSE new[i - Len(old)]
    BY <1>3, <2>1, ConcatProperties
  <2> QED BY <1>3, <2>1, <2>2, LenProperties
<1>6. \A q \in Requests : block_ids'[q] = IF q = r THEN old \o new ELSE block_ids[q]
  BY <1>1
<1>7. \A q \in Requests : \A i \in DOMAIN block_ids[q] :
        block_ids[q][i] \in allocated_blocks /\ block_ids[q][i] \notin free_blocks_set
  <2> SUFFICES ASSUME NEW q \in Requests, NEW i \in DOMAIN block_ids[q]
               PROVE  block_ids[q][i] \in allocated_blocks
                      /\ block_ids[q][i] \notin free_blocks_set
    OBVIOUS
  <2>1. block_ids[q][i] \in Blocks
    BY <1>1
  <2>2. block_ids[q][i] \in ToSet(block_ids[q])
    BY DEF ToSet
  <2> QED BY <2>1, <2>2 DEF BlocksConserved
<1>8. \A i \in DOMAIN (old \o new) :
        \/ i \in DOMAIN old /\ (old \o new)[i] = old[i]
        \/ /\ i \notin DOMAIN old
           /\ i - Len(old) \in DOMAIN new
           /\ (old \o new)[i] = new[i - Len(old)]
  BY <1>5
<1> HIDE DEF old, taken
<1>9. ASSUME NEW q \in Requests, NEW p \in Requests,
             NEW i \in DOMAIN block_ids'[q], NEW j \in DOMAIN block_ids'[p],
             block_ids'[q][i] = block_ids'[p][j]
      PROVE  q = p /\ i = j
  <2>1. \A k \in DOMAIN new : new[k] \in free_blocks_set
    BY <1>2
  <2>2. CASE q # r /\ p # r
    BY <1>6, <1>9, <2>2 DEF BlocksConserved
  <2>3. CASE q = r /\ p # r
    BY <1>6, <1>7, <1>8, <1>9, <2>1, <2>3 DEF BlocksConserved, old
  <2>4. CASE q # r /\ p = r
    BY <1>6, <1>7, <1>8, <1>9, <2>1, <2>4 DEF BlocksConserved, old
  <2>5. CASE q = r /\ p = r
    <3>1. i \in DOMAIN (old \o new) /\ j \in DOMAIN (old \o new)
          /\ (old \o new)[i] = (old \o new)[j]
      BY <1>6, <1>9, <2>5
    <3>2. CASE i \in DOMAIN old /\ j \in DOMAIN old
      <4>1. old[i] = old[j]
        BY <1>8, <3>1, <3>2
      <4> QED BY <2>5, <3>2, <4>1 DEF BlocksConserved, old
    <3>3. CASE i \notin DOMAIN old /\ j \notin DOMAIN old
      <4>1. i - Len(old) = j - Len(old)
        BY <1>2, <1>8, <3>1, <3>3
      <4> QED BY <1>5, <3>1, <4>1, <2>5
    <3>4. CASE (i \in DOMAIN old) # (j \in DOMAIN old)
      BY <1>7, <1>8, <2>1, <3>1, <3>4 DEF old
    <3> QED BY <2>5, <3>2, <3>3, <3>4
  <2> QED BY <2>2, <2>3, <2>4, <2>5
<1>10. ASSUME NEW b \in Blocks
       PROVE  b \in allocated_blocks' <=> \E q \in Requests : b \in ToSet(block_ids'[q])
  <2>1. ASSUME b \in allocated_blocks'
        PROVE  \E q \in Requests : b \in ToSet(block_ids'[q])
    <3>1. CASE b \in taken
      <4>1. PICK k \in DOMAIN new : b = new[k]
        BY <3>1 DEF taken
      <4>2. /\ k + Len(old) \in DOMAIN (old \o new)
            /\ (old \o new)[k + Len(old)] = b
        BY <1>5, <4>1
      <4> QED BY <1>6, <4>2 DEF ToSet
    <3>2. CASE b \in allocated_blocks
      <4>1. PICK q \in Requests : b \in ToSet(block_ids[q])
        BY <3>2 DEF BlocksConserved
      <4>2. PICK k \in DOMAIN block_ids[q] : b = block_ids[q][k]
        BY <4>1 DEF ToSet
      <4>3. CASE q # r
        BY <1>6, <4>1, <4>3
      <4>4. CASE q = r
        <5>1. k \in DOMAIN (old \o new) /\ (old \o new)[k] = b
          BY <1>5, <4>2, <4>4 DEF old
        <5> QED BY <1>6, <5>1 DEF ToSet
      <4> QED BY <4>3, <4>4
    <3> QED BY <1>4, <2>1, <3>1, <3>2
  <2>2. ASSUME NEW q \in Requests, b \in ToSet(block_ids'[q])
        PROVE  b \in allocated_blocks'
    <3>1. PICK k \in DOMAIN block_ids'[q] : b = block_ids'[q][k]
      BY <2>2 DEF ToSet
    <3>2. CASE q # r
      BY <1>4, <1>6, <1>7, <3>1, <3>2
    <3>3. CASE q = r
      <4>1. b \in taken \/ b \in allocated_blocks
        BY <1>6, <1>7, <1>8, <3>1, <3>3 DEF taken, old
      <4> QED BY <1>4, <4>1
    <3> QED BY <3>2, <3>3
  <2> QED BY <2>1, <2>2
<1>11. /\ free_blocks_set' \cap allocated_blocks' = {}
       /\ free_blocks_set' \cup allocated_blocks' = Blocks
  BY <1>4 DEF BlocksConserved
<1> QED BY <1>9, <1>10, <1>11 DEF BlocksConserved

\* Freeing a request's whole table and emptying it, as _preempt_request and
\* _finalize_request do.
LEMMA FreeKeepsBlocks ==
  ASSUME TypeOK, BlocksConserved, NEW r \in Requests, free_blocks(block_ids[r]),
         block_ids' = [block_ids EXCEPT ![r] = << >>]
  PROVE  BlocksConserved'
<1>1. block_ids \in [Requests -> Seq(Blocks)]
  BY DEF TypeOK
<1>2. \A q \in Requests : block_ids'[q] = IF q = r THEN << >> ELSE block_ids[q]
  BY <1>1
<1> DEFINE released == ToSet(block_ids[r])
<1>3. released \subseteq allocated_blocks
  <2> SUFFICES ASSUME NEW b \in released PROVE b \in allocated_blocks
    OBVIOUS
  <2>1. b \in Blocks
    BY <1>1 DEF ToSet
  <2> QED BY <2>1 DEF BlocksConserved
<1>4. /\ allocated_blocks' = allocated_blocks \ released
      /\ free_blocks_set' = free_blocks_set \cup released
  BY <1>3 DEF free_blocks, ToSet
<1>5. /\ free_blocks_set' \cap allocated_blocks' = {}
      /\ free_blocks_set' \cup allocated_blocks' = Blocks
  BY <1>3, <1>4 DEF BlocksConserved
<1>6. ASSUME NEW q \in Requests, NEW p \in Requests,
             NEW i \in DOMAIN block_ids'[q], NEW j \in DOMAIN block_ids'[p],
             block_ids'[q][i] = block_ids'[p][j]
      PROVE  q = p /\ i = j
  <2>1. q # r /\ p # r
    BY <1>2, <1>6
  <2> QED BY <1>2, <1>6, <2>1 DEF BlocksConserved
<1>7. ASSUME NEW b \in Blocks
      PROVE  b \in allocated_blocks' <=> \E q \in Requests : b \in ToSet(block_ids'[q])
  <2>1. \A q \in Requests : q # r => ToSet(block_ids[q]) \cap released = {}
    BY DEF BlocksConserved, ToSet
  <2>2. ToSet(block_ids'[r]) = {}
    BY <1>2 DEF ToSet
  <2>3. \A q \in Requests : q # r => ToSet(block_ids'[q]) = ToSet(block_ids[q])
    BY <1>2
  <2>4. b \in allocated_blocks <=> \E q \in Requests : b \in ToSet(block_ids[q])
    BY DEF BlocksConserved
  <2> HIDE DEF released
  <2>5. b \in released <=> b \in ToSet(block_ids[r])
    BY DEF released
  <2> QED BY <1>4, <2>1, <2>2, <2>3, <2>4, <2>5
<1> QED BY <1>5, <1>6, <1>7 DEF BlocksConserved

LEMMA BlocksStep == IInv /\ BlocksConserved /\ [Next]_vars => BlocksConserved'
<1> SUFFICES ASSUME IInv, BlocksConserved, [Next]_vars PROVE BlocksConserved'
  OBVIOUS
<1>0. TypeOK
  BY DEF IInv
<1>1. UNCHANGED <<cache_vars, block_ids>> => BlocksConserved'
  BY DEF cache_vars, BlocksConserved
<1>2. ASSUME pc \in {"extend", "retry"}, Extend(Head(todo))
      PROVE  BlocksConserved'
  <2> DEFINE r == Head(todo)
  <2>1. r \in Requests
    BY <1>0, <1>2 DEF TypeOK
  <2>2. num_computed_tokens[r] \in Int /\ Len(block_ids[r]) \in Int
    BY <1>0, <2>1 DEF TypeOK
  <2> HIDE DEF r
  <2>3. PICK new \in extension(r) : /\ TakeBlocks(new)
                                    /\ block_ids' = [block_ids EXCEPT ![r] = @ \o new]
    BY <1>2 DEF Extend, r
  <2> QED BY <1>0, <2>1, <2>2, <2>3, TakeKeepsBlocks DEF extension
<1>3. CASE PreemptVictim
  <2>1. PICK i \in DOMAIN active_requests : preempt_request(i)
    BY <1>3 DEF PreemptVictim
  <2>2. active_requests[i] \in Requests
    BY <1>0, <2>1 DEF TypeOK, active_requests
  <2> QED BY <1>0, <2>1, <2>2, FreeKeepsBlocks DEF preempt_request, preempt
<1>4. CASE RetryExtend
  BY <1>1, <1>2, <1>4 DEF RetryExtend, request_vars
<1>5. CASE AdmitRequest
  <2> DEFINE r == Head(request_queue)
  <2>1. r \in Requests
    BY <1>0, <1>5 DEF TypeOK, AdmitRequest
  <2>2. Len(input_ids_list[r]) \in Int /\ 0 \in Int
    BY <1>0, <2>1 DEF TypeOK
  <2> HIDE DEF r
  <2>3. PICK new \in activation(r) : /\ TakeBlocks(new)
                                     /\ block_ids' = [block_ids EXCEPT ![r] = @ \o new]
    BY <1>5 DEF AdmitRequest, r
  <2> QED BY <1>0, <2>1, <2>2, <2>3, TakeKeepsBlocks DEF activation
<1>6. CASE UpdateFinish
  <2>1. current \in Requests /\ finalize_request(current)
    BY <1>0, <1>6 DEF TypeOK, UpdateFinish, row_raises, current
  <2> QED BY <1>0, <2>1, FreeKeepsBlocks DEF finalize_request
<1>7. CASE ExtendActive
  BY <1>2, <1>7 DEF ExtendActive
<1>8. ASSUME NEW r \in Requests, submit_request(r) PROVE BlocksConserved'
  BY <1>1, <1>8 DEF submit_request
<1>9. CASE poll_results \/ ScheduleBegin \/ SkipPreempted \/ PutVictim \/ PlanDone
           \/ RejectHead \/ Requeue \/ Dispatch \/ Infer \/ UpdateSkip
           \/ UpdateRaise \/ UpdateDone
  BY <1>1, <1>9 DEF poll_results, ScheduleBegin, SkipPreempted, PutVictim, PlanDone,
     RejectHead, Requeue, Dispatch, Infer, UpdateSkip, UpdateRaise, UpdateDone,
     request_vars
<1>10. CASE PlanActive
  BY <1>1, <1>10 DEF PlanActive
<1>11. CASE UpdateContinue
  BY <1>1, <1>11 DEF UpdateContinue
<1>12. CASE UNCHANGED vars
  BY <1>1, <1>12 DEF vars, request_vars
<1> QED
  BY <1>3, <1>4, <1>5, <1>6, <1>7, <1>8, <1>9, <1>10, <1>11, <1>12
     DEF Next, GenerationLoop

-----------------------------------------------------------------------------
(* Where a request is. *)

\* put() on a queue: everything keeps its place, the new element is last.
LEMMA AppendElements ==
  ASSUME NEW S, NEW s \in Seq(S), NEW e \in S
  PROVE  /\ \A i \in DOMAIN Append(s, e) :
              \/ i \in DOMAIN s /\ Append(s, e)[i] = s[i]
              \/ i = Len(s) + 1 /\ i \notin DOMAIN s /\ Append(s, e)[i] = e
         /\ \A i \in DOMAIN s : i \in DOMAIN Append(s, e) /\ Append(s, e)[i] = s[i]
         /\ Len(s) + 1 \in DOMAIN Append(s, e) /\ Append(s, e)[Len(s) + 1] = e
OBVIOUS

\* get() on a queue: the first element is gone.
LEMMA TailElements ==
  ASSUME NEW S, NEW s \in Seq(S), s # << >>
  PROVE  /\ 1 \in DOMAIN s /\ Head(s) = s[1] /\ Head(s) \in S
         /\ \A i \in DOMAIN Tail(s) : /\ i + 1 \in DOMAIN s /\ i + 1 # 1
                                      /\ Tail(s)[i] = s[i + 1]
         /\ \A i \in DOMAIN s :
              i = 1 \/ \E j \in DOMAIN Tail(s) : Tail(s)[j] = s[i]
         /\ \A i, j \in DOMAIN Tail(s) : i + 1 = j + 1 => i = j
<1>1. \A i \in DOMAIN s : i = 1 \/ (i - 1 \in DOMAIN Tail(s) /\ Tail(s)[i - 1] = s[i])
  OBVIOUS
<1>2. /\ 1 \in DOMAIN s /\ Head(s) = s[1] /\ Head(s) \in S
      /\ \A i \in DOMAIN Tail(s) : /\ i + 1 \in DOMAIN s /\ i + 1 # 1
                                   /\ Tail(s)[i] = s[i + 1]
      /\ \A i, j \in DOMAIN Tail(s) : i + 1 = j + 1 => i = j
  OBVIOUS
<1> QED BY <1>1, <1>2

\* pop() of one active request: the others stay, each in one place.
LEMMA RemoveElements ==
  ASSUME NEW S, NEW s \in Seq(S), NEW i \in DOMAIN s
  PROVE  /\ \A j \in DOMAIN RemoveAt(s, i) :
              LET k == IF j < i THEN j ELSE j + 1
              IN  k \in DOMAIN s /\ k # i /\ RemoveAt(s, i)[j] = s[k]
         /\ \A k \in DOMAIN s : k # i =>
              LET j == IF k < i THEN k ELSE k - 1
              IN  j \in DOMAIN RemoveAt(s, i) /\ RemoveAt(s, i)[j] = s[k]
<1>1. /\ RemoveAt(s, i) \in Seq(S)
      /\ Len(RemoveAt(s, i)) = Len(s) - 1
      /\ \A j \in 1..(Len(s) - 1) :
           RemoveAt(s, i)[j] = IF j < i THEN s[j] ELSE s[j + 1]
  BY RemoveAtFacts
<1> DEFINE R == RemoveAt(s, i)
<1>2. DOMAIN R = 1..(Len(s) - 1) /\ DOMAIN s = 1..Len(s) /\ Len(s) \in Nat
  BY <1>1
<1> HIDE DEF R
<1>3. \A j \in 1..(Len(s) - 1) : R[j] = IF j < i THEN s[j] ELSE s[j + 1]
  BY <1>1 DEF R
<1>4. ASSUME NEW j \in DOMAIN R
      PROVE  LET k == IF j < i THEN j ELSE j + 1
             IN  k \in DOMAIN s /\ k # i /\ R[j] = s[k]
  BY <1>2, <1>3
<1>5. ASSUME NEW k \in DOMAIN s, k # i
      PROVE  LET j == IF k < i THEN k ELSE k - 1
             IN  j \in DOMAIN R /\ R[j] = s[k]
  BY <1>2, <1>3, <1>5
<1> QED BY <1>4, <1>5 DEF R

\* The actions that move no request: only the loop's own bookkeeping changes.
Bookkeeping ==
  \/ ScheduleBegin \/ SkipPreempted \/ PlanActive \/ ExtendActive \/ RetryExtend
  \/ PlanDone \/ Dispatch \/ Infer \/ UpdateSkip \/ UpdateContinue \/ UpdateRaise
  \/ UNCHANGED vars

LEMMA BookkeepingMovesNothing ==
  Bookkeeping =>
    /\ UNCHANGED <<status, request_queue, held, inflight_batches, result_queue,
                   polled>>
    /\ UpdateRaise \/ finished_requests' = finished_requests
    /\ pc' \in {"put_victim", "requeue"} <=> pc \in {"put_victim", "requeue"}
<1> SUFFICES ASSUME Bookkeeping
             PROVE  /\ UNCHANGED <<status, request_queue, held, inflight_batches,
                                   result_queue, polled>>
                    /\ UpdateRaise \/ finished_requests' = finished_requests
                    /\ pc' \in {"put_victim", "requeue"}
                         <=> pc \in {"put_victim", "requeue"}
  OBVIOUS
<1> USE DEF vars, request_vars, queue_vars, slot_vars, loop_vars, infer_vars
<1>1. CASE ScheduleBegin \/ SkipPreempted \/ PlanActive \/ PlanDone
  BY <1>1 DEF ScheduleBegin, SkipPreempted, PlanActive, PlanDone
<1>2. CASE ExtendActive \/ RetryExtend
  BY <1>2 DEF ExtendActive, RetryExtend, Extend
<1>3. CASE Dispatch
  BY <1>3 DEF Dispatch
<1>4. CASE Infer
  BY <1>4 DEF Infer
<1>5. CASE UpdateSkip \/ UpdateContinue \/ UpdateRaise
  BY <1>5 DEF UpdateSkip, UpdateContinue, UpdateRaise, TakesToken
<1>6. CASE UNCHANGED vars
  BY <1>6
<1> QED BY <1>1, <1>2, <1>3, <1>4, <1>5, <1>6 DEF Bookkeeping

LEMMA NextCases ==
  [Next]_vars =>
    \/ \E r \in Requests : submit_request(r)
    \/ poll_results \/ PreemptVictim \/ PutVictim \/ AdmitRequest \/ RejectHead
    \/ Requeue \/ UpdateFinish \/ UpdateDone
    \/ Bookkeeping
BY DEF Next, GenerationLoop, Bookkeeping

\* The victim that min() picks is a running request of the current slot.
LEMMA PreemptMoves ==
  ASSUME TypeOK, RunningOnce, PreemptVictim
  PROVE  \E i \in DOMAIN active_requests :
           /\ active_requests[i] \in Requests
           /\ status[active_requests[i]] = "RUNNING"
           /\ status' = [status EXCEPT ![active_requests[i]] = "PENDING"]
           /\ held' = <<active_requests[i]>>
           /\ inflight_batches' =
                [inflight_batches EXCEPT ![current_batch_idx] =
                   RemoveAt(active_requests, i)]
<1>1. PICK i \in DOMAIN active_requests : /\ preempt_request(i)
                                          /\ held' = <<active_requests[i]>>
  BY DEF PreemptVictim
<1>2. /\ current_batch_idx \in Slots
      /\ inflight_batches[current_batch_idx] \in Seq(Requests)
  BY DEF TypeOK
<1>3. active_requests[i] \in Requests
  BY <1>1, <1>2 DEF active_requests
<1>4. status[active_requests[i]] = "RUNNING"
  BY <1>1, <1>2 DEF active_requests, RunningOnce
<1> QED BY <1>1, <1>3, <1>4 DEF preempt_request, preempt, active_requests

\* The request that update() finishes is a running request of the current slot.
LEMMA FinishMoves ==
  ASSUME TypeOK, RunningOnce, UpdateFinish
  PROVE  \E i \in DOMAIN active_requests :
           /\ active_requests[i] \in Requests
           /\ status[active_requests[i]] = "RUNNING"
           /\ status' = [status EXCEPT ![active_requests[i]] = "FINISHED"]
           /\ finished_requests' = Append(finished_requests, active_requests[i])
           /\ inflight_batches' =
                [inflight_batches EXCEPT ![current_batch_idx] =
                   RemoveAt(active_requests, i)]
<1>1. finalize_request(current)
  BY DEF UpdateFinish
<1>2. PICK i \in DOMAIN active_requests :
        /\ active_requests[i] = current
        /\ inflight_batches' =
             [inflight_batches EXCEPT ![current_batch_idx] = RemoveAt(@, i)]
  BY <1>1 DEF finalize_request
<1>3. /\ current_batch_idx \in Slots
      /\ inflight_batches[current_batch_idx] \in Seq(Requests)
  BY DEF TypeOK
<1>4. active_requests[i] \in Requests
  BY <1>2, <1>3 DEF active_requests
<1>5. status[active_requests[i]] = "RUNNING"
  BY <1>2, <1>3 DEF active_requests, RunningOnce
<1>6. status' = [status EXCEPT ![active_requests[i]] = "FINISHED"]
  BY <1>1, <1>2 DEF finalize_request
<1>7. finished_requests' = Append(finished_requests, active_requests[i])
  BY <1>2 DEF UpdateFinish
<1>8. inflight_batches' = [inflight_batches EXCEPT ![current_batch_idx] =
                             RemoveAt(active_requests, i)]
  BY <1>2 DEF active_requests
<1> QED BY <1>2, <1>4, <1>5, <1>6, <1>7, <1>8

\* Both puts append the request in hand to the queue.
LEMMA PutMoves ==
  ASSUME TypeOK, WaitingOnce, PutVictim \/ Requeue
  PROVE  /\ held[1] \in Requests /\ held # << >>
         /\ request_queue' = Append(request_queue, held[1])
         /\ held' = << >> /\ status' = status
         /\ pc' \notin {"put_victim", "requeue"}
<1>1. /\ pc \in {"put_victim", "requeue"}
      /\ request_queue' = request_queue \o held
      /\ held' = << >> /\ status' = status
      /\ pc' \notin {"put_victim", "requeue"}
  BY DEF PutVictim, Requeue, request_vars
<1>2. held # << >> /\ Len(held) = 1
  BY <1>1 DEF WaitingOnce
<1>3. held \in Seq(Requests) /\ request_queue \in Seq(Requests)
  BY DEF TypeOK
<1>4. held[1] \in Requests /\ held = <<held[1]>>
  BY <1>2, <1>3
<1>5. request_queue \o <<held[1]>> = Append(request_queue, held[1])
  BY <1>3, <1>4
<1> QED BY <1>1, <1>2, <1>4, <1>5

LEMMA WaitingStep == IInv /\ [Next]_vars => WaitingOnce'
<1> SUFFICES ASSUME IInv, [Next]_vars PROVE WaitingOnce'
  OBVIOUS
<1>0. TypeOK /\ WaitingOnce /\ RunningOnce
  BY DEF IInv
<1>a. /\ request_queue \in Seq(Requests) /\ held \in Seq(Requests)
      /\ status \in [Requests -> Status]
  BY <1>0 DEF TypeOK
<1>b. \A i \in DOMAIN request_queue : request_queue[i] \in Requests
  BY <1>a
<1>1. CASE Bookkeeping
  BY <1>0, <1>1, BookkeepingMovesNothing DEF WaitingOnce
<1>2. CASE poll_results
  BY <1>0, <1>2 DEF poll_results, WaitingOnce, request_vars, loop_vars
<1>3. CASE UpdateDone
  BY <1>0, <1>3 DEF UpdateDone, WaitingOnce, request_vars
<1>4. CASE UpdateFinish
  <2>1. PICK q \in Requests : /\ status[q] = "RUNNING"
                              /\ status' = [status EXCEPT ![q] = "FINISHED"]
    BY <1>0, <1>4, FinishMoves
  <2>2. UNCHANGED <<request_queue, held, pc>>
    BY <1>4 DEF UpdateFinish, queue_vars
  <2>3. held # << >> => held[1] \in Requests
    BY <1>a
  <2> QED BY <1>0, <1>a, <1>b, <2>1, <2>2, <2>3 DEF WaitingOnce
<1>5. ASSUME NEW r \in Requests, submit_request(r) PROVE WaitingOnce'
  <2>1. status[r] = "CREATED" /\ UNCHANGED <<held, pc>>
    BY <1>5 DEF submit_request, loop_vars
  <2>2. held # << >> => held[1] \in Requests
    BY <1>a
  <2>3. CASE ~QueueHasRoom
    <3>1. status' = [status EXCEPT ![r] = "FAILED"] /\ request_queue' = request_queue
      BY <1>5, <2>3 DEF submit_request
    <3> QED BY <1>0, <1>a, <1>b, <2>1, <2>2, <3>1 DEF WaitingOnce
  <2>4. CASE QueueHasRoom
    <3>1. /\ status' = [status EXCEPT ![r] = "PENDING"]
          /\ request_queue' = Append(request_queue, r)
      BY <1>5, <2>4 DEF submit_request
    <3> QED BY <1>0, <1>a, <1>b, <2>1, <2>2, <3>1, AppendElements DEF WaitingOnce
  <2> QED BY <2>3, <2>4
<1>6. CASE PreemptVictim
  <2>1. PICK q \in Requests : /\ status[q] = "RUNNING"
                              /\ status' = [status EXCEPT ![q] = "PENDING"]
                              /\ held' = <<q>>
    BY <1>0, <1>6, PreemptMoves
  <2>2. request_queue' = request_queue /\ pc = "extend" /\ pc' = "put_victim"
    BY <1>6 DEF PreemptVictim, queue_vars
  <2>3. held = << >>
    BY <1>0, <2>2 DEF WaitingOnce
  <2>4. Len(held') = 1 /\ held'[1] = q /\ held' # << >>
    BY <2>1
  <2> QED BY <1>0, <1>a, <1>b, <2>1, <2>2, <2>3, <2>4 DEF WaitingOnce
<1>7. CASE PutVictim \/ Requeue
  <2>1. /\ held[1] \in Requests /\ held # << >>
        /\ request_queue' = Append(request_queue, held[1])
        /\ held' = << >> /\ status' = status
        /\ pc' \notin {"put_victim", "requeue"}
    BY <1>0, <1>7, PutMoves
  <2> QED BY <1>0, <1>a, <1>b, <2>1, AppendElements DEF WaitingOnce
<1>8. CASE AdmitRequest
  <2> DEFINE h == Head(request_queue)
  <2>1. /\ request_queue # << >> /\ pc = "admit"
        /\ status' = [status EXCEPT ![h] = "RUNNING"]
        /\ request_queue' = Tail(request_queue)
        /\ UNCHANGED <<held, pc>>
    BY <1>8 DEF AdmitRequest, Admitting
  <2>2. held = << >>
    BY <1>0, <2>1 DEF WaitingOnce
  <2>3. h = request_queue[1] /\ 1 \in DOMAIN request_queue /\ h \in Requests
    BY <1>a, <2>1, TailElements
  <2> HIDE DEF h
  <2>4. \A r \in Requests : status'[r] = IF r = h THEN "RUNNING" ELSE status[r]
    BY <1>a, <2>1
  <2>5. /\ \A i \in DOMAIN Tail(request_queue) :
             /\ i + 1 \in DOMAIN request_queue /\ i + 1 # 1
             /\ Tail(request_queue)[i] = request_queue[i + 1]
        /\ \A i \in DOMAIN request_queue :
             i = 1 \/ \E j \in DOMAIN Tail(request_queue) :
                        Tail(request_queue)[j] = request_queue[i]
        /\ \A i, j \in DOMAIN Tail(request_queue) : i + 1 = j + 1 => i = j
    BY <1>a, <2>1, TailElements, Zenon
  <2>6. ASSUME NEW i \in DOMAIN request_queue'
        PROVE  /\ status'[request_queue'[i]] = "PENDING"
               /\ \A j \in DOMAIN request_queue' :
                    request_queue'[i] = request_queue'[j] => i = j
    <3>1. /\ i + 1 \in DOMAIN request_queue /\ i + 1 # 1
          /\ request_queue'[i] = request_queue[i + 1]
      BY <2>1, <2>5
    <3>2. request_queue[i + 1] # h /\ status[request_queue[i + 1]] = "PENDING"
      BY <1>0, <2>3, <3>1 DEF WaitingOnce
    <3>3. ASSUME NEW j \in DOMAIN request_queue', request_queue'[i] = request_queue'[j]
          PROVE  i = j
      <4>1. j + 1 \in DOMAIN request_queue /\ request_queue'[j] = request_queue[j + 1]
        BY <2>1, <2>5
      <4>2. i + 1 = j + 1
        BY <1>0, <3>1, <3>3, <4>1 DEF WaitingOnce
      <4> QED BY <2>1, <2>5, <4>2
    <3> QED BY <1>b, <2>4, <3>1, <3>2, <3>3
  <2>7. ASSUME NEW r \in Requests, status'[r] = "PENDING"
        PROVE  \E i \in DOMAIN request_queue' : r = request_queue'[i]
    BY <1>0, <2>1, <2>2, <2>3, <2>4, <2>5, <2>7 DEF WaitingOnce
  <2> QED BY <2>1, <2>2, <2>6, <2>7 DEF WaitingOnce
<1>9. CASE RejectHead
  <2> DEFINE h == Head(request_queue)
  <2>1. /\ request_queue # << >> /\ pc = "admit" /\ pc' = "requeue"
        /\ request_queue' = Tail(request_queue)
        /\ held' = <<h>>
        /\ status' = status
    BY <1>9 DEF RejectHead, Admitting, request_vars
  <2>2. held = << >>
    BY <1>0, <2>1 DEF WaitingOnce
  <2>3. h = request_queue[1] /\ 1 \in DOMAIN request_queue /\ h \in Requests
    BY <1>a, <2>1, TailElements
  <2>4. Len(held') = 1 /\ held'[1] = h /\ held' # << >>
    BY <2>1
  <2> HIDE DEF h
  <2>5. /\ \A i \in DOMAIN Tail(request_queue) :
             /\ i + 1 \in DOMAIN request_queue /\ i + 1 # 1
             /\ Tail(request_queue)[i] = request_queue[i + 1]
        /\ \A i \in DOMAIN request_queue :
             i = 1 \/ \E j \in DOMAIN Tail(request_queue) :
                        Tail(request_queue)[j] = request_queue[i]
        /\ \A i, j \in DOMAIN Tail(request_queue) : i + 1 = j + 1 => i = j
    BY <1>a, <2>1, TailElements, Zenon
  <2>6. ASSUME NEW i \in DOMAIN request_queue'
        PROVE  /\ status'[request_queue'[i]] = "PENDING"
               /\ request_queue'[i] # h
               /\ \A j \in DOMAIN request_queue' :
                    request_queue'[i] = request_queue'[j] => i = j
    <3>1. /\ i + 1 \in DOMAIN request_queue /\ i + 1 # 1
          /\ request_queue'[i] = request_queue[i + 1]
      BY <2>1, <2>5
    <3>2. request_queue[i + 1] # h /\ status[request_queue[i + 1]] = "PENDING"
      BY <1>0, <2>3, <3>1 DEF WaitingOnce
    <3>3. ASSUME NEW j \in DOMAIN request_queue', request_queue'[i] = request_queue'[j]
          PROVE  i = j
      <4>1. j + 1 \in DOMAIN request_queue /\ request_queue'[j] = request_queue[j + 1]
        BY <2>1, <2>5
      <4>2. i + 1 = j + 1
        BY <1>0, <3>1, <3>3, <4>1 DEF WaitingOnce
      <4> QED BY <2>1, <2>5, <4>2
    <3> QED BY <2>1, <3>1, <3>2, <3>3
  <2>7. ASSUME NEW r \in Requests, status'[r] = "PENDING"
        PROVE  r = h \/ \E i \in DOMAIN request_queue' : r = request_queue'[i]
    BY <1>0, <2>1, <2>2, <2>3, <2>5, <2>7 DEF WaitingOnce
  <2>8. status'[h] = "PENDING"
    BY <1>0, <2>1, <2>3 DEF WaitingOnce
  <2> QED BY <2>1, <2>4, <2>6, <2>7, <2>8 DEF WaitingOnce
<1> QED BY <1>1, <1>2, <1>3, <1>4, <1>5, <1>6, <1>7, <1>8, <1>9, NextCases

\* Popping a request from a slot and changing its status away from RUNNING.
LEMMA PopKeepsRunning ==
  ASSUME TypeOK, RunningOnce, NEW c \in Slots, NEW i \in DOMAIN inflight_batches[c],
         NEW st, st # "RUNNING",
         status' = [status EXCEPT ![inflight_batches[c][i]] = st],
         inflight_batches' =
           [inflight_batches EXCEPT ![c] = RemoveAt(inflight_batches[c], i)]
  PROVE  RunningOnce'
<1> DEFINE s == inflight_batches[c]
           q == inflight_batches[c][i]
           R == RemoveAt(s, i)
<1>1. /\ inflight_batches \in [Slots -> Seq(Requests)]
      /\ status \in [Requests -> Status]
      /\ s \in Seq(Requests) /\ q \in Requests
  <2>1. /\ inflight_batches \in [Slots -> Seq(Requests)]
        /\ status \in [Requests -> Status]
    BY DEF TypeOK
  <2>2. s \in Seq(Requests)
    BY <2>1
  <2> QED BY <2>1, <2>2
<1>2. /\ \A j \in DOMAIN R : \E k \in DOMAIN s : /\ k # i /\ R[j] = s[k]
                                                /\ k = IF j < i THEN j ELSE j + 1
      /\ \A k \in DOMAIN s : k # i => \E j \in DOMAIN R : R[j] = s[k]
  BY <1>1, RemoveElements
<1>3. DOMAIN R \subseteq Int /\ i \in Int
  BY <1>1, RemoveAtFacts
<1>4. \A k \in Slots : inflight_batches'[k] = IF k = c THEN R ELSE inflight_batches[k]
  BY <1>1
<1>5. \A k \in Slots : \A j \in DOMAIN inflight_batches[k] :
        inflight_batches[k][j] \in Requests
  BY <1>1
<1>6. \A r \in Requests : status'[r] = IF r = q THEN st ELSE status[r]
  BY <1>1
<1>7. \A k \in Slots : \A j \in DOMAIN inflight_batches'[k] :
        \E m \in DOMAIN inflight_batches[k] :
          /\ inflight_batches'[k][j] = inflight_batches[k][m]
          /\ k = c => m # i /\ m = IF j < i THEN j ELSE j + 1
          /\ k # c => m = j
  BY <1>2, <1>4
<1>8. ASSUME NEW k \in Slots, NEW j \in DOMAIN inflight_batches'[k]
      PROVE  status'[inflight_batches'[k][j]] = "RUNNING"
  <2>1. PICK m \in DOMAIN inflight_batches[k] :
          /\ inflight_batches'[k][j] = inflight_batches[k][m]
          /\ k = c => m # i
    BY <1>7
  <2>2. inflight_batches[k][m] # q
    BY <2>1 DEF RunningOnce
  <2> QED BY <1>5, <1>6, <2>1, <2>2 DEF RunningOnce
<1>9. ASSUME NEW k \in Slots, NEW j \in DOMAIN inflight_batches'[k],
             NEW l \in Slots, NEW n \in DOMAIN inflight_batches'[l],
             inflight_batches'[k][j] = inflight_batches'[l][n]
      PROVE  k = l /\ j = n
  <2>1. PICK m \in DOMAIN inflight_batches[k] :
          /\ inflight_batches'[k][j] = inflight_batches[k][m]
          /\ k = c => m = IF j < i THEN j ELSE j + 1
          /\ k # c => m = j
    BY <1>7
  <2>2. PICK p \in DOMAIN inflight_batches[l] :
          /\ inflight_batches'[l][n] = inflight_batches[l][p]
          /\ l = c => p = IF n < i THEN n ELSE n + 1
          /\ l # c => p = n
    BY <1>7
  <2>3. k = l /\ m = p
    BY <1>9, <2>1, <2>2 DEF RunningOnce
  <2>4. k = c => j \in Int /\ n \in Int
    BY <1>3, <1>4, <2>3
  <2> QED BY <1>3, <2>1, <2>2, <2>3, <2>4
<1>10. ASSUME NEW r \in Requests, status'[r] = "RUNNING"
       PROVE  \E k \in Slots : \E j \in DOMAIN inflight_batches'[k] :
                r = inflight_batches'[k][j]
  <2>1. r # q /\ status[r] = "RUNNING"
    BY <1>6, <1>10
  <2>a. PICK k \in Slots :
          \E m \in DOMAIN inflight_batches[k] : r = inflight_batches[k][m]
    BY <2>1 DEF RunningOnce
  <2>2. PICK m \in DOMAIN inflight_batches[k] : r = inflight_batches[k][m]
    BY <2>a
  <2>3. CASE k # c
    BY <1>4, <2>2, <2>3
  <2>4. CASE k = c
    <3>1. m # i
      BY <2>1, <2>2, <2>4
    <3>2. PICK j \in DOMAIN R : R[j] = s[m]
      BY <1>2, <2>2, <2>4, <3>1
    <3> QED BY <1>4, <2>2, <2>4, <3>2
  <2> QED BY <2>3, <2>4
<1> HIDE DEF s, q, R
<1> QED BY <1>8, <1>9, <1>10 DEF RunningOnce

LEMMA RunningStep == IInv /\ [Next]_vars => RunningOnce'
<1> SUFFICES ASSUME IInv, [Next]_vars PROVE RunningOnce'
  OBVIOUS
<1>0. TypeOK /\ WaitingOnce /\ RunningOnce
  BY DEF IInv
<1>a. /\ status \in [Requests -> Status]
      /\ inflight_batches \in [Slots -> Seq(Requests)]
      /\ current_batch_idx \in Slots
      /\ request_queue \in Seq(Requests)
  BY <1>0 DEF TypeOK
<1>b. \A k \in Slots : \A j \in DOMAIN inflight_batches[k] :
        inflight_batches[k][j] \in Requests
  BY <1>a
<1>1. UNCHANGED <<status, inflight_batches>> => RunningOnce'
  BY <1>0 DEF RunningOnce
<1>2. CASE Bookkeeping
  BY <1>1, <1>2, BookkeepingMovesNothing
<1>3. CASE poll_results \/ PutVictim \/ RejectHead \/ Requeue \/ UpdateDone
  BY <1>1, <1>3 DEF poll_results, PutVictim, RejectHead, Requeue, UpdateDone,
     request_vars, slot_vars
<1>4. ASSUME NEW r \in Requests, submit_request(r) PROVE RunningOnce'
  <2>1. PICK st \in {"PENDING", "FAILED"} : status' = [status EXCEPT ![r] = st]
    BY <1>4 DEF submit_request
  <2>2. status[r] = "CREATED" /\ inflight_batches' = inflight_batches
    BY <1>4 DEF submit_request, slot_vars
  <2> QED BY <1>0, <1>a, <1>b, <2>1, <2>2 DEF RunningOnce
<1>5. CASE PreemptVictim
  <2>1. PICK i \in DOMAIN active_requests :
          /\ status' = [status EXCEPT ![active_requests[i]] = "PENDING"]
          /\ inflight_batches' = [inflight_batches EXCEPT ![current_batch_idx] =
                                    RemoveAt(active_requests, i)]
    BY <1>0, <1>5, PreemptMoves
  <2> QED BY <1>0, <1>a, <2>1, PopKeepsRunning DEF active_requests
<1>6. CASE UpdateFinish
  <2>1. PICK i \in DOMAIN active_requests :
          /\ status' = [status EXCEPT ![active_requests[i]] = "FINISHED"]
          /\ inflight_batches' = [inflight_batches EXCEPT ![current_batch_idx] =
                                    RemoveAt(active_requests, i)]
    BY <1>0, <1>6, FinishMoves
  <2> QED BY <1>0, <1>a, <2>1, PopKeepsRunning DEF active_requests
<1>7. CASE AdmitRequest
  <2> DEFINE h == Head(request_queue)
             s == inflight_batches[current_batch_idx]
  <2>1. /\ request_queue # << >>
        /\ status' = [status EXCEPT ![h] = "RUNNING"]
        /\ inflight_batches' = [inflight_batches EXCEPT ![current_batch_idx] = Append(s, h)]
    BY <1>7 DEF AdmitRequest
  <2>2. h \in Requests /\ status[h] = "PENDING"
    <3>1. h = request_queue[1] /\ 1 \in DOMAIN request_queue /\ h \in Requests
      BY <1>a, <2>1, TailElements
    <3> QED BY <1>0, <3>1 DEF WaitingOnce
  <2>3. s \in Seq(Requests)
    BY <1>a
  <2> HIDE DEF h, s
  <2>4. /\ \A i \in DOMAIN Append(s, h) :
              \/ i \in DOMAIN s /\ Append(s, h)[i] = s[i]
              \/ i = Len(s) + 1 /\ i \notin DOMAIN s /\ Append(s, h)[i] = h
        /\ \A i \in DOMAIN s : i \in DOMAIN Append(s, h) /\ Append(s, h)[i] = s[i]
        /\ Len(s) + 1 \in DOMAIN Append(s, h) /\ Append(s, h)[Len(s) + 1] = h
    BY <2>2, <2>3, AppendElements
  <2>5. \A k \in Slots : inflight_batches'[k] =
          IF k = current_batch_idx THEN Append(s, h) ELSE inflight_batches[k]
    BY <1>a, <2>1
  <2>6. \A r \in Requests : status'[r] = IF r = h THEN "RUNNING" ELSE status[r]
    BY <1>a, <2>1
  <2>7. \A k \in Slots : \A j \in DOMAIN inflight_batches'[k] :
          \/ /\ j \in DOMAIN inflight_batches[k]
             /\ inflight_batches'[k][j] = inflight_batches[k][j]
             /\ inflight_batches[k][j] # h
          \/ /\ k = current_batch_idx /\ j = Len(s) + 1
             /\ inflight_batches'[k][j] = h
    <3>1. \A k \in Slots : \A j \in DOMAIN inflight_batches[k] :
            inflight_batches[k][j] # h
      BY <1>0, <2>2 DEF RunningOnce
    <3>2. s = inflight_batches[current_batch_idx]
      BY DEF s
    <3> QED BY <2>4, <2>5, <3>1, <3>2
  <2>8. ASSUME NEW k \in Slots, NEW j \in DOMAIN inflight_batches'[k]
        PROVE  status'[inflight_batches'[k][j]] = "RUNNING"
    BY <1>0, <1>b, <2>2, <2>6, <2>7 DEF RunningOnce
  <2>9. ASSUME NEW k \in Slots, NEW j \in DOMAIN inflight_batches'[k],
               NEW l \in Slots, NEW n \in DOMAIN inflight_batches'[l],
               inflight_batches'[k][j] = inflight_batches'[l][n]
        PROVE  k = l /\ j = n
    BY <1>0, <2>7, <2>9 DEF RunningOnce
  <2>10. ASSUME NEW r \in Requests, status'[r] = "RUNNING"
         PROVE  \E k \in Slots : \E j \in DOMAIN inflight_batches'[k] :
                  r = inflight_batches'[k][j]
    <3>1. CASE r = h
      BY <1>a, <2>4, <2>5, <3>1
    <3>2. CASE r # h
      <4>a. PICK k \in Slots :
              \E m \in DOMAIN inflight_batches[k] : r = inflight_batches[k][m]
        BY <1>0, <2>6, <2>10, <3>2 DEF RunningOnce
      <4>1. PICK m \in DOMAIN inflight_batches[k] : r = inflight_batches[k][m]
        BY <4>a
      <4>2. m \in DOMAIN inflight_batches'[k]
            /\ inflight_batches'[k][m] = inflight_batches[k][m]
        BY <2>4, <2>5 DEF s
      <4> QED BY <4>1, <4>2
    <3> QED BY <3>1, <3>2
  <2> QED BY <2>8, <2>9, <2>10 DEF RunningOnce
<1> QED BY <1>2, <1>3, <1>4, <1>5, <1>6, <1>7, NextCases

\* A list put on the result queue: AnsweredOnce for the queue it joins, when its
\* requests are answered nowhere else.
LEMMA PutResults ==
  ASSUME TypeOK, AnsweredOnce, NEW list \in Seq(Requests),
         result_queue' = Append(result_queue, list), polled' = polled,
         \A i \in DOMAIN list :
           /\ status'[list[i]] \in Done
           /\ list[i] \notin polled
           /\ \A j \in DOMAIN list : list[i] = list[j] => i = j
           /\ \A m \in DOMAIN result_queue : \A j \in DOMAIN result_queue[m] :
                list[i] # result_queue[m][j],
         \A r \in Requests : status[r] \in Done => status'[r] \in Done
  PROVE  /\ \A m \in DOMAIN result_queue' : \A i \in DOMAIN result_queue'[m] :
              /\ status'[result_queue'[m][i]] \in Done
              /\ result_queue'[m][i] \notin polled'
              /\ \A n \in DOMAIN result_queue' : \A j \in DOMAIN result_queue'[n] :
                   result_queue'[m][i] = result_queue'[n][j] => m = n /\ i = j
         /\ \A m \in DOMAIN result_queue : \A i \in DOMAIN result_queue[m] :
              \E n \in DOMAIN result_queue' : \E j \in DOMAIN result_queue'[n] :
                result_queue[m][i] = result_queue'[n][j]
         /\ \A i \in DOMAIN list :
              \E n \in DOMAIN result_queue' : \E j \in DOMAIN result_queue'[n] :
                list[i] = result_queue'[n][j]
<1>1. result_queue \in Seq(Seq(Requests))
  BY DEF TypeOK
<1>2. \A m \in DOMAIN result_queue : \A i \in DOMAIN result_queue[m] :
        result_queue[m][i] \in Requests
  BY <1>1
<1>3. /\ \A m \in DOMAIN result_queue' :
           \/ m \in DOMAIN result_queue /\ result_queue'[m] = result_queue[m]
           \/ /\ m = Len(result_queue) + 1 /\ m \notin DOMAIN result_queue
              /\ result_queue'[m] = list
      /\ \A m \in DOMAIN result_queue :
           m \in DOMAIN result_queue' /\ result_queue'[m] = result_queue[m]
      /\ Len(result_queue) + 1 \in DOMAIN result_queue'
      /\ result_queue'[Len(result_queue) + 1] = list
  <2> DEFINE rq == Append(result_queue, list)
  <2>1. /\ \A m \in DOMAIN rq :
             \/ m \in DOMAIN result_queue /\ rq[m] = result_queue[m]
             \/ /\ m = Len(result_queue) + 1 /\ m \notin DOMAIN result_queue
                /\ rq[m] = list
        /\ \A m \in DOMAIN result_queue : m \in DOMAIN rq /\ rq[m] = result_queue[m]
        /\ Len(result_queue) + 1 \in DOMAIN rq /\ rq[Len(result_queue) + 1] = list
    BY <1>1, AppendElements
  <2>2. result_queue' = rq
    OBVIOUS
  <2> HIDE DEF rq
  <2> QED BY <2>1, <2>2
<1>4. ASSUME NEW m \in DOMAIN result_queue', NEW i \in DOMAIN result_queue'[m]
      PROVE  status'[result_queue'[m][i]] \in Done /\ result_queue'[m][i] \notin polled'
  <2>1. CASE m \in DOMAIN result_queue /\ result_queue'[m] = result_queue[m]
    BY <1>2, <2>1 DEF AnsweredOnce
  <2>2. CASE result_queue'[m] = list
    BY <2>2
  <2> QED BY <1>3, <2>1, <2>2
<1>5. ASSUME NEW m \in DOMAIN result_queue', NEW i \in DOMAIN result_queue'[m],
             NEW n \in DOMAIN result_queue', NEW j \in DOMAIN result_queue'[n],
             result_queue'[m][i] = result_queue'[n][j]
      PROVE  m = n /\ i = j
  <2>1. CASE m \in DOMAIN result_queue /\ n \in DOMAIN result_queue
    <3>1. result_queue'[m] = result_queue[m] /\ result_queue'[n] = result_queue[n]
      BY <1>3, <2>1
    <3> QED BY <1>5, <2>1, <3>1 DEF AnsweredOnce
  <2>2. CASE m \notin DOMAIN result_queue /\ n \notin DOMAIN result_queue
    BY <1>3, <1>5, <2>2
  <2>3. CASE (m \in DOMAIN result_queue) # (n \in DOMAIN result_queue)
    BY <1>3, <1>5, <2>3
  <2> QED BY <2>1, <2>2, <2>3
<1>6. ASSUME NEW m \in DOMAIN result_queue, NEW i \in DOMAIN result_queue[m]
      PROVE  \E n \in DOMAIN result_queue' : \E j \in DOMAIN result_queue'[n] :
               result_queue[m][i] = result_queue'[n][j]
  BY <1>3
<1>7. ASSUME NEW i \in DOMAIN list
      PROVE  \E n \in DOMAIN result_queue' : \E j \in DOMAIN result_queue'[n] :
               list[i] = result_queue'[n][j]
  BY <1>3
<1> QED BY <1>4, <1>5, <1>6, <1>7

\* After the loop has died nothing but submissions and polls happen: what an
\* update() has lost stays lost.
LEMMA LostKept ==
  ASSUME TypeOK, [Next]_vars, NEW r \in Requests, LostByRaise(r)
  PROVE  LostByRaise(r)'
<1>0. pc = "dead" /\ status[r] = "FINISHED" /\ status \in [Requests -> Status]
  BY DEF LostByRaise, TypeOK
<1>1. ~GenerationLoop
  BY <1>0 DEF GenerationLoop, ScheduleBegin, SkipPreempted, PlanActive, ExtendActive,
              PreemptVictim, PutVictim, RetryExtend, PlanDone, AdmitRequest, Admitting,
              RejectHead, Requeue, Dispatch, Infer, UpdateSkip, UpdateContinue,
              UpdateFinish, UpdateRaise, UpdateDone, TakesToken
<1>2. UNCHANGED <<pc, batch_to_update, row>> /\ status'[r] = "FINISHED"
  <2>1. ASSUME NEW q \in Requests, submit_request(q)
        PROVE  UNCHANGED <<pc, batch_to_update, row>> /\ status'[r] = "FINISHED"
    <3>1. status[q] = "CREATED" /\ q # r
      BY <1>0, <2>1 DEF submit_request
    <3> QED BY <1>0, <2>1, <3>1 DEF submit_request, loop_vars, infer_vars
  <2>2. CASE poll_results
    BY <1>0, <2>2 DEF poll_results, request_vars, loop_vars, infer_vars
  <2>3. CASE UNCHANGED vars
    BY <1>0, <2>3 DEF vars, request_vars, loop_vars, infer_vars
  <2> QED BY <1>1, <2>1, <2>2, <2>3 DEF Next
<1> QED BY <1>0, <1>2 DEF LostByRaise

\* Only a running update() has finished requests in its hands.
LEMMA FinishedStep == IInv /\ [Next]_vars => FinishedRows'
<1> SUFFICES ASSUME IInv, [Next]_vars PROVE FinishedRows'
  OBVIOUS
<1>0. TypeOK /\ RunningOnce /\ FinishedRows
  BY DEF IInv
<1>a. /\ status \in [Requests -> Status] /\ row \in Nat
      /\ finished_requests \in Seq(Requests) /\ batch_to_update \in Seq(Requests)
  BY <1>0 DEF TypeOK
<1>b. \A j \in DOMAIN finished_requests : finished_requests[j] \in Requests
  BY <1>a
<1>1. ASSUME pc # "update", finished_requests' = finished_requests
      PROVE  FinishedRows'
  <2>1. finished_requests' = << >>
    BY <1>0, <1>1 DEF FinishedRows
  <2> QED BY <2>1 DEF FinishedRows
<1>2. ASSUME UNCHANGED <<pc, batch_to_update, finished_requests>>,
             row' \in {row, row + 1},
             \A r \in Requests : status[r] = "FINISHED" => status'[r] = "FINISHED"
      PROVE  FinishedRows'
  <2>1. \A i \in DOMAIN batch_to_update : i < row => i < row'
    BY <1>a, <1>2
  <2> QED BY <1>0, <1>b, <1>2, <2>1 DEF FinishedRows
<1>3. ASSUME NEW r \in Requests, submit_request(r) PROVE FinishedRows'
  <2>1. /\ status[r] = "CREATED"
        /\ status' = [status EXCEPT ![r] = "FAILED"] \/ status' = [status EXCEPT ![r] = "PENDING"]
        /\ UNCHANGED <<pc, batch_to_update, row, finished_requests>>
    BY <1>3 DEF submit_request, loop_vars, infer_vars
  <2> QED BY <1>2, <1>a, <2>1
<1>4. CASE poll_results \/ UNCHANGED vars
  BY <1>2, <1>4 DEF poll_results, vars, request_vars, loop_vars, infer_vars
<1>5. CASE UpdateSkip \/ UpdateContinue
  BY <1>2, <1>5 DEF UpdateSkip, UpdateContinue, request_vars
<1>6. CASE UpdateFinish
  <2>1. PICK q \in Requests : /\ status' = [status EXCEPT ![q] = "FINISHED"]
                              /\ finished_requests' = Append(finished_requests, q)
                              /\ q = current
    <3>1. finalize_request(current) /\ finished_requests' = Append(finished_requests, current)
      BY <1>6 DEF UpdateFinish
    <3>2. status' = [status EXCEPT ![current] = "FINISHED"]
      BY <3>1 DEF finalize_request
    <3>3. current \in Requests
      <4>1. row \in DOMAIN batch_to_update
        BY <1>6 DEF UpdateFinish, row_raises
      <4> QED BY <1>a, <4>1 DEF current
    <3> QED BY <3>1, <3>2, <3>3
  <2>2. /\ pc' = "update" /\ row' = row + 1 /\ batch_to_update' = batch_to_update
        /\ row \in DOMAIN batch_to_update
    BY <1>6 DEF UpdateFinish, TakesToken, row_raises
  <2>3. \A j \in DOMAIN finished_requests' :
             \/ j \in DOMAIN finished_requests /\ finished_requests'[j] = finished_requests[j]
             \/ finished_requests'[j] = q
    BY <1>a, <2>1, AppendElements
  <2>4. \A i \in DOMAIN batch_to_update : i < row => i < row'
    BY <1>a, <2>2
  <2>5. row < row'
    BY <1>a, <2>2
  <2>6. ASSUME NEW j \in DOMAIN finished_requests'
        PROVE  /\ status'[finished_requests'[j]] = "FINISHED"
               /\ \E i \in DOMAIN batch_to_update' :
                    i < row' /\ batch_to_update'[i] = finished_requests'[j]
    <3>1. CASE finished_requests'[j] = q
      BY <1>a, <2>1, <2>2, <2>5, <3>1 DEF current
    <3>2. CASE j \in DOMAIN finished_requests /\ finished_requests'[j] = finished_requests[j]
      BY <1>0, <1>a, <1>b, <2>1, <2>2, <2>4, <3>2 DEF FinishedRows
    <3> QED BY <2>3, <3>1, <3>2
  <2> QED BY <2>2, <2>6 DEF FinishedRows
<1>7. CASE UpdateRaise \/ UpdateDone
  BY <1>7 DEF UpdateRaise, UpdateDone, FinishedRows
<1>8. CASE \/ ScheduleBegin \/ SkipPreempted \/ PlanActive \/ ExtendActive
           \/ PreemptVictim \/ PutVictim \/ RetryExtend \/ PlanDone
           \/ AdmitRequest \/ RejectHead \/ Requeue \/ Dispatch \/ Infer
  <2>1. pc # "update" /\ finished_requests' = finished_requests
    BY <1>8 DEF ScheduleBegin, SkipPreempted, PlanActive, ExtendActive, Extend,
                PreemptVictim, PutVictim, RetryExtend, PlanDone, AdmitRequest, Admitting,
                RejectHead, Requeue, Dispatch, Infer, infer_vars
  <2> QED BY <1>1, <2>1
<1> QED BY <1>3, <1>4, <1>5, <1>6, <1>7, <1>8 DEF Next, GenerationLoop

LEMMA AnsweredStep == IInv /\ [Next]_vars => AnsweredOnce'
<1> SUFFICES ASSUME IInv, [Next]_vars PROVE AnsweredOnce'
  OBVIOUS
<1>0. TypeOK /\ WaitingOnce /\ RunningOnce /\ AnsweredOnce /\ FinishedRows
  BY DEF IInv
<1>c. \A r \in Requests : LostByRaise(r) => LostByRaise(r)'
  BY <1>0, LostKept
<1>a. /\ status \in [Requests -> Status]
      /\ result_queue \in Seq(Seq(Requests))
      /\ request_queue \in Seq(Requests)
      /\ finished_requests \in Seq(Requests)
      /\ polled \subseteq Requests
  BY <1>0 DEF TypeOK
<1>b. /\ \A m \in DOMAIN result_queue : \A i \in DOMAIN result_queue[m] :
           result_queue[m][i] \in Requests
      /\ \A i \in DOMAIN finished_requests : finished_requests[i] \in Requests
  BY <1>a
<1>1. ASSUME UNCHANGED <<result_queue, polled, finished_requests>>,
             \A r \in Requests : status'[r] \in Done <=> status[r] \in Done
      PROVE  AnsweredOnce'
  BY <1>0, <1>a, <1>b, <1>c, <1>1 DEF AnsweredOnce
<1>2. CASE Bookkeeping /\ finished_requests' = finished_requests
  BY <1>1, <1>2, BookkeepingMovesNothing DEF Done
<1>10. CASE UpdateRaise
  <2>1. /\ UNCHANGED <<status, result_queue, polled, batch_to_update, row>>
        /\ finished_requests' = << >> /\ pc' = "dead"
    BY <1>10 DEF UpdateRaise, request_vars, queue_vars
  <2>2. ASSUME NEW r \in Requests, NEW j \in DOMAIN finished_requests,
               r = finished_requests[j]
        PROVE  LostByRaise(r)'
    <3>1. /\ status[r] = "FINISHED"
          /\ \E i \in DOMAIN batch_to_update : i < row /\ batch_to_update[i] = r
      BY <1>0, <2>2 DEF FinishedRows
    <3> QED BY <2>1, <3>1 DEF LostByRaise
  <2>3. \A r \in Requests : status'[r] \in Done => status[r] \in Done
    BY <2>1
  <2>4. ASSUME NEW r \in Requests, status'[r] \in Done
        PROVE  \/ LostByRaise(r)'
               \/ r \in polled'
               \/ \E m \in DOMAIN result_queue' : \E i \in DOMAIN result_queue'[m] :
                    r = result_queue'[m][i]
    BY <1>0, <1>c, <2>1, <2>2, <2>3, <2>4 DEF AnsweredOnce
  <2>5. /\ \A r \in polled' : status'[r] \in Done
        /\ \A m \in DOMAIN result_queue' : \A i \in DOMAIN result_queue'[m] :
             /\ status'[result_queue'[m][i]] \in Done
             /\ result_queue'[m][i] \notin polled'
             /\ \A n \in DOMAIN result_queue' : \A j \in DOMAIN result_queue'[n] :
                  result_queue'[m][i] = result_queue'[n][j] => m = n /\ i = j
    BY <1>0, <2>1 DEF AnsweredOnce
  <2>6. \A j : j \notin DOMAIN finished_requests'
    BY <2>1
  <2> QED BY <2>4, <2>5, <2>6 DEF AnsweredOnce
<1>3. CASE PutVictim \/ RejectHead \/ Requeue
  BY <1>1, <1>3 DEF PutVictim, RejectHead, Requeue, Done, request_vars, infer_vars
<1>4. CASE PreemptVictim
  <2>1. PICK q \in Requests : /\ status[q] = "RUNNING"
                              /\ status' = [status EXCEPT ![q] = "PENDING"]
    BY <1>0, <1>4, PreemptMoves
  <2>2. UNCHANGED <<result_queue, polled, finished_requests>>
    BY <1>4 DEF PreemptVictim, queue_vars, infer_vars
  <2> QED BY <1>1, <1>a, <2>1, <2>2 DEF Done
<1>5. CASE AdmitRequest
  <2>1. Head(request_queue) \in Requests /\ status[Head(request_queue)] = "PENDING"
    <3>1. request_queue # << >>
      BY <1>5 DEF AdmitRequest
    <3>2. /\ Head(request_queue) = request_queue[1] /\ 1 \in DOMAIN request_queue
          /\ Head(request_queue) \in Requests
      BY <1>a, <3>1, TailElements
    <3> QED BY <1>0, <3>2 DEF WaitingOnce
  <2>2. status' = [status EXCEPT ![Head(request_queue)] = "RUNNING"]
    BY <1>5 DEF AdmitRequest
  <2>3. UNCHANGED <<result_queue, polled, finished_requests>>
    BY <1>5 DEF AdmitRequest, infer_vars
  <2> QED BY <1>1, <1>a, <2>1, <2>2, <2>3 DEF Done
<1>6. ASSUME NEW r \in Requests, submit_request(r) PROVE AnsweredOnce'
  <2>1. /\ status[r] = "CREATED" /\ status[r] \notin Done
        /\ polled' = polled /\ finished_requests' = finished_requests
    BY <1>6 DEF submit_request, loop_vars, infer_vars, Done
  <2>2. CASE QueueHasRoom
    BY <1>1, <1>6, <1>a, <2>1, <2>2 DEF submit_request, Done
  <2>3. CASE ~QueueHasRoom
    <3>1. /\ status' = [status EXCEPT ![r] = "FAILED"]
          /\ result_queue' = Append(result_queue, <<r>>)
      BY <1>6, <2>3 DEF submit_request
    <3>2. \A q \in Requests : status'[q] \in Done <=> (status[q] \in Done \/ q = r)
      BY <1>a, <3>1 DEF Done
    <3>3. /\ r \notin polled
          /\ \A m \in DOMAIN result_queue : \A i \in DOMAIN result_queue[m] :
               r # result_queue[m][i]
          /\ \A i \in DOMAIN finished_requests : r # finished_requests[i]
      BY <1>0, <2>1 DEF AnsweredOnce
    <3> DEFINE list == <<r>>
    <3>4. list \in Seq(Requests) /\ DOMAIN list = {1} /\ list[1] = r
      OBVIOUS
    <3>5. result_queue' = Append(result_queue, list)
      BY <3>1
    <3> HIDE DEF list
    <3>6. /\ \A m \in DOMAIN result_queue' : \A i \in DOMAIN result_queue'[m] :
              /\ status'[result_queue'[m][i]] \in Done
              /\ result_queue'[m][i] \notin polled'
              /\ \A n \in DOMAIN result_queue' : \A j \in DOMAIN result_queue'[n] :
                   result_queue'[m][i] = result_queue'[n][j] => m = n /\ i = j
          /\ \A m \in DOMAIN result_queue : \A i \in DOMAIN result_queue[m] :
               \E n \in DOMAIN result_queue' : \E j \in DOMAIN result_queue'[n] :
                 result_queue[m][i] = result_queue'[n][j]
          /\ \A i \in DOMAIN list :
               \E n \in DOMAIN result_queue' : \E j \in DOMAIN result_queue'[n] :
                 list[i] = result_queue'[n][j]
      BY <1>0, <2>1, <3>2, <3>3, <3>4, <3>5, PutResults
    <3>7. \A m \in DOMAIN result_queue' : \A i \in DOMAIN result_queue'[m] :
            \/ result_queue'[m][i] = r
            \/ \E n \in DOMAIN result_queue : \E j \in DOMAIN result_queue[n] :
                 result_queue'[m][i] = result_queue[n][j]
      BY <1>a, <3>4, <3>5, AppendElements
    <3>8. ASSUME NEW j \in DOMAIN finished_requests'
          PROVE  /\ status'[finished_requests'[j]] \in Done
                 /\ finished_requests'[j] \notin polled'
                 /\ \A i \in DOMAIN finished_requests' :
                      finished_requests'[i] = finished_requests'[j] => i = j
                 /\ \A m \in DOMAIN result_queue' : \A i \in DOMAIN result_queue'[m] :
                      finished_requests'[j] # result_queue'[m][i]
      BY <1>0, <1>b, <2>1, <3>2, <3>3, <3>7 DEF AnsweredOnce
    <3>9. \A q \in polled' : status'[q] \in Done
      BY <1>0, <1>a, <2>1, <3>2 DEF AnsweredOnce
    <3>10. ASSUME NEW q \in Requests, status'[q] \in Done
           PROVE  \/ LostByRaise(q)'
                  \/ q \in polled'
                  \/ \E j \in DOMAIN finished_requests' : q = finished_requests'[j]
                  \/ \E m \in DOMAIN result_queue' : \E i \in DOMAIN result_queue'[m] :
                       q = result_queue'[m][i]
      BY <1>0, <1>c, <2>1, <3>2, <3>4, <3>6, <3>10 DEF AnsweredOnce
    <3> QED BY <3>6, <3>8, <3>9, <3>10 DEF AnsweredOnce
  <2> QED BY <2>2, <2>3
<1>7. CASE UpdateFinish
  <2>1. PICK q \in Requests : /\ status[q] = "RUNNING"
                              /\ status' = [status EXCEPT ![q] = "FINISHED"]
                              /\ finished_requests' = Append(finished_requests, q)
    BY <1>0, <1>7, FinishMoves
  <2>2. UNCHANGED <<result_queue, polled>>
    BY <1>7 DEF UpdateFinish, queue_vars
  <2>3. /\ status[q] \notin Done
        /\ \A r \in Requests : status'[r] \in Done <=> (status[r] \in Done \/ r = q)
    BY <1>a, <2>1 DEF Done
  <2>4. /\ q \notin polled
        /\ \A m \in DOMAIN result_queue : \A i \in DOMAIN result_queue[m] :
             q # result_queue[m][i]
        /\ \A i \in DOMAIN finished_requests : q # finished_requests[i]
    BY <1>0, <2>3 DEF AnsweredOnce
  <2>5. /\ \A j \in DOMAIN finished_requests' :
             \/ j \in DOMAIN finished_requests /\ finished_requests'[j] = finished_requests[j]
             \/ j = Len(finished_requests) + 1 /\ finished_requests'[j] = q
        /\ \A j \in DOMAIN finished_requests :
             j \in DOMAIN finished_requests' /\ finished_requests'[j] = finished_requests[j]
        /\ \E j \in DOMAIN finished_requests' : finished_requests'[j] = q
    BY <1>a, <2>1, AppendElements
  <2>6. ASSUME NEW j \in DOMAIN finished_requests'
        PROVE  /\ status'[finished_requests'[j]] \in Done
               /\ finished_requests'[j] \notin polled'
               /\ \A m \in DOMAIN result_queue' : \A i \in DOMAIN result_queue'[m] :
                    finished_requests'[j] # result_queue'[m][i]
    BY <1>0, <1>b, <2>2, <2>3, <2>4, <2>5 DEF AnsweredOnce
  <2>7. ASSUME NEW j \in DOMAIN finished_requests', NEW i \in DOMAIN finished_requests',
               finished_requests'[i] = finished_requests'[j]
        PROVE  i = j
    BY <1>0, <2>4, <2>5, <2>7 DEF AnsweredOnce
  <2>8. ASSUME NEW r \in Requests, status'[r] \in Done
        PROVE  \/ LostByRaise(r)'
               \/ r \in polled'
               \/ \E j \in DOMAIN finished_requests' : r = finished_requests'[j]
               \/ \E m \in DOMAIN result_queue' : \E i \in DOMAIN result_queue'[m] :
                    r = result_queue'[m][i]
    BY <1>0, <1>c, <2>2, <2>3, <2>5, <2>8 DEF AnsweredOnce
  <2>9. /\ \A r \in polled' : status'[r] \in Done
        /\ \A m \in DOMAIN result_queue' : \A i \in DOMAIN result_queue'[m] :
             /\ status'[result_queue'[m][i]] \in Done
             /\ result_queue'[m][i] \notin polled'
             /\ \A n \in DOMAIN result_queue' : \A j \in DOMAIN result_queue'[n] :
                  result_queue'[m][i] = result_queue'[n][j] => m = n /\ i = j
    BY <1>0, <1>a, <1>b, <2>2, <2>3 DEF AnsweredOnce
  <2> QED BY <2>6, <2>7, <2>8, <2>9 DEF AnsweredOnce
<1>8. CASE UpdateDone
  <2>1. polled' = polled /\ status' = status /\ finished_requests' = << >>
    BY <1>8 DEF UpdateDone, request_vars
  <2>2. \A r \in Requests : status'[r] \in Done <=> status[r] \in Done
    BY <2>1 DEF Done
  <2>3. \A r \in polled' : status'[r] \in Done
    BY <1>0, <1>a, <2>1, <2>2 DEF AnsweredOnce
  <2>4. CASE finished_requests = << >>
    <3>1. result_queue' = result_queue
      BY <1>8, <2>4 DEF UpdateDone
    <3> QED BY <1>1, <2>1, <2>2, <2>4, <3>1
  <2>5. CASE finished_requests # << >>
    <3>1. result_queue' = Append(result_queue, finished_requests)
      BY <1>8, <2>5 DEF UpdateDone
    <3>2. \A i \in DOMAIN finished_requests :
           /\ status'[finished_requests[i]] \in Done
           /\ finished_requests[i] \notin polled
           /\ \A j \in DOMAIN finished_requests :
                finished_requests[i] = finished_requests[j] => i = j
           /\ \A m \in DOMAIN result_queue : \A j \in DOMAIN result_queue[m] :
                finished_requests[i] # result_queue[m][j]
      BY <1>0, <1>b, <2>2 DEF AnsweredOnce
    <3>3. /\ \A m \in DOMAIN result_queue' : \A i \in DOMAIN result_queue'[m] :
              /\ status'[result_queue'[m][i]] \in Done
              /\ result_queue'[m][i] \notin polled'
              /\ \A n \in DOMAIN result_queue' : \A j \in DOMAIN result_queue'[n] :
                   result_queue'[m][i] = result_queue'[n][j] => m = n /\ i = j
          /\ \A m \in DOMAIN result_queue : \A i \in DOMAIN result_queue[m] :
               \E n \in DOMAIN result_queue' : \E j \in DOMAIN result_queue'[n] :
                 result_queue[m][i] = result_queue'[n][j]
          /\ \A i \in DOMAIN finished_requests :
               \E n \in DOMAIN result_queue' : \E j \in DOMAIN result_queue'[n] :
                 finished_requests[i] = result_queue'[n][j]
      BY <1>0, <1>a, <2>1, <2>2, <3>1, <3>2, PutResults
    <3>4. ASSUME NEW r \in Requests, status'[r] \in Done
          PROVE  \/ LostByRaise(r)'
                 \/ r \in polled'
                 \/ \E m \in DOMAIN result_queue' : \E i \in DOMAIN result_queue'[m] :
                      r = result_queue'[m][i]
      BY <1>0, <1>c, <2>1, <2>2, <3>3, <3>4 DEF AnsweredOnce
    <3> QED BY <2>1, <2>3, <3>3, <3>4 DEF AnsweredOnce
  <2> QED BY <2>4, <2>5
<1>9. CASE poll_results
  <2> DEFINE h == Head(result_queue)
  <2>1. /\ result_queue # << >>
        /\ polled' = polled \cup ToSet(h)
        /\ result_queue' = Tail(result_queue)
        /\ status' = status /\ finished_requests' = finished_requests
    BY <1>9 DEF poll_results, request_vars, loop_vars, infer_vars
  <2>2. 1 \in DOMAIN result_queue /\ h = result_queue[1]
    BY <1>a, <2>1, TailElements
  <2> HIDE DEF h
  <2>3. ToSet(h) = {h[i] : i \in DOMAIN h}
    BY DEF ToSet
  <2>4. /\ \A m \in DOMAIN result_queue' :
             /\ m + 1 \in DOMAIN result_queue /\ m + 1 # 1
             /\ result_queue'[m] = result_queue[m + 1]
        /\ \A m \in DOMAIN result_queue :
             m = 1 \/ \E n \in DOMAIN result_queue' : result_queue'[n] = result_queue[m]
        /\ \A m, n \in DOMAIN result_queue' : m + 1 = n + 1 => m = n
    <3> DEFINE rq == Tail(result_queue)
    <3>1. /\ \A m \in DOMAIN rq : /\ m + 1 \in DOMAIN result_queue /\ m + 1 # 1
                                 /\ rq[m] = result_queue[m + 1]
          /\ \A m \in DOMAIN result_queue :
               m = 1 \/ \E n \in DOMAIN rq : rq[n] = result_queue[m]
          /\ \A m, n \in DOMAIN rq : m + 1 = n + 1 => m = n
      BY <1>a, <2>1, TailElements, Zenon
    <3>2. result_queue' = rq
      BY <2>1
    <3> HIDE DEF rq
    <3> QED BY <3>1, <3>2
  <2>5. \A r \in Requests : status'[r] \in Done <=> status[r] \in Done
    BY <2>1 DEF Done
  <2>6. \A r \in polled' : status'[r] \in Done
    BY <1>0, <1>a, <1>b, <2>1, <2>2, <2>3, <2>5 DEF AnsweredOnce
  <2>7. ASSUME NEW j \in DOMAIN finished_requests'
        PROVE  /\ status'[finished_requests'[j]] \in Done
               /\ finished_requests'[j] \notin polled'
               /\ \A i \in DOMAIN finished_requests' :
                    finished_requests'[i] = finished_requests'[j] => i = j
               /\ \A m \in DOMAIN result_queue' : \A i \in DOMAIN result_queue'[m] :
                    finished_requests'[j] # result_queue'[m][i]
    BY <1>0, <1>b, <2>1, <2>2, <2>3, <2>4, <2>5 DEF AnsweredOnce
  <2>8. ASSUME NEW m \in DOMAIN result_queue', NEW i \in DOMAIN result_queue'[m]
        PROVE  /\ status'[result_queue'[m][i]] \in Done
               /\ result_queue'[m][i] \notin polled'
    BY <1>0, <1>b, <2>1, <2>2, <2>3, <2>4, <2>5 DEF AnsweredOnce
  <2>9. ASSUME NEW m \in DOMAIN result_queue', NEW i \in DOMAIN result_queue'[m],
               NEW n \in DOMAIN result_queue', NEW j \in DOMAIN result_queue'[n],
               result_queue'[m][i] = result_queue'[n][j]
        PROVE  m = n /\ i = j
    <3>1. /\ m + 1 \in DOMAIN result_queue /\ n + 1 \in DOMAIN result_queue
          /\ i \in DOMAIN result_queue[m + 1] /\ j \in DOMAIN result_queue[n + 1]
          /\ result_queue[m + 1][i] = result_queue[n + 1][j]
      BY <2>4, <2>9
    <3>2. m + 1 = n + 1 /\ i = j
      BY <1>0, <3>1 DEF AnsweredOnce
    <3> QED BY <2>4, <3>2
  <2>10. ASSUME NEW r \in Requests, status'[r] \in Done
         PROVE  \/ LostByRaise(r)'
                \/ r \in polled'
                \/ \E j \in DOMAIN finished_requests' : r = finished_requests'[j]
                \/ \E m \in DOMAIN result_queue' : \E i \in DOMAIN result_queue'[m] :
                     r = result_queue'[m][i]
    <3>1. CASE r \in polled \/ \E j \in DOMAIN finished_requests : r = finished_requests[j]
      BY <2>1, <3>1
    <3>2. CASE \E m \in DOMAIN result_queue : \E i \in DOMAIN result_queue[m] :
                 r = result_queue[m][i]
      BY <2>1, <2>2, <2>3, <2>4, <3>2
    <3> QED BY <1>0, <1>c, <2>5, <2>10, <3>1, <3>2 DEF AnsweredOnce
  <2> QED BY <2>6, <2>7, <2>8, <2>9, <2>10 DEF AnsweredOnce
<1> QED BY <1>2, <1>3, <1>4, <1>5, <1>6, <1>7, <1>8, <1>9, <1>10, NextCases,
           BookkeepingMovesNothing

LEMMA PlacesInit == Init => WaitingOnce /\ RunningOnce /\ AnsweredOnce /\ FinishedRows
<1> SUFFICES ASSUME Init PROVE WaitingOnce /\ RunningOnce /\ AnsweredOnce /\ FinishedRows
  OBVIOUS
<1>1. \A r \in Requests : status[r] = "CREATED"
  BY DEF Init, RequestInit
<1>2. WaitingOnce
  BY <1>1 DEF Init, WaitingOnce
<1>3. RunningOnce
  BY <1>1 DEF Init, RunningOnce
<1>4. AnsweredOnce
  BY <1>1 DEF Init, AnsweredOnce, Done
<1>5. FinishedRows
  BY DEF Init, FinishedRows
<1> QED BY <1>2, <1>3, <1>4, <1>5

\* The elements of a concatenation, and where each of them comes from.
LEMMA ConcatElements ==
  ASSUME NEW S, NEW s \in Seq(S), NEW t \in Seq(S)
  PROVE  /\ \A i \in DOMAIN (s \o t) :
              \/ i \in DOMAIN s /\ (s \o t)[i] = s[i]
              \/ /\ i \notin DOMAIN s /\ i \in Int
                 /\ i - Len(s) \in DOMAIN t /\ (s \o t)[i] = t[i - Len(s)]
         /\ \A i \in DOMAIN s : i \in DOMAIN (s \o t) /\ (s \o t)[i] = s[i]
         /\ \A i \in DOMAIN t : /\ Len(s) + i \in DOMAIN (s \o t)
                                /\ (s \o t)[Len(s) + i] = t[i]
         /\ Len(s) \in Int
OBVIOUS

\* Nothing that update() has lost was answered.
LostUnanswered ==
  \A r \in Requests : LostByRaise(r) =>
    /\ r \notin polled
    /\ \A m \in DOMAIN result_queue : \A i \in DOMAIN result_queue[m] :
         r # result_queue[m][i]

\* The parts of the inductive invariant are what PlacedOnce says.
LEMMA PlacesGiven == IInv /\ LostUnanswered => PlacedOnce
<1> SUFFICES ASSUME IInv, LostUnanswered PROVE PlacedOnce
  OBVIOUS
<1>0. TypeOK /\ WaitingOnce /\ RunningOnce /\ AnsweredOnce /\ FinishedRows
  BY DEF IInv
<1>a. /\ request_queue \in Seq(Requests) /\ held \in Seq(Requests)
      /\ result_queue \in Seq(Seq(Requests)) /\ finished_requests \in Seq(Requests)
      /\ inflight_batches \in [Slots -> Seq(Requests)]
      /\ status \in [Requests -> Status] /\ polled \subseteq Requests
  BY <1>0 DEF TypeOK
<1> DEFINE waiting == request_queue \o held
           answers == result_queue \o <<finished_requests>>
<1>b. /\ \A i \in DOMAIN waiting :
           \/ i \in DOMAIN request_queue /\ waiting[i] = request_queue[i]
           \/ /\ i \notin DOMAIN request_queue /\ i \in Int
              /\ i - Len(request_queue) \in DOMAIN held
              /\ waiting[i] = held[i - Len(request_queue)]
      /\ \A i \in DOMAIN request_queue :
           i \in DOMAIN waiting /\ waiting[i] = request_queue[i]
      /\ \A i \in DOMAIN held : /\ Len(request_queue) + i \in DOMAIN waiting
                                /\ waiting[Len(request_queue) + i] = held[i]
      /\ Len(request_queue) \in Int
  BY <1>a, ConcatElements
<1>c. /\ \A m \in DOMAIN answers :
           \/ m \in DOMAIN result_queue /\ answers[m] = result_queue[m]
           \/ /\ m \notin DOMAIN result_queue /\ m = Len(result_queue) + 1
              /\ answers[m] = finished_requests
      /\ \A m \in DOMAIN result_queue :
           m \in DOMAIN answers /\ answers[m] = result_queue[m]
      /\ Len(result_queue) + 1 \in DOMAIN answers
      /\ answers[Len(result_queue) + 1] = finished_requests
  BY <1>a, AppendElements
<1> HIDE DEF waiting, answers
<1>1. ASSUME NEW i \in DOMAIN waiting, NEW j \in DOMAIN waiting, waiting[i] = waiting[j]
      PROVE  i = j
  <2>1. held # << >> => DOMAIN held = {1} /\ Len(held) = 1
    BY <1>0, <1>a DEF WaitingOnce
  <2>2. \A k \in DOMAIN held : k = 1 /\ held # << >>
    BY <1>a, <2>1
  <2>3. CASE i \in DOMAIN request_queue /\ j \in DOMAIN request_queue
    BY <1>0, <1>1, <1>b, <2>3 DEF WaitingOnce
  <2>4. CASE i \notin DOMAIN request_queue /\ j \notin DOMAIN request_queue
    <3>1. i - Len(request_queue) = 1 /\ j - Len(request_queue) = 1
      BY <1>b, <2>2, <2>4
    <3> QED BY <1>b, <2>4, <3>1
  <2>5. CASE i \in DOMAIN request_queue /\ j \notin DOMAIN request_queue
    <3>1. waiting[i] = request_queue[i] /\ waiting[j] = held[1] /\ held # << >>
      BY <1>b, <2>2, <2>5
    <3> QED BY <1>0, <1>1, <2>5, <3>1 DEF WaitingOnce
  <2>6. CASE i \notin DOMAIN request_queue /\ j \in DOMAIN request_queue
    <3>1. waiting[j] = request_queue[j] /\ waiting[i] = held[1] /\ held # << >>
      BY <1>b, <2>2, <2>6
    <3> QED BY <1>0, <1>1, <2>6, <3>1 DEF WaitingOnce
  <2> QED BY <2>3, <2>4, <2>5, <2>6
<1>2. \A k, l \in Slots :
        \A i \in DOMAIN inflight_batches[k], j \in DOMAIN inflight_batches[l] :
          inflight_batches[k][i] = inflight_batches[l][j] => k = l /\ i = j
  BY <1>0 DEF RunningOnce
<1>3. ASSUME NEW m \in DOMAIN answers, NEW n \in DOMAIN answers,
             NEW i \in DOMAIN answers[m], NEW j \in DOMAIN answers[n]
      PROVE  /\ answers[m][i] = answers[n][j] => m = n /\ i = j
             /\ answers[m][i] \notin polled
  <2>1. answers[m][i] \notin polled
    BY <1>0, <1>c DEF AnsweredOnce
  <2>2. ASSUME answers[m][i] = answers[n][j] PROVE m = n /\ i = j
    <3>1. CASE m \in DOMAIN result_queue /\ n \in DOMAIN result_queue
      <4>1. answers[m] = result_queue[m] /\ answers[n] = result_queue[n]
        BY <1>c, <3>1
      <4> QED BY <1>0, <2>2, <3>1, <4>1 DEF AnsweredOnce
    <3>2. CASE m \notin DOMAIN result_queue /\ n \notin DOMAIN result_queue
      <4>1. m = n /\ answers[m] = finished_requests /\ answers[n] = finished_requests
        BY <1>c, <3>2
      <4> QED BY <1>0, <2>2, <4>1 DEF AnsweredOnce
    <3>3. CASE m \in DOMAIN result_queue /\ n \notin DOMAIN result_queue
      <4>1. answers[m] = result_queue[m] /\ answers[n] = finished_requests
        BY <1>c, <3>3
      <4> QED BY <1>0, <2>2, <3>3, <4>1 DEF AnsweredOnce
    <3>4. CASE m \notin DOMAIN result_queue /\ n \in DOMAIN result_queue
      <4>1. answers[n] = result_queue[n] /\ answers[m] = finished_requests
        BY <1>c, <3>4
      <4> QED BY <1>0, <2>2, <3>4, <4>1 DEF AnsweredOnce
    <3> QED BY <3>1, <3>2, <3>3, <3>4
  <2> QED BY <2>1, <2>2
<1>4. ASSUME NEW r \in Requests
      PROVE  status[r] = "PENDING" <=> r \in ToSet(waiting)
  <2>1. ASSUME status[r] = "PENDING" PROVE r \in ToSet(waiting)
    <3>1. CASE held # << >> /\ r = held[1]
      <4>1. 1 \in DOMAIN held
        BY <1>0, <1>a, <3>1 DEF WaitingOnce
      <4> QED BY <1>b, <3>1, <4>1 DEF ToSet
    <3>2. CASE \E i \in DOMAIN request_queue : r = request_queue[i]
      BY <1>b, <3>2 DEF ToSet
    <3> QED BY <1>0, <2>1, <3>1, <3>2 DEF WaitingOnce
  <2>2. ASSUME NEW i \in DOMAIN waiting, r = waiting[i] PROVE status[r] = "PENDING"
    <3>1. CASE i \in DOMAIN request_queue
      BY <1>0, <1>b, <2>2, <3>1 DEF WaitingOnce
    <3>2. CASE i \notin DOMAIN request_queue
      <4>1. PICK k \in DOMAIN held : r = held[k]
        BY <1>b, <2>2, <3>2
      <4>2. held # << >> /\ k = 1
        BY <1>0, <1>a, <4>1 DEF WaitingOnce
      <4> QED BY <1>0, <4>1, <4>2 DEF WaitingOnce
    <3> QED BY <3>1, <3>2
  <2> QED BY <2>1, <2>2 DEF ToSet
<1>5. ASSUME NEW r \in Requests
      PROVE  status[r] = "RUNNING" <=> \E k \in Slots : r \in ToSet(inflight_batches[k])
  BY <1>0 DEF RunningOnce, ToSet
<1>6. ASSUME NEW r \in Requests
      PROVE  r \in polled \/ (\E m \in DOMAIN answers : r \in ToSet(answers[m]))
               <=> status[r] \in {"FINISHED", "FAILED"} /\ ~LostByRaise(r)
  <2>1. ASSUME status[r] \in Done, ~LostByRaise(r)
        PROVE  r \in polled \/ \E m \in DOMAIN answers : r \in ToSet(answers[m])
    <3>1. CASE \E j \in DOMAIN finished_requests : r = finished_requests[j]
      BY <1>c, <3>1 DEF ToSet
    <3>2. CASE \E m \in DOMAIN result_queue : \E i \in DOMAIN result_queue[m] :
                 r = result_queue[m][i]
      BY <1>c, <3>2 DEF ToSet
    <3> QED BY <1>0, <2>1, <3>1, <3>2 DEF AnsweredOnce
  <2>2. ASSUME NEW m \in DOMAIN answers, r \in ToSet(answers[m])
        PROVE  status[r] \in Done /\ ~LostByRaise(r)
    <3>1. PICK i \in DOMAIN answers[m] : r = answers[m][i]
      BY <2>2 DEF ToSet
    <3>2. status[r] \in Done
      BY <1>0, <1>c, <3>1 DEF AnsweredOnce
    <3>3. CASE m \in DOMAIN result_queue /\ answers[m] = result_queue[m]
      BY <3>1, <3>2, <3>3 DEF LostUnanswered
    <3>4. CASE answers[m] = finished_requests
      <4>1. pc = "update"
        BY <1>0, <1>a, <3>1, <3>4 DEF FinishedRows
      <4> QED BY <3>2, <4>1 DEF LostByRaise
    <3> QED BY <1>c, <3>3, <3>4
  <2>3. r \in polled => status[r] \in Done /\ ~LostByRaise(r)
    BY <1>0 DEF AnsweredOnce, LostUnanswered
  <2> QED BY <2>1, <2>2, <2>3 DEF Done
<1> QED
  <2> USE DEF waiting, answers
  <2> QED BY <1>1, <1>2, <1>3, <1>4, <1>5, <1>6 DEF PlacedOnce

-----------------------------------------------------------------------------
(* Theorems. *)

LEMMA Inductive == Spec => []IInv
<1>1. Init => IInv
  BY TypeInit, PlacesInit DEF IInv
<1>2. IInv /\ [Next]_vars => IInv'
  BY TypeStep, WaitingStep, RunningStep, AnsweredStep, FinishedStep DEF IInv
<1> QED BY <1>1, <1>2, PTL DEF Spec

\* Type correctness: whatever is submitted, batched, preempted and answered, and
\* for every size of the cache, the pipeline, the batches and the queue, the
\* state of the driver keeps its types.
THEOREM TypeCorrect == Spec => []TypeOK
<1>1. IInv => TypeOK
  BY DEF IInv
<1> QED BY <1>1, Inductive, PTL

\* No block of the KV cache is leaked, shared or freed twice, for any number of
\* blocks, any page size and any history of the scheduler.
THEOREM BlocksAreConserved == Spec => []BlocksConserved
<1>1. Init => BlocksConserved
  BY DEF Init, CacheInit, RequestInit, BlocksConserved, ToSet
<1>2. IInv /\ BlocksConserved /\ [Next]_vars => BlocksConserved'
  BY BlocksStep
<1> QED BY <1>1, <1>2, Inductive, PTL DEF Spec

-----------------------------------------------------------------------------
(***************************************************************************)
(* Every batch of module Scheduler fits: its tokens into the input         *)
(* buffers, its sequences into max_num_seqs, its positions into the blocks *)
(* its requests own.                                                       *)
(*                                                                         *)
(* The budget is an invariant because at most the last request of a slot   *)
(* is in the middle of its prefill (OnePrefill): all others take one token *)
(* each, so the slot, which once fitted the budget, still fits it.  The    *)
(* blocks are, because a planned request lacks at most one block and a     *)
(* preempted one had at least one.                                         *)
(***************************************************************************)

-----------------------------------------------------------------------------
(* The inductive invariant. *)

\* No element twice.
NoRepeat(s) == \A i, j \in DOMAIN s : s[i] = s[j] => i = j

\* The requests of the current slot that this round has not planned yet; during
\* update(), those whose row has been processed.
Unplanned ==
  IF pc = "schedule" THEN ToSet(active_requests)
  ELSE IF pc = "plan" THEN ToSet(active_requests) \cap ToSet(todo)
  ELSE IF pc \in {"extend", "put_victim", "retry"}
       THEN ToSet(active_requests) \cap ToSet(Tail(todo))
  ELSE IF pc = "update"
       THEN {r \in ToSet(active_requests) :
               \A i \in DOMAIN batch_to_update : i >= row => batch_to_update[i] # r}
  ELSE {}

\* The tokens the request has so far: its prompt and what it has generated.
NumTokens(r) == PromptLen[r] + Len(generated_tokens[r])

\* A request that waits has all its tokens in its input and nothing computed.
Fresh(r) ==
  /\ Len(input_ids_list[r]) = NumTokens(r)
  /\ num_computed_tokens[r] = 0
  /\ block_ids[r] = << >>

\* Before it is planned, a request either decodes (all but the newest token are
\* computed) or is in the middle of its prefill.
Ready(r) ==
  \/ /\ num_computed_tokens[r] = NumTokens(r) - 1
     /\ Len(input_ids_list[r]) <= num_computed_tokens[r]
  \/ /\ num_computed_tokens[r] >= 0
     /\ num_computed_tokens[r] < Len(input_ids_list[r])
     /\ Len(input_ids_list[r]) = NumTokens(r)

\* After it is planned, the request has a token to compute, counted in
\* num_computed_tokens already; a decoding one has exactly one.
Planned(r) ==
  /\ tokens_this_step[r] >= 1
  /\ num_computed_tokens[r] - tokens_this_step[r] >= 0
  /\ \/ /\ num_computed_tokens[r] <= Len(input_ids_list[r])
        /\ Len(input_ids_list[r]) = NumTokens(r)
     \/ /\ num_computed_tokens[r] = NumTokens(r)
        /\ Len(input_ids_list[r]) < NumTokens(r)
        /\ tokens_this_step[r] = 1

\* How far every request is, by its status and by where the loop is.
Progress ==
  \A r \in Requests :
    /\ status[r] \in {"CREATED", "PENDING"} => Fresh(r)
    /\ status[r] = "RUNNING" /\ pc # "dead" =>
         (IF r \in Unplanned THEN Ready(r) ELSE Planned(r))

\* The steps of the planning loop.
Planning == {"plan", "extend", "put_victim", "retry"}

\* The steps between the planning of a request and its blocks.
Visiting == {"extend", "put_victim", "retry"}

\* The planning loop visits a request once, and the request it is at is active
\* unless it has just been preempted itself.
TodoKept ==
  /\ NoRepeat(todo)
  /\ pc \notin Planning => todo = << >>
  /\ pc \in {"extend", "retry"} => Head(todo) \in ToSet(active_requests)
  /\ pc = "put_victim" => held[1] = Head(todo) \/ Head(todo) \in ToSet(active_requests)

\* The request owns the blocks that its input and its computed positions need.
BlocksMatch(r) ==
  IF num_computed_tokens[r] <= Len(input_ids_list[r])
  THEN Len(block_ids[r]) = num_blocks_needed(Len(input_ids_list[r]))
  ELSE Len(block_ids[r]) = num_blocks_needed(num_computed_tokens[r])

\* Every running request owns its blocks; only the request the planning loop is at
\* may lack the last one.  Once another request has been preempted for it, a block
\* is free, so that the retry of _extend_or_preempt cannot fail.
Covered ==
  /\ \A r \in Requests : status[r] = "RUNNING" =>
       \/ BlocksMatch(r)
       \/ /\ pc \in Visiting /\ r = Head(todo)
          /\ num_computed_tokens[r] > Len(input_ids_list[r])
          /\ Len(block_ids[r]) = num_blocks_needed(num_computed_tokens[r] - 1)
  /\ pc = "retry" \/ (pc = "put_victim" /\ held[1] # Head(todo)) => free_blocks_set # {}

\* Only the last request of a slot can be in the middle of its prefill: the one
\* before it would have taken the rest of the budget, and admission appends.
OnePrefill ==
  /\ \A k \in Slots : \A i \in DOMAIN inflight_batches[k] :
       i < Len(inflight_batches[k]) => ~prefilling(inflight_batches[k][i])
  /\ \A i \in DOMAIN todo :
       i < Len(todo) /\ status[todo[i]] = "RUNNING" => ~prefilling(todo[i])
  /\ ~EnableChunkedPrefill => \A r \in Requests : status[r] = "RUNNING" => ~prefilling(r)
  /\ pc \in Planning \cup {"admit"} =>
       \A r \in ToSet(active_requests) \ ToSet(todo) : prefilling(r) => budget <= 0
  /\ pc \in Visiting /\ status[Head(todo)] = "RUNNING" /\ prefilling(Head(todo))
       => tokens_this_step[Head(todo)] = budget

\* The rows of the input buffers that the requests R fill, T tokens each.
Rows(T, R) == UNION {{r} \X (1 .. T[r]) : r \in R}

\* What is left of the token budget covers one token for each request that is not
\* planned yet, and with the rows planned so far it does not exceed the limit.
Budgeted ==
  /\ pc \in Planning => budget >= Cardinality(ToSet(todo))
  /\ pc \in Visiting /\ status[Head(todo)] = "RUNNING" =>
       IF Len(todo) > 1 THEN tokens_this_step[Head(todo)] = 1
       ELSE tokens_this_step[Head(todo)] <= budget
  /\ pc \in Planning \cup {"admit"} =>
       /\ budget >= 0
       /\ budget + Cardinality(ToSet(active_requests) \ ToSet(todo))
            <= MaxNumBatchedTokens
       /\ budget + Cardinality(Rows(tokens_this_step, ToSet(active_requests) \ ToSet(todo)))
            <= MaxNumBatchedTokens
  /\ pc \in {"dispatch", "requeue"} =>
       Cardinality(Rows(tokens_this_step, ToSet(active_requests))) <= MaxNumBatchedTokens
  /\ pc = "infer" =>
       Cardinality(Rows(tokens_this_step, ToSet(batch_to_infer))) <= MaxNumBatchedTokens
  /\ \A k \in Slots : Cardinality(ToSet(inflight_batches[k])) <= MaxNumBatchedTokens

\* No slot holds more than max_num_seqs requests.
SeqsBounded ==
  /\ \A k \in Slots : Len(inflight_batches[k]) <= MaxNumSeqs
  /\ pc = "admit" => seqs_budget + Len(active_requests) <= MaxNumSeqs

\* The slot that was current before the rotation.
previous_batch_idx ==
  IF current_batch_idx = 0 THEN PPSize - 1 ELSE current_batch_idx - 1

\* The batches that schedule() returns are the slots before and after the
\* rotation; update() meets a request once, and the rows ahead are still active.
Batches ==
  /\ pc = "infer" =>
       /\ batch_to_infer = inflight_batches[previous_batch_idx]
       /\ batch_to_update = inflight_batches[current_batch_idx]
  /\ pc = "update" =>
       /\ row >= 1
       /\ NoRepeat(batch_to_update)
       /\ \A i \in DOMAIN batch_to_update :
            i >= row => batch_to_update[i] \in ToSet(active_requests)

\* The inductive invariant of the batches.
CInv ==
  /\ IInv /\ BlocksConserved
  /\ Progress /\ TodoKept /\ Covered /\ OnePrefill /\ Budgeted /\ SeqsBounded /\ Batches

-----------------------------------------------------------------------------
(* Sequences and numbers. *)

\* The set of a sequence is finite and holds its elements.
LEMMA ToSetFacts ==
  ASSUME NEW S, NEW s \in Seq(S)
  PROVE  /\ ToSet(s) \subseteq S /\ IsFiniteSet(ToSet(s))
         /\ \A x : x \in ToSet(s) <=> \E i \in DOMAIN s : s[i] = x
<1>1. DOMAIN s = 1 .. Len(s) /\ Len(s) \in Nat /\ \A i \in 1 .. Len(s) : s[i] \in S
  BY LenProperties, ElementOfSeq
<1>2. /\ ToSet(s) \subseteq S
      /\ \A x : x \in ToSet(s) <=> \E i \in DOMAIN s : s[i] = x
  BY <1>1 DEF ToSet
<1>3. s \in Surjection(DOMAIN s, ToSet(s))
  BY <1>1, <1>2 DEF Surjection
<1>4. IsFiniteSet(DOMAIN s)
  BY <1>1, FS_Interval
<1> QED BY <1>2, <1>3, <1>4, FS_Surjection

\* Without repetition the tail loses just the head.
LEMMA ToSetTail ==
  ASSUME NEW S, NEW s \in Seq(S), s # << >>, NoRepeat(s)
  PROVE  /\ Head(s) \in ToSet(s) /\ Head(s) \in S /\ Tail(s) \in Seq(S)
         /\ ToSet(Tail(s)) = ToSet(s) \ {Head(s)}
         /\ NoRepeat(Tail(s))
         /\ Cardinality(ToSet(s)) = Cardinality(ToSet(Tail(s))) + 1
         /\ Cardinality(ToSet(Tail(s))) \in Nat
<1> DEFINE t == Tail(s)
<1>0. t \in Seq(S)
  BY HeadTailProperties
<1>1. /\ 1 \in DOMAIN s /\ Head(s) = s[1] /\ Head(s) \in S
      /\ \A i \in DOMAIN t : i + 1 \in DOMAIN s /\ i + 1 # 1 /\ t[i] = s[i + 1]
      /\ \A i \in DOMAIN s : i = 1 \/ \E j \in DOMAIN t : t[j] = s[i]
      /\ \A i, j \in DOMAIN t : i + 1 = j + 1 => i = j
  BY TailElements
<1> HIDE DEF t
<1>2. \A x : x \in ToSet(t) <=> \E i \in DOMAIN t : t[i] = x
  BY <1>0, ToSetFacts
<1>3. \A x : x \in ToSet(s) <=> \E i \in DOMAIN s : s[i] = x
  BY ToSetFacts
<1>4. ToSet(t) = ToSet(s) \ {Head(s)}
  BY <1>1, <1>2, <1>3 DEF NoRepeat
<1>5. NoRepeat(t)
  BY <1>1 DEF NoRepeat
<1>6. Head(s) \in ToSet(s)
  BY <1>1, <1>3
<1>7. IsFiniteSet(ToSet(s)) /\ IsFiniteSet(ToSet(t))
  BY <1>0, ToSetFacts
<1>8. Cardinality(ToSet(s)) \in Nat /\ Cardinality(ToSet(t)) \in Nat
  BY <1>7, FS_CardinalityType
<1>9. Cardinality(ToSet(t)) = Cardinality(ToSet(s)) - 1
  BY <1>4, <1>6, <1>7, FS_RemoveElement
<1>10. Cardinality(ToSet(s)) = Cardinality(ToSet(t)) + 1
  BY <1>8, <1>9
<1> QED BY <1>0, <1>1, <1>4, <1>5, <1>6, <1>8, <1>10 DEF t

\* Without repetition pop(i) loses just the i-th element.
LEMMA ToSetRemove ==
  ASSUME NEW S, NEW s \in Seq(S), NEW i \in DOMAIN s, NoRepeat(s)
  PROVE  /\ ToSet(RemoveAt(s, i)) = ToSet(s) \ {s[i]}
         /\ RemoveAt(s, i) \in Seq(S) /\ Len(RemoveAt(s, i)) = Len(s) - 1
<1> DEFINE t == RemoveAt(s, i)
<1>0. t \in Seq(S) /\ Len(t) = Len(s) - 1
  BY RemoveAtFacts
<1>1. /\ \A j \in DOMAIN t :
              LET k == IF j < i THEN j ELSE j + 1
              IN  k \in DOMAIN s /\ k # i /\ t[j] = s[k]
      /\ \A k \in DOMAIN s : k # i =>
              LET j == IF k < i THEN k ELSE k - 1
              IN  j \in DOMAIN t /\ t[j] = s[k]
  BY RemoveElements
<1> HIDE DEF t
<1>2. \A x : x \in ToSet(t) <=> \E j \in DOMAIN t : t[j] = x
  BY <1>0, ToSetFacts
<1>3. \A x : x \in ToSet(s) <=> \E j \in DOMAIN s : s[j] = x
  BY ToSetFacts
<1>4. \A j \in DOMAIN t : t[j] \in ToSet(s) /\ t[j] # s[i]
  BY <1>1, <1>3 DEF NoRepeat
<1>5. \A k \in DOMAIN s : k # i => s[k] \in ToSet(t)
  BY <1>1, <1>2
<1>6. ToSet(t) = ToSet(s) \ {s[i]}
  BY <1>2, <1>3, <1>4, <1>5
<1> QED BY <1>0, <1>6 DEF t

\* append() adds one element to the set.
LEMMA ToSetAppend ==
  ASSUME NEW S, NEW s \in Seq(S), NEW e \in S
  PROVE  ToSet(Append(s, e)) = ToSet(s) \cup {e}
<1> DEFINE t == Append(s, e)
<1>0. t \in Seq(S)
  BY AppendProperties
<1>1. /\ \A i \in DOMAIN t : (i \in DOMAIN s /\ t[i] = s[i]) \/ t[i] = e
      /\ \A i \in DOMAIN s : i \in DOMAIN t /\ t[i] = s[i]
      /\ Len(s) + 1 \in DOMAIN t /\ t[Len(s) + 1] = e
  BY AppendElements
<1> HIDE DEF t
<1>2. \A x : x \in ToSet(t) <=> \E j \in DOMAIN t : t[j] = x
  BY <1>0, ToSetFacts
<1>3. \A x : x \in ToSet(s) <=> \E j \in DOMAIN s : s[j] = x
  BY ToSetFacts
<1>4. ToSet(t) = ToSet(s) \cup {e}
  BY <1>1, <1>2, <1>3
<1> QED BY <1>4 DEF t

\* The rounding-up division of num_blocks_needed is enough and not one too much.
LEMMA Division ==
  ASSUME NEW t \in Int
  PROVE  /\ num_blocks_needed(t) \in Int
         /\ t <= num_blocks_needed(t) * PageSize
         /\ (num_blocks_needed(t) - 1) * PageSize < t
<1>1. PageSize \in Nat /\ PageSize > 0
  BY CacheAssumption
<1> DEFINE x == t + PageSize - 1
           q == x \div PageSize
<1>2. x \in Int
  BY <1>1
<1> HIDE DEF x
<1>3. q \in Int /\ x = q * PageSize + (x % PageSize) /\ x % PageSize \in 0 .. (PageSize - 1)
  BY <1>1, <1>2
<1>4. q * PageSize \in Int
  BY <1>1, <1>3
<1>5. (q - 1) * PageSize = q * PageSize - PageSize
  BY <1>1, <1>3
<1>6. q = num_blocks_needed(t)
  BY DEF q, x, num_blocks_needed
<1> HIDE DEF q
<1>7. t <= q * PageSize /\ q * PageSize - PageSize < t
  BY <1>1, <1>2, <1>3, <1>4 DEF x
<1> QED BY <1>3, <1>5, <1>6, <1>7

\* A set of natural numbers has a least element.
LEMMA LeastNat ==
  ASSUME NEW T \in SUBSET Nat, T # {}
  PROVE  \E x \in T : \A y \in T : x <= y
<1> DEFINE R == {p \in Nat \X Nat : p[1] < p[2]}
<1>1. R = OpToRel(<, Nat)
  BY DEF OpToRel
<1>2. IsWellFoundedOn(R, Nat)
  BY <1>1, NatLessThanWellFounded
<1>3. \E x \in T : \A y \in T : ~ (<<y, x>> \in R)
  BY <1>2, WFMin
<1>4. PICK x \in T : \A y \in T : ~ (<<y, x>> \in R)
  BY <1>3
<1>5. \A y \in T : x <= y
  <2> SUFFICES ASSUME NEW y \in T PROVE x <= y
    OBVIOUS
  <2>1. <<y, x>> \in Nat \X Nat /\ <<y, x>>[1] = y /\ <<y, x>>[2] = x
    OBVIOUS
  <2>2. ~ (y < x)
    BY <1>4, <2>1
  <2> QED BY <2>2
<1> QED BY <1>5

\* Multiplying by a positive number keeps the order.
LEMMA ScaleMonotone ==
  ASSUME NEW p \in Int, NEW q \in Int, NEW m \in Nat, m > 0
  PROVE  /\ p <= q => p * m <= q * m
         /\ p * m \in Int
<1>1. ASSUME p <= q PROVE p * m <= q * m
  <2>1. PICK d \in Nat : q = p + d
    BY <1>1
  <2>2. q * m = p * m + d * m
    BY <2>1
  <2>3. d * m \in Nat /\ p * m \in Int
    OBVIOUS
  <2> QED BY <2>2, <2>3
<1> QED BY <1>1

\* More tokens never need fewer blocks, and one more token needs at most one more.
LEMMA BlocksMonotone ==
  ASSUME NEW a \in Int, NEW b \in Int
  PROVE  /\ a <= b => num_blocks_needed(a) <= num_blocks_needed(b)
         /\ num_blocks_needed(a) <= num_blocks_needed(a - 1) + 1
         /\ a >= 1 => num_blocks_needed(a) >= 1
<1> DEFINE x == num_blocks_needed(a)
           y == num_blocks_needed(b)
           z == num_blocks_needed(a - 1)
<1>0. PageSize \in Nat /\ PageSize > 0 /\ a - 1 \in Int
  BY CacheAssumption
<1>1. x \in Int /\ a <= x * PageSize /\ (x - 1) * PageSize < a
  BY Division
<1>2. y \in Int /\ b <= y * PageSize
  BY Division
<1>3. z \in Int /\ a - 1 <= z * PageSize
  BY <1>0, Division
<1> HIDE DEF x, y, z
<1>4. x - 1 \in Int /\ (x - 1) * PageSize \in Int /\ y * PageSize \in Int
      /\ z * PageSize \in Int /\ x * PageSize \in Int
  BY <1>0, <1>1, <1>2, <1>3, ScaleMonotone
<1>5. ASSUME a <= b PROVE x <= y
  <2>1. CASE y <= x - 1
    <3>1. y * PageSize <= (x - 1) * PageSize
      BY <1>0, <1>2, <1>4, <2>1, ScaleMonotone
    <3> QED BY <1>1, <1>2, <1>4, <1>5, <3>1
  <2> QED BY <1>1, <1>2, <2>1
<1>6. x <= z + 1
  <2>1. CASE z + 1 <= x - 1
    <3>1. (z + 1) * PageSize <= (x - 1) * PageSize
      BY <1>0, <1>3, <1>4, <2>1, ScaleMonotone
    <3>2. (z + 1) * PageSize = z * PageSize + PageSize
      BY <1>0, <1>3
    <3> QED BY <1>0, <1>1, <1>3, <1>4, <3>1, <3>2
  <2> QED BY <1>1, <1>3, <2>1
<1>7. ASSUME a >= 1 PROVE x >= 1
  <2>1. CASE x <= 0
    <3>1. x * PageSize <= 0 * PageSize
      BY <1>0, <1>1, <2>1, ScaleMonotone
    <3>2. 0 * PageSize = 0
      BY <1>0
    <3> QED BY <1>1, <1>4, <1>7, <3>1, <3>2
  <2> QED BY <1>1, <2>1
<1> QED BY <1>5, <1>6, <1>7 DEF x, y, z

\* allocate_blocks returns the blocks that are missing, or none.
LEMMA AllocatedLength ==
  ASSUME free_blocks_set \subseteq Blocks,
         NEW t \in Int, NEW n \in Int, NEW new \in allocate_blocks(t, n)
  PROVE  Len(new) = IF num_blocks_needed(t) > n THEN num_blocks_needed(t) - n ELSE 0
<1>1. num_blocks_needed(t) \in Int
  BY Division
<1> DEFINE delta == num_blocks_needed(t) - n
<1>2. CASE delta <= 0
  <2>1. new = << >>
    BY <1>2 DEF allocate_blocks
  <2> QED BY <1>1, <1>2, <2>1
<1>3. CASE ~(delta <= 0)
  <2>1. new \in LowestFree(delta)
    BY <1>3 DEF allocate_blocks
  <2>2. new \in [1..delta -> free_blocks_set]
    BY <2>1 DEF LowestFree
  <2>3. delta \in Nat /\ delta > 0
    BY <1>1, <1>3
  <2>4. Len(new) = delta
    <3> HIDE DEF delta
    <3> QED BY <2>2, <2>3
  <2> QED BY <1>1, <2>3, <2>4
<1> QED BY <1>2, <1>3

\* allocate_blocks succeeds when one block is missing and one is free.
LEMMA OneBlockIsEnough ==
  ASSUME free_blocks_set \subseteq Blocks, free_blocks_set # {},
         NEW t \in Int, NEW n \in Int, num_blocks_needed(t) <= n + 1
  PROVE  allocate_blocks(t, n) # {}
<1>1. num_blocks_needed(t) \in Int
  BY Division
<1> DEFINE delta == num_blocks_needed(t) - n
<1>2. CASE delta <= 0
  BY <1>2 DEF allocate_blocks
<1>3. CASE ~(delta <= 0)
  <2>1. delta = 1
    BY <1>1, <1>3
  <2>2. Blocks \subseteq Nat /\ IsFiniteSet(Blocks)
    BY CacheAssumption, FS_Interval DEF Blocks
  <2>3. IsFiniteSet(free_blocks_set)
    BY <2>2, FS_Subset
  <2>4. Cardinality(free_blocks_set) \in Nat /\ Cardinality(free_blocks_set) # 0
    BY <2>3, FS_CardinalityType, FS_EmptySet
  <2>5. PICK b \in free_blocks_set : \A c \in free_blocks_set : b <= c
    <3>1. free_blocks_set \in SUBSET Nat
      BY <2>2
    <3> QED BY <3>1, LeastNat
  <2> DEFINE s == [i \in 1..1 |-> b]
  <2>6. s \in [1..1 -> free_blocks_set]
    OBVIOUS
  <2>7. \A i, j \in 1..1 : i < j => s[i] < s[j]
    OBVIOUS
  <2>8. ASSUME NEW c \in free_blocks_set, \A i \in 1..1 : s[i] # c
        PROVE  \A i \in 1..1 : s[i] < c
    <3>1. b # c
      BY <2>8
    <3>2. b \in Nat /\ c \in Nat
      BY <2>2
    <3>3. b < c
      BY <2>5, <3>1, <3>2
    <3> QED BY <3>3
  <2>9. s \in LowestFree(1)
    BY <2>6, <2>7, <2>8 DEF LowestFree
  <2>10. allocate_blocks(t, n) = LowestFree(1)
    BY <2>1, <2>4 DEF allocate_blocks
  <2> QED BY <2>9, <2>10
<1> QED BY <1>2, <1>3

-----------------------------------------------------------------------------
(* Rows of the input buffers. *)

\* The rows depend on the tokens of these requests only.
LEMMA RowsSame ==
  ASSUME NEW T, NEW U, NEW R, \A r \in R : T[r] = U[r]
  PROVE  Rows(T, R) = Rows(U, R)
BY DEF Rows

\* The rows of finitely many requests can be counted.
LEMMA RowsFinite ==
  ASSUME NEW T, NEW R, IsFiniteSet(R), \A r \in R : T[r] \in Int
  PROVE  IsFiniteSet(Rows(T, R)) /\ Cardinality(Rows(T, R)) \in Nat
<1> DEFINE f == [r \in R |-> {r} \X (1 .. T[r])]
           S == {f[r] : r \in R}
<1>1. \A r \in R : IsFiniteSet({r} \X (1 .. T[r]))
  <2> SUFFICES ASSUME NEW r \in R PROVE IsFiniteSet({r} \X (1 .. T[r]))
    OBVIOUS
  <2>1. IsFiniteSet({r})
    BY FS_Singleton
  <2>2. IsFiniteSet(1 .. T[r])
    BY FS_Interval
  <2> QED BY <2>1, <2>2, FS_Product
<1>2. f \in Surjection(R, S)
  BY DEF Surjection
<1>3. IsFiniteSet(S)
  BY <1>2, FS_Surjection
<1>4. \A x \in S : IsFiniteSet(x)
  BY <1>1
<1>5. Rows(T, R) = UNION S
  BY DEF Rows
<1>6. IsFiniteSet(Rows(T, R))
  BY <1>3, <1>4, <1>5, FS_UNION
<1> QED BY <1>6, FS_CardinalityType

\* Fewer requests fill fewer rows.
LEMMA RowsSubset ==
  ASSUME NEW T, NEW R, NEW Q, Q \subseteq R, IsFiniteSet(R), \A r \in R : T[r] \in Int
  PROVE  /\ Cardinality(Rows(T, Q)) \in Nat
         /\ Cardinality(Rows(T, Q)) <= Cardinality(Rows(T, R))
<1>1. Rows(T, Q) \subseteq Rows(T, R)
  BY DEF Rows
<1>2. IsFiniteSet(Q)
  BY FS_Subset
<1>3. IsFiniteSet(Rows(T, R)) /\ Cardinality(Rows(T, Q)) \in Nat
  BY <1>2, RowsFinite
<1> QED BY <1>1, <1>3, FS_Subset

\* A request adds at most its tokens to the rows.
LEMMA RowsAdd ==
  ASSUME NEW T, NEW R, NEW q, IsFiniteSet(R), \A r \in R : T[r] \in Int, T[q] \in Nat
  PROVE  /\ Cardinality(Rows(T, R)) \in Nat
         /\ Cardinality(Rows(T, R \cup {q})) \in Nat
         /\ Cardinality(Rows(T, R \cup {q})) <= Cardinality(Rows(T, R)) + T[q]
<1> DEFINE A == Rows(T, R)
           B == {q} \X (1 .. T[q])
<1>1. Rows(T, R \cup {q}) = A \cup B
  BY DEF Rows
<1>2. IsFiniteSet(A) /\ Cardinality(A) \in Nat
  BY RowsFinite
<1>3. IsFiniteSet({q}) /\ Cardinality({q}) = 1
  BY FS_Singleton
<1>4. IsFiniteSet(1 .. T[q]) /\ Cardinality(1 .. T[q]) = T[q]
  BY FS_Interval
<1>5. IsFiniteSet(B) /\ Cardinality(B) = 1 * T[q]
  BY <1>3, <1>4, FS_Product
<1> HIDE DEF A, B
<1>6. /\ IsFiniteSet(A \cup B) /\ IsFiniteSet(A \cap B)
      /\ Cardinality(A \cup B) = Cardinality(A) + Cardinality(B) - Cardinality(A \cap B)
  BY <1>2, <1>5, FS_Union, FS_Intersection
<1>7. Cardinality(A \cap B) \in Nat /\ Cardinality(B) = T[q] /\ Cardinality(A \cup B) \in Nat
  BY <1>5, <1>6, FS_CardinalityType
<1>8. Cardinality(A \cup B) <= Cardinality(A) + T[q]
  BY <1>2, <1>6, <1>7
<1>9. Rows(T, R) = A
  BY DEF A
<1> QED BY <1>1, <1>2, <1>7, <1>8, <1>9

-----------------------------------------------------------------------------
(* What the operations do. *)

\* What the slots hold.
LEMMA Basics ==
  ASSUME TypeOK, RunningOnce
  PROVE  /\ current_batch_idx \in Slots
         /\ active_requests = inflight_batches[current_batch_idx]
         /\ \A k \in Slots :
              /\ inflight_batches[k] \in Seq(Requests)
              /\ NoRepeat(inflight_batches[k])
              /\ IsFiniteSet(ToSet(inflight_batches[k]))
              /\ \A r \in ToSet(inflight_batches[k]) :
                   r \in Requests /\ status[r] = "RUNNING"
              /\ \A r : r \in ToSet(inflight_batches[k]) <=>
                   \E i \in DOMAIN inflight_batches[k] : inflight_batches[k][i] = r
<1>1. /\ current_batch_idx \in Slots
      /\ \A k \in Slots : inflight_batches[k] \in Seq(Requests)
  BY DEF TypeOK
<1>2. ASSUME NEW k \in Slots
      PROVE  /\ NoRepeat(inflight_batches[k])
             /\ IsFiniteSet(ToSet(inflight_batches[k]))
             /\ \A r \in ToSet(inflight_batches[k]) :
                  r \in Requests /\ status[r] = "RUNNING"
             /\ \A r : r \in ToSet(inflight_batches[k]) <=>
                  \E i \in DOMAIN inflight_batches[k] : inflight_batches[k][i] = r
  <2> DEFINE s == inflight_batches[k]
  <2>1. s \in Seq(Requests)
    BY <1>1
  <2>2. \A i \in DOMAIN s : status[s[i]] = "RUNNING" /\ \A j \in DOMAIN s : s[i] = s[j] => i = j
    BY DEF RunningOnce
  <2> HIDE DEF s
  <2>3. /\ ToSet(s) \subseteq Requests /\ IsFiniteSet(ToSet(s))
        /\ \A x : x \in ToSet(s) <=> \E i \in DOMAIN s : s[i] = x
    BY <2>1, ToSetFacts
  <2>4. NoRepeat(s) /\ \A r \in ToSet(s) : r \in Requests /\ status[r] = "RUNNING"
    BY <2>2, <2>3 DEF NoRepeat
  <2> QED BY <2>3, <2>4 DEF s
<1> QED BY <1>1, <1>2 DEF active_requests

\* The counters of a request are numbers.
LEMMA Numbers ==
  ASSUME TypeOK, NEW r \in Requests
  PROVE  /\ num_computed_tokens[r] \in Int /\ tokens_this_step[r] \in Int
         /\ Len(input_ids_list[r]) \in Nat /\ Len(generated_tokens[r]) \in Nat
         /\ Len(block_ids[r]) \in Nat
         /\ PromptLen[r] \in Nat /\ PromptLen[r] >= 1 /\ NumTokens(r) \in Nat
<1>1. /\ num_computed_tokens[r] \in Int /\ tokens_this_step[r] \in Int
      /\ input_ids_list[r] \in Seq(Token) /\ generated_tokens[r] \in Seq(Token)
      /\ block_ids[r] \in Seq(Blocks)
  BY DEF TypeOK
<1>2. PromptLen[r] \in Nat \ {0}
  BY RequestAssumption
<1>3. /\ Len(input_ids_list[r]) \in Nat /\ Len(generated_tokens[r]) \in Nat
      /\ Len(block_ids[r]) \in Nat
  BY <1>1, LenProperties
<1>4. PromptLen[r] \in Nat /\ PromptLen[r] >= 1
  BY <1>2
<1> QED BY <1>1, <1>3, <1>4 DEF NumTokens

\* A request whose fields do not change keeps its progress.
LEMMA SameRequest ==
  ASSUME NEW r,
         input_ids_list'[r] = input_ids_list[r],
         generated_tokens'[r] = generated_tokens[r],
         num_computed_tokens'[r] = num_computed_tokens[r],
         tokens_this_step'[r] = tokens_this_step[r],
         block_ids'[r] = block_ids[r]
  PROVE  /\ Fresh(r)' <=> Fresh(r)
         /\ Ready(r)' <=> Ready(r)
         /\ Planned(r)' <=> Planned(r)
         /\ BlocksMatch(r)' <=> BlocksMatch(r)
         /\ prefilling(r)' <=> prefilling(r)
BY DEF Fresh, Ready, Planned, BlocksMatch, prefilling, NumTokens

\* What _plan_tokens_for_request computes, by cases.
LEMMA PlanNumbers ==
  ASSUME TypeOK, NEW r \in Requests, NEW available \in Int
  PROVE  LET computed == num_computed_tokens[r]
             length   == Len(input_ids_list[r])
             planned  == planned_tokens(r, available)
         IN  /\ planned \in Int
             /\ computed >= length =>
                  planned = 1 /\ next_num_comp(r, available) = computed + 1
             /\ computed < length /\ EnableChunkedPrefill =>
                  /\ planned <= available /\ planned <= length - computed
                  /\ planned = available \/ planned = length - computed
                  /\ next_num_comp(r, available) = computed + planned
             /\ computed < length /\ ~EnableChunkedPrefill =>
                  planned = length /\ next_num_comp(r, available) = length
<1> DEFINE computed == num_computed_tokens[r]
           length   == Len(input_ids_list[r])
           d        == length - computed
           planned  == planned_tokens(r, available)
<1>1. computed \in Int /\ length \in Nat
  BY Numbers
<1> HIDE DEF computed, length
<1>2. d \in Int /\ 0 \in Int
  BY <1>1
<1>3. /\ Max({0, d}) \in Int /\ Max({0, d}) >= 0 /\ Max({0, d}) >= d
      /\ Max({0, d}) = 0 \/ Max({0, d}) = d
  <2> HIDE DEF d
  <2>1. /\ Max({0, d}) \in Int /\ Max({0, d}) >= 0 /\ Max({0, d}) >= d
        /\ Max({0, d}) \in {0, d}
    BY <1>2, MaxPair
  <2> QED BY <2>1
<1>4. prefill_remaining(r) = Max({0, d})
  BY DEF prefill_remaining, d, computed, length
<1>5. /\ computed >= length => prefill_remaining(r) = 0
      /\ computed < length => prefill_remaining(r) = d /\ prefill_remaining(r) # 0
  BY <1>1, <1>3, <1>4
<1>6. CASE computed >= length
  <2>1. planned = 1 /\ next_num_comp(r, available) = computed + 1
    BY <1>5, <1>6 DEF planned_tokens, next_num_comp, computed
  <2> QED BY <1>1, <1>6, <2>1 DEF computed, length
<1>7. CASE computed < length /\ EnableChunkedPrefill
  <2>1. planned = Min({available, d})
    BY <1>5, <1>7 DEF planned_tokens
  <2>2. /\ Min({available, d}) \in Int /\ Min({available, d}) <= available
        /\ Min({available, d}) <= d /\ Min({available, d}) \in {available, d}
    <3> HIDE DEF d
    <3> QED BY <1>2, MinPair
  <2>3. next_num_comp(r, available) = computed + planned
    BY <1>7 DEF next_num_comp, computed
  <2>4. planned = available \/ planned = d
    BY <2>1, <2>2
  <2> QED BY <1>1, <1>7, <2>1, <2>2, <2>3, <2>4 DEF computed, length
<1>8. CASE computed < length /\ ~EnableChunkedPrefill
  <2>1. planned = length
    BY <1>5, <1>8 DEF planned_tokens, length
  <2>2. next_num_comp(r, available) = length
    BY <1>5, <1>8 DEF next_num_comp, length
  <2> QED BY <1>1, <1>8, <2>1, <2>2 DEF computed, length
<1> QED BY <1>1, <1>6, <1>7, <1>8, SchedulerAssumption DEF computed, length

\* Planning makes a request that is ready, or fresh, planned.
LEMMA PlannedAfter ==
  ASSUME TypeOK, NEW r \in Requests, budget \in Int, budget >= 1,
         Ready(r) \/ Fresh(r), Len(input_ids_list[r]) >= 1,
         num_computed_tokens[r] = 0 \/ EnableChunkedPrefill \/ ~prefilling(r),
         tokens_this_step'[r] = planned_tokens(r, budget),
         num_computed_tokens'[r] = next_num_comp(r, budget),
         input_ids_list'[r] = input_ids_list[r],
         generated_tokens'[r] = generated_tokens[r]
  PROVE  Planned(r)'
<1> DEFINE n == num_computed_tokens[r]
           l == Len(input_ids_list[r])
           t == planned_tokens(r, budget)
           m == next_num_comp(r, budget)
           g == NumTokens(r)
<1>1. n \in Int /\ l \in Nat /\ g \in Nat /\ l >= 1
  BY Numbers
<1>2. /\ t \in Int
      /\ n >= l => t = 1 /\ m = n + 1
      /\ n < l /\ EnableChunkedPrefill =>
           /\ t <= budget /\ t <= l - n
           /\ t = budget \/ t = l - n
           /\ m = n + t
      /\ n < l /\ ~EnableChunkedPrefill => t = l /\ m = l
  BY PlanNumbers
<1>3. \/ n = g - 1 /\ l <= n
      \/ n >= 0 /\ n < l /\ l = g
  BY <1>1 DEF Ready, Fresh
<1>4. n = 0 \/ EnableChunkedPrefill \/ ~(n < l)
  BY DEF prefilling
<1>5. Planned(r)' <=> /\ t >= 1 /\ m - t >= 0
                      /\ \/ m <= l /\ l = g
                         \/ m = g /\ l < g /\ t = 1
  BY DEF Planned, NumTokens
<1> HIDE DEF n, l, t, m, g
<1>6. CASE n >= l
  <2>1. t = 1 /\ m = n + 1 /\ n = g - 1 /\ l <= n
    BY <1>1, <1>2, <1>3, <1>6
  <2>2. m = g /\ l < g /\ m - t >= 0
    BY <1>1, <2>1
  <2> QED BY <1>5, <2>1, <2>2
<1>7. CASE n < l /\ EnableChunkedPrefill
  <2>1. t >= 1 /\ m = n + t /\ t <= l - n /\ n >= 0 /\ l = g
    BY <1>1, <1>2, <1>3, <1>7
  <2>2. m - t >= 0 /\ m <= l
    BY <1>1, <1>2, <2>1
  <2> QED BY <1>5, <2>1, <2>2
<1>8. CASE n < l /\ ~EnableChunkedPrefill
  <2>1. t = l /\ m = l /\ l = g
    BY <1>1, <1>2, <1>3, <1>8
  <2>2. t >= 1 /\ m - t >= 0 /\ m <= l
    BY <1>1, <2>1
  <2> QED BY <1>5, <2>1, <2>2
<1> QED BY <1>1, <1>6, <1>7, <1>8, SchedulerAssumption

\* Removing a request from the current slot.
LEMMA PopEffect ==
  ASSUME TypeOK, RunningOnce, NEW i \in DOMAIN active_requests,
         inflight_batches' =
           [inflight_batches EXCEPT ![current_batch_idx] = RemoveAt(@, i)],
         current_batch_idx' = current_batch_idx
  PROVE  LET v == active_requests[i]
         IN  /\ v \in Requests /\ status[v] = "RUNNING" /\ v \in ToSet(active_requests)
             /\ active_requests' = RemoveAt(active_requests, i)
             /\ ToSet(active_requests') = ToSet(active_requests) \ {v}
             /\ Len(active_requests') = Len(active_requests) - 1
             /\ \A k \in Slots : k # current_batch_idx =>
                  /\ inflight_batches'[k] = inflight_batches[k]
                  /\ v \notin ToSet(inflight_batches[k])
             /\ inflight_batches'[current_batch_idx] = active_requests'
<1> DEFINE a == active_requests
           v == a[i]
<1>1. /\ current_batch_idx \in Slots /\ a \in Seq(Requests) /\ NoRepeat(a)
      /\ inflight_batches \in [Slots -> Seq(Requests)]
      /\ a = inflight_batches[current_batch_idx]
      /\ \A r \in ToSet(a) : r \in Requests /\ status[r] = "RUNNING"
      /\ \A r : r \in ToSet(a) <=> \E j \in DOMAIN a : a[j] = r
  <2>1. inflight_batches \in [Slots -> Seq(Requests)]
    BY DEF TypeOK
  <2>2. current_batch_idx \in Slots /\ a = inflight_batches[current_batch_idx]
    BY Basics
  <2> HIDE DEF a
  <2> QED BY <2>1, <2>2, Basics
<1>2. inflight_batches' = [inflight_batches EXCEPT ![current_batch_idx] = RemoveAt(a, i)]
  BY DEF active_requests
<1>3. active_requests' = inflight_batches'[current_batch_idx]
  BY DEF active_requests
<1>4. ASSUME NEW k \in Slots, k # current_batch_idx, NEW j \in DOMAIN inflight_batches[k]
      PROVE  inflight_batches[k][j] # v
  <2>1. i \in DOMAIN inflight_batches[current_batch_idx]
    BY DEF active_requests
  <2> QED BY <1>1, <1>4, <2>1 DEF RunningOnce
<1> HIDE DEF a
<1>5. i \in DOMAIN a
  BY DEF a
<1>6. v \in ToSet(a)
  BY <1>1, <1>5
<1>7. ToSet(RemoveAt(a, i)) = ToSet(a) \ {v} /\ Len(RemoveAt(a, i)) = Len(a) - 1
  BY <1>1, <1>5, ToSetRemove
<1>8. inflight_batches'[current_batch_idx] = RemoveAt(a, i)
  BY <1>1, <1>2
<1>9. \A k \in Slots : k # current_batch_idx => inflight_batches'[k] = inflight_batches[k]
  BY <1>1, <1>2
<1>10. \A k \in Slots : k # current_batch_idx => v \notin ToSet(inflight_batches[k])
  BY <1>4, Basics
<1>11. v \in Requests /\ status[v] = "RUNNING"
  BY <1>1, <1>6
<1>12. active_requests' = RemoveAt(a, i)
  BY <1>3, <1>8
<1>13. /\ v \in Requests /\ status[v] = "RUNNING" /\ v \in ToSet(a)
       /\ active_requests' = RemoveAt(a, i)
       /\ ToSet(active_requests') = ToSet(a) \ {v}
       /\ Len(active_requests') = Len(a) - 1
       /\ \A k \in Slots : k # current_batch_idx =>
            /\ inflight_batches'[k] = inflight_batches[k]
            /\ v \notin ToSet(inflight_batches[k])
       /\ inflight_batches'[current_batch_idx] = active_requests'
  BY <1>6, <1>7, <1>8, <1>9, <1>10, <1>11, <1>12
<1> QED BY <1>13 DEF a

\* The head and the rest of what the planning loop has to visit.
LEMMA TodoFacts ==
  ASSUME TypeOK, TodoKept, todo # << >>
  PROVE  /\ Head(todo) \in ToSet(todo) /\ Head(todo) \in Requests
         /\ ToSet(Tail(todo)) = ToSet(todo) \ {Head(todo)}
         /\ NoRepeat(Tail(todo)) /\ Tail(todo) \in Seq(Requests)
         /\ Cardinality(ToSet(todo)) = Cardinality(ToSet(Tail(todo))) + 1
         /\ Cardinality(ToSet(Tail(todo))) \in Nat
         /\ Len(todo) \in Nat /\ Len(todo) >= 1 /\ Len(Tail(todo)) = Len(todo) - 1
         /\ Head(todo) = todo[1]
<1>1. todo \in Seq(Requests) /\ NoRepeat(todo)
  BY DEF TypeOK, TodoKept
<1>2. Len(todo) \in Nat /\ Len(todo) >= 1 /\ Len(Tail(todo)) = Len(todo) - 1
      /\ Head(todo) = todo[1]
  BY <1>1
<1> QED BY <1>1, <1>2, ToSetTail

\* What AdmitRequest does to the requests and to the slots.
LEMMA AdmitEffect ==
  ASSUME TypeOK, WaitingOnce, RunningOnce, AdmitRequest
  PROVE  LET r == Head(request_queue)
         IN  /\ r \in Requests /\ status[r] = "PENDING"
             /\ pc = "admit" /\ pc' = "admit" /\ budget > 0 /\ seqs_budget > 0
             /\ todo' = todo /\ current_batch_idx' = current_batch_idx
             /\ budget' = budget - planned_tokens(r, budget)
             /\ budget >= planned_tokens(r, budget)
             /\ seqs_budget' = seqs_budget - 1
             /\ tokens_this_step'[r] = planned_tokens(r, budget)
             /\ num_computed_tokens'[r] = next_num_comp(r, budget)
             /\ input_ids_list' = input_ids_list /\ generated_tokens' = generated_tokens
             /\ status'[r] = "RUNNING"
             /\ \A q \in Requests : q # r =>
                  /\ status'[q] = status[q] /\ block_ids'[q] = block_ids[q]
                  /\ tokens_this_step'[q] = tokens_this_step[q]
                  /\ num_computed_tokens'[q] = num_computed_tokens[q]
             /\ active_requests' = Append(active_requests, r)
             /\ ToSet(active_requests') = ToSet(active_requests) \cup {r}
             /\ Len(active_requests') = Len(active_requests) + 1
             /\ r \notin ToSet(active_requests)
             /\ \A k \in Slots : k # current_batch_idx =>
                  inflight_batches'[k] = inflight_batches[k]
             /\ inflight_batches'[current_batch_idx] = active_requests'
             /\ \A k \in Slots : r \notin ToSet(inflight_batches[k])
<1> DEFINE r == Head(request_queue)
           a == active_requests
<1>1. /\ current_batch_idx \in Slots /\ a \in Seq(Requests)
      /\ inflight_batches \in [Slots -> Seq(Requests)]
      /\ a = inflight_batches[current_batch_idx]
      /\ \A k \in Slots : \A q \in ToSet(inflight_batches[k]) : status[q] = "RUNNING"
  BY Basics DEF TypeOK
<1>2. /\ request_queue # << >> /\ request_queue \in Seq(Requests)
      /\ status \in [Requests -> Status] /\ tokens_this_step \in [Requests -> Int]
      /\ num_computed_tokens \in [Requests -> Int] /\ block_ids \in [Requests -> Seq(Blocks)]
  BY DEF AdmitRequest, TypeOK
<1>3. r \in Requests /\ 1 \in DOMAIN request_queue /\ r = request_queue[1]
  BY <1>2, TailElements
<1>4. status[r] = "PENDING"
  BY <1>3 DEF WaitingOnce
<1>5. \A k \in Slots : r \notin ToSet(inflight_batches[k])
  BY <1>1, <1>4
<1>6. /\ pc = "admit" /\ pc' = "admit" /\ budget > 0 /\ seqs_budget > 0
      /\ todo' = todo /\ current_batch_idx' = current_batch_idx
      /\ budget' = budget - planned_tokens(r, budget)
      /\ budget >= planned_tokens(r, budget)
      /\ seqs_budget' = seqs_budget - 1
      /\ input_ids_list' = input_ids_list /\ generated_tokens' = generated_tokens
      /\ status' = [status EXCEPT ![r] = "RUNNING"]
      /\ tokens_this_step' = [tokens_this_step EXCEPT ![r] = planned_tokens(r, budget)]
      /\ num_computed_tokens' = [num_computed_tokens EXCEPT ![r] = next_num_comp(r, budget)]
      /\ inflight_batches' = [inflight_batches EXCEPT ![current_batch_idx] = Append(@, r)]
      /\ \E new \in activation(r) : block_ids' = [block_ids EXCEPT ![r] = @ \o new]
  BY DEF AdmitRequest, Admitting, admissible, output_vars
<1> HIDE DEF r, a
<1>7. inflight_batches'[current_batch_idx] = Append(a, r)
  BY <1>1, <1>6
<1>8. active_requests' = Append(a, r)
  BY <1>6, <1>7 DEF active_requests
<1>9. ToSet(Append(a, r)) = ToSet(a) \cup {r} /\ Len(Append(a, r)) = Len(a) + 1
  BY <1>1, <1>3, ToSetAppend, AppendProperties
<1>10. \A q \in Requests : q # r =>
                  /\ status'[q] = status[q] /\ block_ids'[q] = block_ids[q]
                  /\ tokens_this_step'[q] = tokens_this_step[q]
                  /\ num_computed_tokens'[q] = num_computed_tokens[q]
  BY <1>2, <1>6
<1>11. /\ status'[r] = "RUNNING" /\ tokens_this_step'[r] = planned_tokens(r, budget)
       /\ num_computed_tokens'[r] = next_num_comp(r, budget)
  BY <1>2, <1>3, <1>6
<1>12. \A k \in Slots : k # current_batch_idx => inflight_batches'[k] = inflight_batches[k]
  BY <1>1, <1>6
<1>13. r \notin ToSet(a)
  BY <1>1, <1>5
<1> QED BY <1>3, <1>4, <1>5, <1>6, <1>7, <1>8, <1>9, <1>10, <1>11, <1>12, <1>13 DEF r, a

\* What PlanActive does.
LEMMA PlanEffect ==
  ASSUME TypeOK, TodoKept, PlanActive
  PROVE  LET h == Head(todo)
         IN  /\ pc = "plan" /\ pc' = "extend" /\ todo # << >> /\ todo' = todo
             /\ h \in Requests /\ h \in ToSet(active_requests)
             /\ budget' = budget /\ held' = held /\ status' = status
             /\ tokens_this_step'[h] = planned_tokens(h, budget)
             /\ num_computed_tokens'[h] = next_num_comp(h, budget)
             /\ \A q \in Requests : q # h =>
                  /\ tokens_this_step'[q] = tokens_this_step[q]
                  /\ num_computed_tokens'[q] = num_computed_tokens[q]
             /\ input_ids_list' = input_ids_list /\ generated_tokens' = generated_tokens
             /\ block_ids' = block_ids
             /\ active_requests' = active_requests
             /\ UNCHANGED <<free_blocks_set, slot_vars>>
<1>1. PlanActive
  OBVIOUS
<1>2. /\ todo # << >> /\ tokens_this_step \in [Requests -> Int]
      /\ num_computed_tokens \in [Requests -> Int]
  BY <1>1 DEF PlanActive, TypeOK
<1>3. Head(todo) \in Requests
  BY <1>2, TodoFacts
<1> DEFINE h == Head(todo)
<1>4. /\ pc = "plan" /\ pc' = "extend" /\ todo' = todo
      /\ h \in ToSet(active_requests) /\ budget' = budget /\ held' = held
      /\ status' = status /\ input_ids_list' = input_ids_list
      /\ generated_tokens' = generated_tokens /\ block_ids' = block_ids
      /\ UNCHANGED <<free_blocks_set, slot_vars>>
      /\ tokens_this_step' = [tokens_this_step EXCEPT ![h] = planned_tokens(h, budget)]
      /\ num_computed_tokens' = [num_computed_tokens EXCEPT ![h] = next_num_comp(h, budget)]
  BY <1>1 DEF PlanActive, output_vars, cache_vars
<1>5. active_requests' = active_requests
  BY <1>4 DEF active_requests, slot_vars
<1> HIDE DEF h
<1>6. /\ tokens_this_step'[h] = planned_tokens(h, budget)
      /\ num_computed_tokens'[h] = next_num_comp(h, budget)
      /\ \A q \in Requests : q # h =>
                  /\ tokens_this_step'[q] = tokens_this_step[q]
                  /\ num_computed_tokens'[q] = num_computed_tokens[q]
  <2>1. h \in Requests
    BY <1>3 DEF h
  <2> QED BY <1>2, <1>4, <2>1
<1> QED BY <1>2, <1>3, <1>4, <1>5, <1>6 DEF h

\* What a successful extension does.
LEMMA ExtendEffect ==
  ASSUME TypeOK, TodoKept, pc \in {"extend", "retry"}, Extend(Head(todo))
  PROVE  LET h == Head(todo)
         IN  /\ pc' = "plan" /\ todo # << >> /\ todo' = Tail(todo)
             /\ h \in Requests /\ h \in ToSet(active_requests)
             /\ budget' = budget - tokens_this_step[h]
             /\ status' = status /\ tokens_this_step' = tokens_this_step
             /\ num_computed_tokens' = num_computed_tokens
             /\ input_ids_list' = input_ids_list /\ generated_tokens' = generated_tokens
             /\ \A q \in Requests : q # h => block_ids'[q] = block_ids[q]
             /\ Len(block_ids'[h]) =
                  IF num_blocks_needed(num_computed_tokens[h]) > Len(block_ids[h])
                  THEN num_blocks_needed(num_computed_tokens[h]) ELSE Len(block_ids[h])
             /\ active_requests' = active_requests
             /\ UNCHANGED slot_vars
<1> DEFINE h == Head(todo)
<1>1. todo # << >> /\ block_ids \in [Requests -> Seq(Blocks)] /\ free_blocks_set \subseteq Blocks
  BY DEF TypeOK
<1>2. h \in Requests
  BY <1>1, TodoFacts
<1>3. h \in ToSet(active_requests)
  BY DEF TodoKept
<1>4. /\ pc' = "plan" /\ todo' = Tail(todo) /\ budget' = budget - tokens_this_step[h]
      /\ status' = status /\ tokens_this_step' = tokens_this_step
      /\ num_computed_tokens' = num_computed_tokens
      /\ input_ids_list' = input_ids_list /\ generated_tokens' = generated_tokens
      /\ UNCHANGED slot_vars
      /\ \E new \in extension(h) : block_ids' = [block_ids EXCEPT ![h] = @ \o new]
  BY DEF Extend, output_vars
<1>5. active_requests' = active_requests
  BY <1>4 DEF active_requests, slot_vars
<1> HIDE DEF h
<1>6. PICK new \in extension(h) : block_ids' = [block_ids EXCEPT ![h] = @ \o new]
  BY <1>4
<1>7. num_computed_tokens[h] \in Int /\ Len(block_ids[h]) \in Nat
  BY <1>2, Numbers
<1>8. new \in Seq(free_blocks_set)
  BY <1>1, <1>6, <1>7, AllocatedAreFree DEF extension
<1>9. Len(new) = IF num_blocks_needed(num_computed_tokens[h]) > Len(block_ids[h])
                 THEN num_blocks_needed(num_computed_tokens[h]) - Len(block_ids[h]) ELSE 0
  BY <1>1, <1>6, <1>7, AllocatedLength DEF extension
<1>10. new \in Seq(Blocks) /\ block_ids[h] \in Seq(Blocks)
  BY <1>1, <1>2, <1>8, SeqMonotonic
<1>11. Len(block_ids[h] \o new) = Len(block_ids[h]) + Len(new)
  BY <1>10, ConcatProperties
<1>12. block_ids'[h] = block_ids[h] \o new /\ \A q \in Requests : q # h => block_ids'[q] = block_ids[q]
  BY <1>1, <1>2, <1>6
<1>13. num_blocks_needed(num_computed_tokens[h]) \in Int
  BY <1>7, Division
<1>14. Len(block_ids'[h]) =
         IF num_blocks_needed(num_computed_tokens[h]) > Len(block_ids[h])
         THEN num_blocks_needed(num_computed_tokens[h]) ELSE Len(block_ids[h])
  BY <1>7, <1>9, <1>11, <1>12, <1>13
<1> QED BY <1>1, <1>2, <1>3, <1>4, <1>5, <1>12, <1>14 DEF h

\* What PreemptVictim does.
LEMMA PreemptEffect ==
  ASSUME TypeOK, InputKept, RunningOnce, PreemptVictim
  PROVE  \E i \in DOMAIN active_requests :
           LET v == active_requests[i]
           IN  /\ v \in Requests /\ status[v] = "RUNNING" /\ v \in ToSet(active_requests)
               /\ pc = "extend" /\ pc' = "put_victim" /\ todo' = todo /\ budget' = budget
               /\ held' = <<v>> /\ status'[v] = "PENDING"
               /\ num_computed_tokens'[v] = 0 /\ block_ids'[v] = << >>
               /\ input_ids_list'[v] = input_ids_list[v] \o new_tokens(v)
               /\ \A q \in Requests : q # v =>
                    /\ status'[q] = status[q] /\ block_ids'[q] = block_ids[q]
                    /\ tokens_this_step'[q] = tokens_this_step[q]
                    /\ num_computed_tokens'[q] = num_computed_tokens[q]
                    /\ input_ids_list'[q] = input_ids_list[q]
               /\ generated_tokens' = generated_tokens
               /\ free_blocks(block_ids[v])
               /\ active_requests' = RemoveAt(active_requests, i)
               /\ ToSet(active_requests') = ToSet(active_requests) \ {v}
               /\ Len(active_requests') = Len(active_requests) - 1
               /\ \A k \in Slots : k # current_batch_idx =>
                    /\ inflight_batches'[k] = inflight_batches[k]
                    /\ v \notin ToSet(inflight_batches[k])
               /\ inflight_batches'[current_batch_idx] = active_requests'
               /\ current_batch_idx' = current_batch_idx
<1>1. /\ pc = "extend" /\ pc' = "put_victim" /\ todo' = todo /\ budget' = budget
      /\ current_batch_idx' = current_batch_idx
  BY DEF PreemptVictim
<1>2. PICK i \in DOMAIN active_requests : preempt_request(i) /\ held' = <<active_requests[i]>>
  BY DEF PreemptVictim
<1> DEFINE v == active_requests[i]
<1>3. inflight_batches' = [inflight_batches EXCEPT ![current_batch_idx] = RemoveAt(@, i)]
      /\ free_blocks(block_ids[v]) /\ preempt(v)
  BY <1>2 DEF preempt_request
<1>4. /\ v \in Requests /\ status[v] = "RUNNING" /\ v \in ToSet(active_requests)
      /\ active_requests' = RemoveAt(active_requests, i)
      /\ ToSet(active_requests') = ToSet(active_requests) \ {v}
      /\ Len(active_requests') = Len(active_requests) - 1
      /\ \A k \in Slots : k # current_batch_idx =>
           /\ inflight_batches'[k] = inflight_batches[k]
           /\ v \notin ToSet(inflight_batches[k])
      /\ inflight_batches'[current_batch_idx] = active_requests'
  BY <1>1, <1>3, PopEffect
<1>5. /\ status \in [Requests -> Status] /\ tokens_this_step \in [Requests -> Int]
      /\ num_computed_tokens \in [Requests -> Int] /\ block_ids \in [Requests -> Seq(Blocks)]
      /\ input_ids_list \in [Requests -> Seq(Token)]
  BY DEF TypeOK
<1> HIDE DEF v
<1>6. /\ status'[v] = "PENDING"
      /\ num_computed_tokens'[v] = 0 /\ block_ids'[v] = << >>
      /\ input_ids_list'[v] = input_ids_list[v] \o new_tokens(v)
      /\ \A q \in Requests : q # v =>
           /\ status'[q] = status[q] /\ block_ids'[q] = block_ids[q]
           /\ tokens_this_step'[q] = tokens_this_step[q]
           /\ num_computed_tokens'[q] = num_computed_tokens[q]
           /\ input_ids_list'[q] = input_ids_list[q]
      /\ generated_tokens' = generated_tokens
  BY <1>3, <1>4, <1>5 DEF preempt, output_vars
<1>7. held' = <<v>>
  BY <1>2 DEF v
<1> QED BY <1>1, <1>3, <1>4, <1>6, <1>7 DEF v

\* What UpdateFinish does.
LEMMA FinishEffect ==
  ASSUME TypeOK, RunningOnce, UpdateFinish
  PROVE  /\ pc = "update" /\ pc' = "update" /\ todo' = todo /\ row' = row + 1
         /\ row \in DOMAIN batch_to_update /\ batch_to_update' = batch_to_update
         /\ ~prefilling(current)
         /\ current \in Requests /\ status[current] = "RUNNING"
         /\ current \in ToSet(active_requests)
         /\ status'[current] = "FINISHED"
         /\ \A q \in Requests : q # current =>
              /\ status'[q] = status[q] /\ block_ids'[q] = block_ids[q]
              /\ generated_tokens'[q] = generated_tokens[q]
         /\ tokens_this_step' = tokens_this_step
         /\ num_computed_tokens' = num_computed_tokens
         /\ input_ids_list' = input_ids_list
         /\ ToSet(active_requests') = ToSet(active_requests) \ {current}
         /\ Len(active_requests') = Len(active_requests) - 1
         /\ \E i \in DOMAIN active_requests :
              active_requests' = RemoveAt(active_requests, i)
         /\ \A k \in Slots : k # current_batch_idx =>
              /\ inflight_batches'[k] = inflight_batches[k]
              /\ current \notin ToSet(inflight_batches[k])
         /\ inflight_batches'[current_batch_idx] = active_requests'
         /\ current_batch_idx' = current_batch_idx
<1>1. /\ pc = "update" /\ pc' = "update" /\ todo' = todo /\ row' = row + 1
      /\ row \in DOMAIN batch_to_update /\ batch_to_update' = batch_to_update
      /\ ~prefilling(current)
      /\ current_batch_idx' = current_batch_idx
      /\ tokens_this_step' = tokens_this_step
      /\ num_computed_tokens' = num_computed_tokens
      /\ input_ids_list' = input_ids_list
      /\ generated_tokens' =
           [generated_tokens EXCEPT ![current] = Append(@, infer_result.token_ids[row])]
  BY DEF UpdateFinish, TakesToken, row_raises, process_generated_token
<1> DEFINE c == current
<1>2. PICK i \in DOMAIN active_requests :
        /\ active_requests[i] = c
        /\ inflight_batches' = [inflight_batches EXCEPT ![current_batch_idx] = RemoveAt(@, i)]
  BY DEF UpdateFinish, finalize_request
<1>3. /\ status' = [status EXCEPT ![c] = "FINISHED"]
      /\ block_ids' = [block_ids EXCEPT ![c] = << >>]
  BY DEF UpdateFinish, finalize_request
<1> HIDE DEF c
<1>4. /\ c \in Requests /\ status[c] = "RUNNING" /\ c \in ToSet(active_requests)
      /\ active_requests' = RemoveAt(active_requests, i)
      /\ ToSet(active_requests') = ToSet(active_requests) \ {c}
      /\ Len(active_requests') = Len(active_requests) - 1
      /\ \A k \in Slots : k # current_batch_idx =>
           /\ inflight_batches'[k] = inflight_batches[k]
           /\ c \notin ToSet(inflight_batches[k])
      /\ inflight_batches'[current_batch_idx] = active_requests'
  BY <1>1, <1>2, PopEffect
<1>5. /\ status \in [Requests -> Status] /\ generated_tokens \in [Requests -> Seq(Token)]
      /\ block_ids \in [Requests -> Seq(Blocks)]
  BY DEF TypeOK
<1>6. /\ status'[c] = "FINISHED"
      /\ \A q \in Requests : q # c =>
              /\ status'[q] = status[q] /\ block_ids'[q] = block_ids[q]
  BY <1>3, <1>4, <1>5
<1>7. \A q \in Requests : q # c => generated_tokens'[q] = generated_tokens[q]
  BY <1>1, <1>5 DEF c
<1> QED BY <1>1, <1>2, <1>4, <1>6, <1>7 DEF c

-----------------------------------------------------------------------------
(* The loop and its batches. *)

\* The planning loop keeps its list.
LEMMA TodoKeptStep == CInv /\ [Next]_vars => TodoKept'
<1> SUFFICES ASSUME CInv, [Next]_vars PROVE TodoKept'
  OBVIOUS
<1>0. TypeOK /\ InputKept /\ WaitingOnce /\ RunningOnce /\ TodoKept
  BY DEF CInv, IInv
<1> USE DEF request_vars, output_vars, cache_vars, queue_vars, slot_vars, loop_vars, infer_vars
<1>1. ASSUME UNCHANGED <<todo, pc, held, inflight_batches, current_batch_idx>> PROVE TodoKept'
  BY <1>0, <1>1 DEF TodoKept, active_requests, NoRepeat, Planning
<1>2. ASSUME pc \notin Planning, pc' \notin Planning, todo' = todo PROVE TodoKept'
  <2>1. todo = << >> /\ todo' = << >>
    BY <1>0, <1>2 DEF TodoKept
  <2> QED BY <1>2, <2>1 DEF TodoKept, NoRepeat, Planning
<1>3. CASE \/ poll_results \/ (\E r \in Requests : submit_request(r)) \/ UNCHANGED vars
  BY <1>1, <1>3 DEF poll_results, submit_request, vars
<1>4. CASE ScheduleBegin
  <2>1. pc' = "plan" /\ todo' = active_requests /\ NoRepeat(active_requests)
    BY <1>0, <1>4, Basics DEF ScheduleBegin
  <2> QED BY <2>1 DEF TodoKept, Planning, NoRepeat
<1>5. CASE SkipPreempted
  <2>1. todo # << >> /\ todo' = Tail(todo) /\ pc = "plan" /\ pc' = "plan"
    BY <1>5 DEF SkipPreempted
  <2>2. NoRepeat(Tail(todo))
    BY <1>0, <2>1, TodoFacts
  <2>3. NoRepeat(todo')
    BY <2>1, <2>2
  <2> QED BY <2>1, <2>3 DEF TodoKept, Planning, NoRepeat
<1>6. CASE PlanActive
  <2>1. /\ pc' = "extend" /\ todo' = todo /\ Head(todo) \in ToSet(active_requests)
        /\ active_requests' = active_requests
    BY <1>0, <1>6, PlanEffect
  <2> QED BY <1>0, <2>1 DEF TodoKept, Planning, NoRepeat
<1>7. CASE ExtendActive \/ RetryExtend
  <2>1. pc' = "plan" /\ todo' = Tail(todo) /\ pc \in {"extend", "retry"}
    BY <1>7 DEF ExtendActive, RetryExtend, Extend
  <2>2. NoRepeat(Tail(todo))
    BY <1>0, <2>1, TodoFacts DEF TypeOK
  <2>3. NoRepeat(todo')
    BY <2>1, <2>2
  <2> QED BY <2>1, <2>3 DEF TodoKept, Planning, NoRepeat
<1>8. CASE PreemptVictim
  <2>1. PICK i \in DOMAIN active_requests :
          /\ pc = "extend" /\ pc' = "put_victim" /\ todo' = todo
          /\ held' = <<active_requests[i]>>
          /\ ToSet(active_requests') = ToSet(active_requests) \ {active_requests[i]}
    BY <1>0, <1>8, PreemptEffect
  <2>2. Head(todo) \in ToSet(active_requests)
    BY <1>0, <2>1 DEF TodoKept
  <2>3. held'[1] = active_requests[i]
    BY <2>1
  <2> QED BY <1>0, <2>1, <2>2, <2>3 DEF TodoKept, Planning, NoRepeat
<1>9. CASE PutVictim
  <2>1. pc = "put_victim" /\ todo # << >> /\ active_requests' = active_requests
    BY <1>0, <1>9 DEF PutVictim, TypeOK, active_requests
  <2>2. CASE held = <<Head(todo)>>
    <3>1. pc' = "plan" /\ todo' = Tail(todo)
      BY <1>9, <2>2 DEF PutVictim
    <3>2. NoRepeat(Tail(todo))
      BY <1>0, <2>1, TodoFacts
    <3>3. NoRepeat(todo')
      BY <3>1, <3>2
    <3> QED BY <3>1, <3>3 DEF TodoKept, Planning, NoRepeat
  <2>3. CASE held # <<Head(todo)>>
    <3>1. pc' = "retry" /\ todo' = todo
      BY <1>9, <2>3 DEF PutVictim
    <3>2. held # << >> /\ Len(held) = 1 /\ held \in Seq(Requests)
      BY <1>0, <2>1 DEF WaitingOnce, TypeOK
    <3>3. held[1] # Head(todo)
      BY <2>3, <3>2
    <3> QED BY <1>0, <2>1, <3>1, <3>3 DEF TodoKept, Planning, NoRepeat
  <2> QED BY <2>2, <2>3
<1>10. CASE PlanDone
  BY <1>10 DEF PlanDone, TodoKept, Planning, NoRepeat
<1>11. CASE AdmitRequest \/ RejectHead \/ Requeue \/ Dispatch
  BY <1>2, <1>11 DEF AdmitRequest, RejectHead, Requeue, Dispatch, Admitting, Planning
<1>12. CASE Infer
  BY <1>2, <1>12 DEF Infer, Planning
<1>13. CASE UpdateSkip \/ UpdateContinue \/ UpdateFinish \/ UpdateRaise \/ UpdateDone
  BY <1>2, <1>13 DEF UpdateSkip, UpdateContinue, UpdateFinish, UpdateRaise, UpdateDone,
     TakesToken, Planning
<1> QED BY <1>3, <1>4, <1>5, <1>6, <1>7, <1>8, <1>9, <1>10, <1>11, <1>12, <1>13
        DEF Next, GenerationLoop

\* The batches stay the slots they were taken from.
LEMMA BatchesStep == CInv /\ [Next]_vars => Batches'
<1> SUFFICES ASSUME CInv, [Next]_vars PROVE Batches'
  OBVIOUS
<1>0. TypeOK /\ InputKept /\ WaitingOnce /\ RunningOnce /\ Batches
  BY DEF CInv, IInv
<1> USE DEF request_vars, output_vars, cache_vars, queue_vars, slot_vars, loop_vars, infer_vars
<1>1. ASSUME UNCHANGED <<pc, inflight_batches, current_batch_idx, batch_to_infer,
                         batch_to_update, row>>
      PROVE  Batches'
  BY <1>0, <1>1 DEF Batches, active_requests, NoRepeat, previous_batch_idx
<1>2. pc' \notin {"infer", "update"} => Batches'
  BY DEF Batches
<1>3. CASE \/ poll_results \/ (\E r \in Requests : submit_request(r)) \/ UNCHANGED vars
  BY <1>1, <1>3 DEF poll_results, submit_request, vars
<1>4. CASE \/ ScheduleBegin \/ SkipPreempted \/ PlanActive \/ ExtendActive \/ RetryExtend
           \/ PlanDone
  BY <1>2, <1>4 DEF ScheduleBegin, SkipPreempted, PlanActive, ExtendActive, RetryExtend,
     Extend, PlanDone
<1>5. CASE \/ PreemptVictim \/ PutVictim \/ AdmitRequest \/ RejectHead \/ Requeue
           \/ UpdateRaise \/ UpdateDone
  BY <1>2, <1>5 DEF PreemptVictim, PutVictim, AdmitRequest, RejectHead, Requeue,
     UpdateRaise, UpdateDone, Admitting
<1>6. CASE Dispatch
  <2>1. /\ current_batch_idx \in Slots /\ active_requests = inflight_batches[current_batch_idx]
    BY <1>0, Basics
  <2>2. next_batch_idx = IF current_batch_idx = PPSize - 1 THEN 0 ELSE current_batch_idx + 1
    BY <2>1, SchedulerAssumption DEF next_batch_idx, Slots
  <2>3. next_batch_idx \in Slots
    BY <2>1, <2>2, SchedulerAssumption DEF Slots
  <2>4. /\ get_snapshot(active_requests) = inflight_batches[current_batch_idx]
        /\ get_snapshot(inflight_batches[next_batch_idx]) = inflight_batches[next_batch_idx]
    BY <1>0, <2>1, <2>3, SnapshotIsSlot
  <2>5. /\ batch_to_infer' = inflight_batches[current_batch_idx]
        /\ batch_to_update' = inflight_batches[next_batch_idx]
        /\ inflight_batches' = inflight_batches /\ current_batch_idx' = next_batch_idx
        /\ pc' # "update"
    BY <1>6, <2>4 DEF Dispatch
  <2>6. previous_batch_idx' = current_batch_idx
    BY <2>1, <2>2, <2>5, SchedulerAssumption DEF previous_batch_idx, Slots
  <2> QED BY <2>5, <2>6 DEF Batches
<1>7. CASE Infer
  <2>1. /\ batch_to_update = active_requests
        /\ NoRepeat(active_requests)
        /\ \A i \in DOMAIN active_requests : active_requests[i] \in ToSet(active_requests)
    BY <1>0, <1>7, Basics DEF Batches, Infer
  <2>2. /\ pc' \in {"update", "schedule"} /\ row' = 1 /\ batch_to_update' = batch_to_update
        /\ active_requests' = active_requests
    BY <1>7 DEF Infer, active_requests
  <2> QED BY <2>1, <2>2 DEF Batches, NoRepeat
<1>8. CASE UpdateSkip \/ UpdateContinue
  <2>1. /\ pc = "update" /\ pc' = "update" /\ row' = row + 1
        /\ batch_to_update' = batch_to_update /\ active_requests' = active_requests
    BY <1>8 DEF UpdateSkip, UpdateContinue, TakesToken, active_requests
  <2>2. row \in Nat /\ batch_to_update \in Seq(Requests)
    BY <1>0 DEF TypeOK
  <2>3. row + 1 >= 1 /\ \A i \in DOMAIN batch_to_update : i >= row + 1 => i >= row
    BY <2>2
  <2> QED BY <1>0, <2>1, <2>3 DEF Batches, NoRepeat
<1>9. CASE UpdateFinish
  <2>1. /\ pc = "update" /\ pc' = "update" /\ row' = row + 1
        /\ batch_to_update' = batch_to_update /\ row \in DOMAIN batch_to_update
        /\ ToSet(active_requests') = ToSet(active_requests) \ {current}
    BY <1>0, <1>9, FinishEffect
  <2>2. row \in Nat /\ batch_to_update \in Seq(Requests)
    BY <1>0 DEF TypeOK
  <2>3. row + 1 >= 1 /\ \A i \in DOMAIN batch_to_update : i >= row + 1 => i >= row /\ i # row
    BY <2>2
  <2>4. NoRepeat(batch_to_update) /\ \A i \in DOMAIN batch_to_update :
            i >= row => batch_to_update[i] \in ToSet(active_requests)
    BY <1>0, <2>1 DEF Batches
  <2>5. ASSUME NEW i \in DOMAIN batch_to_update, i >= row + 1
        PROVE  batch_to_update[i] \in ToSet(active_requests')
    <3>1. i >= row /\ i # row
      BY <2>3, <2>5
    <3>2. batch_to_update[i] # current
      BY <2>1, <2>4, <3>1 DEF NoRepeat, current
    <3> QED BY <2>1, <2>4, <3>1, <3>2
  <2>6. NoRepeat(batch_to_update)'
    BY <2>1, <2>4 DEF NoRepeat
  <2> QED BY <2>1, <2>3, <2>5, <2>6 DEF Batches
<1> QED BY <1>3, <1>4, <1>5, <1>6, <1>7, <1>8, <1>9 DEF Next, GenerationLoop

-----------------------------------------------------------------------------
(* How far the requests are. *)

\* A step that changes no request keeps their progress.
LEMMA ProgressKept ==
  ASSUME Progress,
         UNCHANGED <<status, input_ids_list, generated_tokens, num_computed_tokens,
                     tokens_this_step, block_ids>>,
         pc' # "dead" => pc # "dead" /\ Unplanned' = Unplanned
  PROVE  Progress'
<1> SUFFICES ASSUME NEW r \in Requests
             PROVE  /\ status'[r] \in {"CREATED", "PENDING"} => Fresh(r)'
                    /\ status'[r] = "RUNNING" /\ pc' # "dead" =>
                         IF r \in Unplanned' THEN Ready(r)' ELSE Planned(r)'
  BY DEF Progress
<1>1. (Fresh(r)' <=> Fresh(r)) /\ (Ready(r)' <=> Ready(r)) /\ (Planned(r)' <=> Planned(r))
  BY SameRequest
<1> QED BY <1>1 DEF Progress

\* A running request has computed and folded no more tokens than it has.
LEMMA ActivePlanned ==
  ASSUME IInv, Progress, TodoKept, NEW r \in Requests, status[r] = "RUNNING", pc # "dead"
  PROVE  /\ Len(input_ids_list[r]) <= NumTokens(r) /\ num_computed_tokens[r] >= 0
         /\ Len(input_ids_list[r]) >= 1
<1>1. /\ num_computed_tokens[r] \in Int /\ tokens_this_step[r] \in Int
      /\ Len(input_ids_list[r]) \in Nat /\ NumTokens(r) \in Nat
      /\ PromptLen[r] >= 1 /\ PromptLen[r] \in Nat
  BY Numbers DEF IInv
<1>2. Ready(r) \/ Planned(r)
  BY DEF Progress
<1>3. Len(input_ids_list[r]) >= PromptLen[r]
  BY DEF IInv, InputKept
<1>4. Len(input_ids_list[r]) >= 1
  BY <1>1, <1>3
<1>5. CASE Ready(r)
  <2>1. CASE num_computed_tokens[r] = NumTokens(r) - 1
             /\ Len(input_ids_list[r]) <= num_computed_tokens[r]
    BY <1>1, <1>4, <2>1
  <2>2. CASE num_computed_tokens[r] >= 0 /\ Len(input_ids_list[r]) = NumTokens(r)
    BY <1>1, <1>4, <2>2
  <2> QED BY <1>5, <2>1, <2>2 DEF Ready
<1>6. CASE Planned(r)
  BY <1>1, <1>4, <1>6 DEF Planned
<1> QED BY <1>2, <1>5, <1>6

\* preempt() makes the input as long as the request has tokens.
LEMMA FoldedLength ==
  ASSUME TypeOK, InputKept, NEW r \in Requests, Len(input_ids_list[r]) <= NumTokens(r)
  PROVE  Len(input_ids_list[r] \o new_tokens(r)) = NumTokens(r)
<1>1. /\ input_ids_list[r] \in Seq(Token) /\ generated_tokens[r] \in Seq(Token)
  BY DEF TypeOK
<1>2. /\ Len(input_ids_list[r]) \in Nat /\ Len(generated_tokens[r]) \in Nat
      /\ PromptLen[r] \in Nat /\ NumTokens(r) = PromptLen[r] + Len(generated_tokens[r])
  BY Numbers DEF NumTokens
<1>3. Len(input_ids_list[r]) >= PromptLen[r]
  BY DEF InputKept
<1> DEFINE m == already_folded(r) + 1
           n == Len(generated_tokens[r])
<1>4. m \in Nat /\ m >= 1 /\ n \in Nat /\ m <= n + 1
      /\ n - m + 1 = NumTokens(r) - Len(input_ids_list[r])
  BY <1>2, <1>3 DEF already_folded
<1>5. new_tokens(r) = SubSeq(generated_tokens[r], m, n)
  BY DEF new_tokens
<1> HIDE DEF m
<1>6. Len(SubSeq(generated_tokens[r], m, n)) = n - m + 1
  <2>1. CASE m <= n
    BY <1>1, <1>4, <2>1, SubSeqProperties
  <2>2. CASE m > n
    <3>1. SubSeq(generated_tokens[r], m, n) = << >>
      BY <1>1, <1>4, <2>2, EmptySeq
    <3> QED BY <1>4, <2>2, <3>1
  <2> QED BY <1>4, <2>1, <2>2
<1>7. new_tokens(r) \in Seq(Token)
  BY FoldedInput
<1>8. Len(input_ids_list[r] \o new_tokens(r)) = Len(input_ids_list[r]) + Len(new_tokens(r))
  BY <1>1, <1>7, ConcatProperties
<1>9. Len(new_tokens(r)) = NumTokens(r) - Len(input_ids_list[r])
  BY <1>4, <1>5, <1>6
<1>10. NumTokens(r) \in Nat
  BY <1>2
<1> QED BY <1>2, <1>8, <1>9, <1>10

\* Every step keeps the progress of every request.
LEMMA ProgressStep == CInv /\ [Next]_vars => Progress'
<1> SUFFICES ASSUME CInv, [Next]_vars PROVE Progress'
  OBVIOUS
<1>0. /\ IInv /\ TypeOK /\ InputKept /\ WaitingOnce /\ RunningOnce /\ TodoKept /\ Batches
      /\ Progress /\ Covered /\ OnePrefill /\ Budgeted
  BY DEF CInv, IInv
<1> USE DEF request_vars, output_vars, cache_vars, queue_vars, slot_vars, loop_vars, infer_vars
<1> DEFINE A == ToSet(active_requests)
<1>1. CASE poll_results \/ UNCHANGED vars
  <2>1. UNCHANGED <<status, input_ids_list, generated_tokens, num_computed_tokens,
                    tokens_this_step, block_ids, pc, todo, inflight_batches,
                    current_batch_idx, batch_to_update, row>>
    BY <1>1 DEF poll_results, vars
  <2>2. Unplanned' = Unplanned
    BY <2>1 DEF Unplanned, active_requests
  <2> QED BY <1>0, <2>1, <2>2, ProgressKept
<1>2. ASSUME NEW q \in Requests, submit_request(q) PROVE Progress'
  <2>1. /\ UNCHANGED <<input_ids_list, generated_tokens, num_computed_tokens,
                    tokens_this_step, block_ids, pc, todo, inflight_batches,
                    current_batch_idx, batch_to_update, row>>
        /\ status[q] = "CREATED" /\ status'[q] \in {"PENDING", "FAILED"}
        /\ \A r \in Requests : r # q => status'[r] = status[r]
    BY <1>0, <1>2 DEF submit_request, TypeOK
  <2>2. Unplanned' = Unplanned
    BY <2>1 DEF Unplanned, active_requests
  <2> SUFFICES ASSUME NEW r \in Requests
               PROVE  /\ status'[r] \in {"CREATED", "PENDING"} => Fresh(r)'
                      /\ status'[r] = "RUNNING" /\ pc' # "dead" =>
                           IF r \in Unplanned' THEN Ready(r)' ELSE Planned(r)'
    BY DEF Progress
  <2>3. (Fresh(r)' <=> Fresh(r)) /\ (Ready(r)' <=> Ready(r)) /\ (Planned(r)' <=> Planned(r))
    BY <2>1, SameRequest
  <2>4. CASE r = q
    BY <1>0, <2>1, <2>3, <2>4 DEF Progress
  <2>5. CASE r # q
    BY <1>0, <2>1, <2>2, <2>3, <2>5 DEF Progress
  <2> QED BY <2>4, <2>5
<1>3. CASE ScheduleBegin
  <2>1. /\ UNCHANGED <<status, input_ids_list, generated_tokens, num_computed_tokens,
                       tokens_this_step, block_ids>>
        /\ pc = "schedule" /\ pc' = "plan" /\ todo' = active_requests
        /\ active_requests' = active_requests
    BY <1>3 DEF ScheduleBegin, active_requests
  <2>2. Unplanned' = Unplanned
    BY <2>1 DEF Unplanned
  <2> QED BY <1>0, <2>1, <2>2, ProgressKept
<1>4. CASE SkipPreempted
  <2>1. /\ UNCHANGED <<status, input_ids_list, generated_tokens, num_computed_tokens,
                       tokens_this_step, block_ids>>
        /\ pc = "plan" /\ pc' = "plan" /\ todo # << >> /\ todo' = Tail(todo)
        /\ active_requests' = active_requests /\ Head(todo) \notin A
    BY <1>4 DEF SkipPreempted, active_requests
  <2>2. ToSet(Tail(todo)) = ToSet(todo) \ {Head(todo)}
    BY <1>0, <2>1, TodoFacts
  <2>3. Unplanned' = Unplanned
    BY <2>1, <2>2 DEF Unplanned
  <2> QED BY <1>0, <2>1, <2>3, ProgressKept
<1>5. CASE PlanActive
  <2>h. PICK h : h = Head(todo)
    OBVIOUS
  <2>1. /\ pc = "plan" /\ pc' = "extend" /\ todo # << >> /\ todo' = todo
        /\ h \in Requests /\ h \in A
        /\ budget' = budget /\ held' = held /\ status' = status
        /\ tokens_this_step'[h] = planned_tokens(h, budget)
        /\ num_computed_tokens'[h] = next_num_comp(h, budget)
        /\ \A q \in Requests : q # h =>
             /\ tokens_this_step'[q] = tokens_this_step[q]
             /\ num_computed_tokens'[q] = num_computed_tokens[q]
        /\ input_ids_list' = input_ids_list /\ generated_tokens' = generated_tokens
        /\ block_ids' = block_ids
        /\ active_requests' = active_requests
    BY <1>0, <1>5, <2>h, PlanEffect
  <2>2. /\ h \in ToSet(todo) /\ ToSet(Tail(todo)) = ToSet(todo) \ {h}
        /\ Cardinality(ToSet(todo)) = Cardinality(ToSet(Tail(todo))) + 1
        /\ Cardinality(ToSet(Tail(todo))) \in Nat
    BY <1>0, <2>h, <2>1, TodoFacts
  <2>3. status[h] = "RUNNING"
    BY <1>0, <2>1, Basics
  <2>4. Unplanned = A \cap ToSet(todo) /\ Unplanned' = A \cap (ToSet(todo) \ {h})
    BY <2>h, <2>1, <2>2 DEF Unplanned
  <2>5. Ready(h) /\ Len(input_ids_list[h]) >= 1
    BY <1>0, <2>1, <2>2, <2>3, <2>4, ActivePlanned DEF Progress
  <2>6. budget \in Int /\ budget >= 1
    <3>1. budget \in Int /\ budget >= Cardinality(ToSet(todo))
      BY <1>0, <2>1 DEF Budgeted, Planning, TypeOK
    <3> QED BY <2>2, <3>1
  <2>7. EnableChunkedPrefill \/ ~prefilling(h)
    BY <1>0, <2>1, <2>3 DEF OnePrefill
  <2>8. Planned(h)'
    BY <1>0, <2>1, <2>5, <2>6, <2>7, PlannedAfter
  <2> SUFFICES ASSUME NEW r \in Requests
               PROVE  /\ status'[r] \in {"CREATED", "PENDING"} => Fresh(r)'
                      /\ status'[r] = "RUNNING" /\ pc' # "dead" =>
                           IF r \in Unplanned' THEN Ready(r)' ELSE Planned(r)'
    BY DEF Progress
  <2>9. CASE r = h
    BY <2>1, <2>3, <2>4, <2>8, <2>9
  <2>10. CASE r # h
    <3>1. (Fresh(r)' <=> Fresh(r)) /\ (Ready(r)' <=> Ready(r)) /\ (Planned(r)' <=> Planned(r))
      BY <2>1, <2>10, SameRequest
    <3>2. r \in Unplanned' <=> r \in Unplanned
      BY <2>4, <2>10
    <3> QED BY <1>0, <2>1, <3>1, <3>2 DEF Progress
  <2> QED BY <2>9, <2>10
<1>6. CASE ExtendActive \/ RetryExtend
  <2>1. /\ pc \in {"extend", "retry"} /\ pc' = "plan" /\ todo' = Tail(todo)
        /\ UNCHANGED <<status, input_ids_list, generated_tokens, num_computed_tokens,
                       tokens_this_step>>
        /\ active_requests' = active_requests
        /\ block_ids' = block_ids \/ Extend(Head(todo))
    BY <1>6 DEF ExtendActive, RetryExtend, Extend, active_requests
  <2>2. Unplanned' = Unplanned
    BY <2>1 DEF Unplanned
  <2>3. CASE block_ids' = block_ids
    BY <1>0, <2>1, <2>2, <2>3, ProgressKept
  <2>4. CASE Extend(Head(todo))
    <3> DEFINE h == Head(todo)
    <3>1. /\ h \in Requests /\ h \in A
          /\ \A q \in Requests : q # h => block_ids'[q] = block_ids[q]
      BY <1>0, <2>1, <2>4, ExtendEffect
    <3>2. status[h] = "RUNNING"
      BY <1>0, <3>1, Basics
    <3> HIDE DEF h
    <3> SUFFICES ASSUME NEW r \in Requests
                 PROVE  /\ status'[r] \in {"CREATED", "PENDING"} => Fresh(r)'
                        /\ status'[r] = "RUNNING" /\ pc' # "dead" =>
                             IF r \in Unplanned' THEN Ready(r)' ELSE Planned(r)'
      BY DEF Progress
    <3>3. (Ready(r)' <=> Ready(r)) /\ (Planned(r)' <=> Planned(r))
      BY <2>1 DEF Ready, Planned, NumTokens
    <3>4. r # h => (Fresh(r)' <=> Fresh(r))
      BY <2>1, <3>1 DEF Fresh, NumTokens
    <3> QED BY <1>0, <2>1, <2>2, <3>2, <3>3, <3>4 DEF Progress
  <2> QED BY <2>1, <2>3, <2>4
<1>7. CASE PreemptVictim
  <2>1. PICK i \in DOMAIN active_requests :
         LET v == active_requests[i]
         IN    /\ v \in Requests /\ status[v] = "RUNNING" /\ v \in A
               /\ pc = "extend" /\ pc' = "put_victim" /\ todo' = todo /\ budget' = budget
               /\ held' = <<v>> /\ status'[v] = "PENDING"
               /\ num_computed_tokens'[v] = 0 /\ block_ids'[v] = << >>
               /\ input_ids_list'[v] = input_ids_list[v] \o new_tokens(v)
               /\ \A q \in Requests : q # v =>
                    /\ status'[q] = status[q] /\ block_ids'[q] = block_ids[q]
                    /\ tokens_this_step'[q] = tokens_this_step[q]
                    /\ num_computed_tokens'[q] = num_computed_tokens[q]
                    /\ input_ids_list'[q] = input_ids_list[q]
               /\ generated_tokens' = generated_tokens
               /\ ToSet(active_requests') = A \ {v}
    BY <1>0, <1>7, PreemptEffect
  <2>v. PICK v : v = active_requests[i]
    OBVIOUS
  <2>2. /\ v \in Requests /\ status[v] = "RUNNING"
        /\ pc = "extend" /\ pc' = "put_victim" /\ todo' = todo
        /\ status'[v] = "PENDING" /\ num_computed_tokens'[v] = 0 /\ block_ids'[v] = << >>
        /\ input_ids_list'[v] = input_ids_list[v] \o new_tokens(v)
        /\ \A q \in Requests : q # v =>
             /\ status'[q] = status[q] /\ block_ids'[q] = block_ids[q]
             /\ tokens_this_step'[q] = tokens_this_step[q]
             /\ num_computed_tokens'[q] = num_computed_tokens[q]
             /\ input_ids_list'[q] = input_ids_list[q]
        /\ generated_tokens' = generated_tokens
        /\ ToSet(active_requests') = A \ {v}
    BY <2>1, <2>v
  <2>3. Len(input_ids_list'[v]) = NumTokens(v)
    BY <1>0, <2>2, ActivePlanned, FoldedLength
  <2>4. Fresh(v)'
    BY <2>2, <2>3 DEF Fresh, NumTokens
  <2>5. Unplanned' = Unplanned \ {v}
    BY <2>2 DEF Unplanned
  <2> SUFFICES ASSUME NEW r \in Requests
               PROVE  /\ status'[r] \in {"CREATED", "PENDING"} => Fresh(r)'
                      /\ status'[r] = "RUNNING" /\ pc' # "dead" =>
                           IF r \in Unplanned' THEN Ready(r)' ELSE Planned(r)'
    BY DEF Progress
  <2>6. CASE r = v
    BY <2>2, <2>4, <2>6
  <2>7. CASE r # v
    <3>1. (Fresh(r)' <=> Fresh(r)) /\ (Ready(r)' <=> Ready(r)) /\ (Planned(r)' <=> Planned(r))
      BY <2>2, <2>7, SameRequest
    <3>2. r \in Unplanned' <=> r \in Unplanned
      BY <2>5, <2>7
    <3> QED BY <1>0, <2>2, <2>7, <3>1, <3>2 DEF Progress
  <2> QED BY <2>6, <2>7
<1>8. CASE PutVictim
  <2>1. /\ UNCHANGED <<status, input_ids_list, generated_tokens, num_computed_tokens,
                       tokens_this_step, block_ids>>
        /\ active_requests' = active_requests /\ pc = "put_victim"
        /\ \/ pc' = "plan" /\ todo' = Tail(todo)
           \/ pc' = "retry" /\ todo' = todo
    BY <1>8 DEF PutVictim, active_requests
  <2>2. Unplanned' = Unplanned
    BY <2>1 DEF Unplanned
  <2> QED BY <1>0, <2>1, <2>2, ProgressKept
<1>9. CASE PlanDone \/ RejectHead \/ Requeue
  <2>1. /\ UNCHANGED <<status, input_ids_list, generated_tokens, num_computed_tokens,
                       tokens_this_step, block_ids>>
        /\ pc' \in {"admit", "requeue", "dispatch"}
        /\ pc \in {"plan", "admit", "requeue"}
        /\ pc = "plan" => todo = << >>
    <3>1. CASE PlanDone
      BY <3>1 DEF PlanDone
    <3>2. CASE RejectHead
      BY <3>2 DEF RejectHead, Admitting
    <3>3. CASE Requeue
      BY <3>3 DEF Requeue
    <3> QED BY <1>9, <3>1, <3>2, <3>3
  <2>2. ToSet(<< >>) = {}
    BY DEF ToSet
  <2>3. Unplanned' = {} /\ Unplanned = {}
    BY <2>1, <2>2 DEF Unplanned
  <2> QED BY <1>0, <2>1, <2>3, ProgressKept
<1>10. CASE AdmitRequest
  <2>h. PICK h : h = Head(request_queue)
    OBVIOUS
  <2>1. /\ h \in Requests /\ status[h] = "PENDING"
        /\ pc = "admit" /\ pc' = "admit" /\ budget > 0
        /\ tokens_this_step'[h] = planned_tokens(h, budget)
        /\ num_computed_tokens'[h] = next_num_comp(h, budget)
        /\ input_ids_list' = input_ids_list /\ generated_tokens' = generated_tokens
        /\ status'[h] = "RUNNING"
        /\ \A q \in Requests : q # h =>
             /\ status'[q] = status[q] /\ block_ids'[q] = block_ids[q]
             /\ tokens_this_step'[q] = tokens_this_step[q]
             /\ num_computed_tokens'[q] = num_computed_tokens[q]
    BY <1>0, <1>10, <2>h, AdmitEffect
  <2>2. Unplanned' = {} /\ Unplanned = {}
    BY <2>1 DEF Unplanned
  <2>3. Fresh(h)
    BY <1>0, <2>1 DEF Progress
  <2>4. Len(input_ids_list[h]) >= 1
    <3>1. /\ Len(input_ids_list[h]) \in Nat /\ PromptLen[h] \in Nat /\ PromptLen[h] >= 1
          /\ Len(input_ids_list[h]) >= PromptLen[h]
      BY <1>0, <2>1, Numbers DEF InputKept
    <3> QED BY <3>1
  <2>5. budget \in Int /\ budget >= 1 /\ num_computed_tokens[h] = 0
    BY <1>0, <2>1, <2>3 DEF TypeOK, Fresh
  <2>6. Planned(h)'
    BY <1>0, <2>1, <2>3, <2>4, <2>5, PlannedAfter
  <2> SUFFICES ASSUME NEW r \in Requests
               PROVE  /\ status'[r] \in {"CREATED", "PENDING"} => Fresh(r)'
                      /\ status'[r] = "RUNNING" /\ pc' # "dead" =>
                           IF r \in Unplanned' THEN Ready(r)' ELSE Planned(r)'
    BY DEF Progress
  <2>7. CASE r = h
    BY <2>1, <2>2, <2>6, <2>7
  <2>8. CASE r # h
    <3>1. (Fresh(r)' <=> Fresh(r)) /\ (Ready(r)' <=> Ready(r)) /\ (Planned(r)' <=> Planned(r))
      BY <2>1, <2>8, SameRequest
    <3> QED BY <1>0, <2>1, <2>2, <2>8, <3>1 DEF Progress
  <2> QED BY <2>7, <2>8
<1>11. CASE Dispatch
  <2>1. /\ UNCHANGED <<status, input_ids_list, generated_tokens, num_computed_tokens,
                       tokens_this_step, block_ids, inflight_batches>>
        /\ pc \in {"admit", "dispatch"} /\ current_batch_idx' = next_batch_idx
        /\ batch_to_update' = get_snapshot(inflight_batches[next_batch_idx])
        /\ pc' \in {"infer", "schedule"}
        /\ pc' = "schedule" => batch_to_update' = << >>
    BY <1>11 DEF Dispatch
  <2>2. next_batch_idx \in Slots
    <3>1. current_batch_idx \in Slots
      BY <1>0, Basics
    <3>2. (current_batch_idx + 1) % PPSize \in 0 .. (PPSize - 1)
      BY <3>1, SchedulerAssumption DEF Slots
    <3> QED BY <3>2 DEF next_batch_idx, Slots
  <2>3. active_requests' = batch_to_update'
    BY <1>0, <2>1, <2>2, SnapshotIsSlot DEF active_requests
  <2>4. Unplanned' = {} /\ Unplanned = {}
    BY <2>1, <2>3 DEF Unplanned, ToSet
  <2> QED BY <1>0, <2>1, <2>4, ProgressKept
<1>12. CASE Infer
  <2>1. /\ UNCHANGED <<status, input_ids_list, generated_tokens, num_computed_tokens,
                       tokens_this_step, block_ids, inflight_batches, current_batch_idx>>
        /\ pc = "infer" /\ pc' \in {"update", "schedule"} /\ row' = 1
        /\ pc' = "schedule" => batch_to_update = << >>
        /\ batch_to_update' = batch_to_update
    BY <1>12 DEF Infer
  <2>2. batch_to_update = active_requests /\ active_requests' = active_requests
    BY <1>0, <2>1 DEF Batches, active_requests
  <2>3. /\ \A i \in DOMAIN active_requests : i >= 1
        /\ \A r : r \in A <=> \E i \in DOMAIN active_requests : active_requests[i] = r
    <3>1. active_requests \in Seq(Requests)
      BY <1>0, Basics
    <3> QED BY <3>1, ToSetFacts
  <2>4. Unplanned = {}
    BY <2>1 DEF Unplanned
  <2>5. Unplanned' = {}
    <3>1. CASE pc' = "update"
      <4>1. Unplanned' = {r \in A : \A i \in DOMAIN active_requests :
                                      i >= 1 => active_requests[i] # r}
        BY <2>1, <2>2, <3>1 DEF Unplanned
      <4> QED BY <2>3, <4>1
    <3>2. CASE pc' = "schedule"
      BY <2>1, <2>2, <3>2 DEF Unplanned, ToSet
    <3> QED BY <2>1, <3>1, <3>2
  <2> QED BY <1>0, <2>1, <2>4, <2>5, ProgressKept
<1>13. CASE UpdateRaise
  <2>1. /\ UNCHANGED <<status, input_ids_list, generated_tokens, num_computed_tokens,
                       tokens_this_step, block_ids>>
        /\ pc' = "dead"
    BY <1>13 DEF UpdateRaise
  <2> QED BY <1>0, <2>1, ProgressKept
<1>14. CASE UpdateDone
  <2>1. /\ UNCHANGED <<status, input_ids_list, generated_tokens, num_computed_tokens,
                       tokens_this_step, block_ids, inflight_batches, current_batch_idx>>
        /\ pc = "update" /\ pc' = "schedule" /\ row > rows
    BY <1>14 DEF UpdateDone
  <2>2. /\ row \in Nat /\ batch_to_update \in Seq(Requests)
        /\ infer_result.token_ids \in Seq(Token)
    BY <1>0 DEF TypeOK, InferencerOutput
  <2>3. Len(batch_to_update) \in Int /\ Len(infer_result.token_ids) \in Int
    BY <2>2
  <2>4. rows \in Int /\ rows >= Len(batch_to_update)
    BY <2>3, MaxPair DEF rows
  <2>5. \A i \in DOMAIN batch_to_update : ~(i >= row)
    BY <2>1, <2>2, <2>4
  <2>6. Unplanned = A /\ Unplanned' = A
    BY <2>1, <2>5 DEF Unplanned, active_requests
  <2> QED BY <1>0, <2>1, <2>6, ProgressKept
<1>15. CASE UpdateSkip \/ UpdateContinue
  <2>c. PICK c : c = current
    OBVIOUS
  <2>1. /\ UNCHANGED <<status, input_ids_list, num_computed_tokens,
                       tokens_this_step, block_ids, inflight_batches, current_batch_idx>>
        /\ pc = "update" /\ pc' = "update" /\ row' = row + 1
        /\ batch_to_update' = batch_to_update /\ active_requests' = active_requests
        /\ row \in DOMAIN batch_to_update
    BY <1>15 DEF UpdateSkip, UpdateContinue, TakesToken, row_raises, active_requests
  <2>2. c \in A
    <3>1. row \in Nat
      BY <1>0 DEF TypeOK
    <3> QED BY <1>0, <2>c, <2>1, <3>1 DEF Batches, current
  <2>3. c \in Requests /\ status[c] = "RUNNING"
    BY <1>0, <2>2, Basics
  <2>4. Unplanned' = Unplanned \cup {c} /\ c \notin Unplanned
    <3>1. row \in Nat /\ batch_to_update \in Seq(Requests)
      BY <1>0 DEF TypeOK
    <3>2. \A i \in DOMAIN batch_to_update : i \in Nat
      BY <3>1
    <3>3. /\ Unplanned = {r \in A : \A i \in DOMAIN batch_to_update :
                                      i >= row => batch_to_update[i] # r}
          /\ Unplanned' = {r \in A : \A i \in DOMAIN batch_to_update :
                                      i >= row + 1 => batch_to_update[i] # r}
      BY <2>1 DEF Unplanned
    <3>4. c = batch_to_update[row] /\ NoRepeat(batch_to_update)
      BY <1>0, <2>c, <2>1 DEF current, Batches
    <3>5. \A i \in DOMAIN batch_to_update :
            /\ i >= row <=> i = row \/ i >= row + 1
            /\ i >= row + 1 => i # row
      BY <3>1, <3>2
        <3> QED BY <2>1, <2>2, <3>3, <3>4, <3>5 DEF NoRepeat
  <2>5. /\ num_computed_tokens[c] \in Int /\ tokens_this_step[c] \in Int
        /\ Len(input_ids_list[c]) \in Nat /\ Len(generated_tokens[c]) \in Nat
        /\ NumTokens(c) \in Nat /\ PromptLen[c] \in Nat
    BY <1>0, <2>3, Numbers
  <2>6. Planned(c)
    BY <1>0, <2>1, <2>3, <2>4 DEF Progress
  <2>7. CASE UpdateSkip
    <3>1. prefilling(c) /\ generated_tokens' = generated_tokens
      BY <2>c, <2>3, <2>7 DEF UpdateSkip, is_finished
    <3>2. Ready(c)
      <4>1. num_computed_tokens[c] < Len(input_ids_list[c])
        BY <3>1 DEF prefilling
        <4>2. num_computed_tokens[c] >= 0 /\ Len(input_ids_list[c]) = NumTokens(c)
        BY <2>5, <2>6, <4>1 DEF Planned
      <4> QED BY <4>1, <4>2 DEF Ready
        <3> SUFFICES ASSUME NEW r \in Requests
                 PROVE  /\ status'[r] \in {"CREATED", "PENDING"} => Fresh(r)'
                        /\ status'[r] = "RUNNING" /\ pc' # "dead" =>
                             IF r \in Unplanned' THEN Ready(r)' ELSE Planned(r)'
      BY DEF Progress
    <3>3. (Fresh(r)' <=> Fresh(r)) /\ (Ready(r)' <=> Ready(r)) /\ (Planned(r)' <=> Planned(r))
      BY <2>1, <3>1, SameRequest
    <3> QED BY <1>0, <2>1, <2>4, <3>2, <3>3 DEF Progress
  <2>8. CASE UpdateContinue
    <3>1. /\ ~prefilling(c)
          /\ generated_tokens' =
               [generated_tokens EXCEPT ![c] = Append(@, infer_result.token_ids[row])]
      BY <2>c, <2>1, <2>8 DEF UpdateContinue, TakesToken, process_generated_token
        <3>2. /\ \A r \in Requests : r # c => generated_tokens'[r] = generated_tokens[r]
          /\ generated_tokens'[c] = Append(generated_tokens[c], infer_result.token_ids[row])
      BY <1>0, <2>3, <3>1 DEF TypeOK
    <3>3. Len(generated_tokens'[c]) = Len(generated_tokens[c]) + 1
      <4>1. infer_result.token_ids[row] \in Token
        <5>1. infer_result.token_ids \in Seq(Token) /\ row \in DOMAIN infer_result.token_ids
          BY <1>0, <2>8 DEF TypeOK, InferencerOutput, UpdateContinue, row_raises
        <5> QED BY <5>1
      <4>2. generated_tokens[c] \in Seq(Token)
        BY <1>0, <2>3 DEF TypeOK
      <4> QED BY <3>2, <4>1, <4>2, AppendProperties
    <3>4. num_computed_tokens[c] = NumTokens(c)
          /\ Len(input_ids_list[c]) <= num_computed_tokens[c]
      <4>1. ~(num_computed_tokens[c] < Len(input_ids_list[c]))
        BY <3>1 DEF prefilling
      <4> QED BY <2>5, <2>6, <4>1 DEF Planned
    <3>5. NumTokens(c)' = NumTokens(c) + 1
      BY <2>5, <3>3 DEF NumTokens
    <3>6. Ready(c)'
      BY <2>1, <2>5, <3>4, <3>5 DEF Ready
    <3> SUFFICES ASSUME NEW r \in Requests
                 PROVE  /\ status'[r] \in {"CREATED", "PENDING"} => Fresh(r)'
                        /\ status'[r] = "RUNNING" /\ pc' # "dead" =>
                             IF r \in Unplanned' THEN Ready(r)' ELSE Planned(r)'
      BY DEF Progress
    <3>7. CASE r = c
      BY <2>1, <2>3, <2>4, <3>6, <3>7
    <3>8. CASE r # c
      <4>1. (Fresh(r)' <=> Fresh(r)) /\ (Ready(r)' <=> Ready(r)) /\ (Planned(r)' <=> Planned(r))
        BY <2>1, <3>2, <3>8, SameRequest
      <4> QED BY <1>0, <2>1, <2>4, <3>8, <4>1 DEF Progress
    <3> QED BY <3>7, <3>8
  <2> QED BY <1>15, <2>7, <2>8
<1>16. CASE UpdateFinish
  <2>c. PICK c : c = current
    OBVIOUS
  <2>1. /\ pc = "update" /\ pc' = "update" /\ row' = row + 1
        /\ row \in DOMAIN batch_to_update /\ batch_to_update' = batch_to_update
        /\ c \in Requests /\ status'[c] = "FINISHED"
        /\ \A q \in Requests : q # c =>
             /\ status'[q] = status[q] /\ block_ids'[q] = block_ids[q]
             /\ generated_tokens'[q] = generated_tokens[q]
        /\ tokens_this_step' = tokens_this_step
        /\ num_computed_tokens' = num_computed_tokens
        /\ input_ids_list' = input_ids_list
        /\ ToSet(active_requests') = A \ {c}
    BY <1>0, <1>16, <2>c, FinishEffect
  <2>2. \A r \in Requests : r # c => (r \in Unplanned' <=> r \in Unplanned)
    <3>1. row \in Nat /\ batch_to_update \in Seq(Requests)
      BY <1>0 DEF TypeOK
    <3>2. \A i \in DOMAIN batch_to_update : i \in Nat
      BY <3>1
    <3>3. /\ Unplanned = {r \in A : \A i \in DOMAIN batch_to_update :
                                      i >= row => batch_to_update[i] # r}
          /\ Unplanned' = {r \in A \ {c} : \A i \in DOMAIN batch_to_update :
                                      i >= row + 1 => batch_to_update[i] # r}
      BY <2>1 DEF Unplanned
    <3>4. c = batch_to_update[row]
      BY <2>c DEF current
    <3>5. \A i \in DOMAIN batch_to_update : i >= row <=> i = row \/ i >= row + 1
      BY <3>1, <3>2
    <3> QED BY <2>1, <3>3, <3>4, <3>5
  <2> SUFFICES ASSUME NEW r \in Requests
               PROVE  /\ status'[r] \in {"CREATED", "PENDING"} => Fresh(r)'
                      /\ status'[r] = "RUNNING" /\ pc' # "dead" =>
                           IF r \in Unplanned' THEN Ready(r)' ELSE Planned(r)'
    BY DEF Progress
  <2>3. CASE r = c
    BY <2>1, <2>3
  <2>4. CASE r # c
    <3>1. (Fresh(r)' <=> Fresh(r)) /\ (Ready(r)' <=> Ready(r)) /\ (Planned(r)' <=> Planned(r))
      BY <2>1, <2>4, SameRequest
    <3> QED BY <1>0, <2>1, <2>2, <2>4, <3>1 DEF Progress
  <2> QED BY <2>3, <2>4
<1> QED BY <1>1, <1>2, <1>3, <1>4, <1>5, <1>6, <1>7, <1>8, <1>9, <1>10, <1>11, <1>12,
          <1>13, <1>14, <1>15, <1>16 DEF Next, GenerationLoop

-----------------------------------------------------------------------------
(* Blocks. *)

\* A step that changes neither the counters nor the tables keeps the coverage.
LEMMA CoveredKept ==
  ASSUME Covered,
         UNCHANGED <<num_computed_tokens, input_ids_list>>,
         \A r \in Requests : status'[r] = "RUNNING" =>
           status[r] = "RUNNING" /\ block_ids'[r] = block_ids[r],
         pc \notin Visiting, pc' \notin Visiting
  PROVE  Covered'
<1>1. pc' # "retry" /\ pc' # "put_victim"
  BY DEF Visiting
<1> SUFFICES ASSUME NEW r \in Requests, status'[r] = "RUNNING" PROVE BlocksMatch(r)'
  BY <1>1 DEF Covered
<1>2. BlocksMatch(r)
  BY DEF Covered
<1> QED BY <1>2 DEF BlocksMatch

\* The request the planning loop is at lacks at most one block.
LEMMA HeadNeeds ==
  ASSUME IInv, Progress, TodoKept, Covered, pc \in {"extend", "retry"}
  PROVE  LET h == Head(todo)
         IN  /\ h \in Requests /\ status[h] = "RUNNING"
             /\ num_computed_tokens[h] \in Int /\ Len(block_ids[h]) \in Nat
             /\ num_blocks_needed(num_computed_tokens[h]) \in Int
             /\ num_blocks_needed(num_computed_tokens[h]) <= Len(block_ids[h]) + 1
             /\ num_computed_tokens[h] > Len(input_ids_list[h]) =>
                  Len(block_ids[h]) <= num_blocks_needed(num_computed_tokens[h])
             /\ num_computed_tokens[h] <= Len(input_ids_list[h]) =>
                  /\ Len(block_ids[h]) = num_blocks_needed(Len(input_ids_list[h]))
                  /\ num_blocks_needed(num_computed_tokens[h]) <= Len(block_ids[h])
<1>0. TypeOK /\ RunningOnce /\ todo # << >>
  BY DEF IInv, TypeOK
<1> DEFINE h == Head(todo)
<1>1. h \in Requests /\ h \in ToSet(active_requests)
  BY <1>0, TodoFacts DEF TodoKept
<1>2. status[h] = "RUNNING"
  BY <1>0, <1>1, Basics
<1>3. num_computed_tokens[h] \in Int /\ Len(block_ids[h]) \in Nat /\ Len(input_ids_list[h]) \in Nat
  BY <1>0, <1>1, Numbers
<1> HIDE DEF h
<1> DEFINE n == num_computed_tokens[h]
           l == Len(input_ids_list[h])
           b == Len(block_ids[h])
<1>4. /\ num_blocks_needed(n) \in Int /\ num_blocks_needed(l) \in Int
      /\ n - 1 \in Int /\ num_blocks_needed(n - 1) \in Int
  <2>1. n - 1 \in Int /\ l \in Int
    BY <1>3
  <2> QED BY <1>3, <2>1, Division
<1>5. /\ n <= l => num_blocks_needed(n) <= num_blocks_needed(l)
      /\ num_blocks_needed(n) <= num_blocks_needed(n - 1) + 1
      /\ num_blocks_needed(n - 1) <= num_blocks_needed(n)
  <2>1. n \in Int /\ l \in Int /\ n - 1 \in Int /\ n - 1 <= n
    BY <1>3
  <2>2. /\ n <= l => num_blocks_needed(n) <= num_blocks_needed(l)
        /\ num_blocks_needed(n) <= num_blocks_needed(n - 1) + 1
    BY <2>1, BlocksMonotone
  <2>3. num_blocks_needed(n - 1) <= num_blocks_needed(n)
    <3> DEFINE m == n - 1
    <3>1. m \in Int /\ n \in Int /\ m <= n
      BY <2>1
    <3> HIDE DEF m
    <3>2. num_blocks_needed(m) <= num_blocks_needed(n)
      BY <3>1, BlocksMonotone
    <3> QED BY <3>2 DEF m
  <2> QED BY <2>2, <2>3
<1>6. \/ BlocksMatch(h)
      \/ n > l /\ b = num_blocks_needed(n - 1)
  BY <1>1, <1>2 DEF Covered
<1> HIDE DEF n, l, b
<1>7. CASE BlocksMatch(h)
  <2>1. IF n <= l THEN b = num_blocks_needed(l) ELSE b = num_blocks_needed(n)
    BY <1>7 DEF BlocksMatch, n, l, b
  <2>2. /\ num_blocks_needed(n) <= b + 1
        /\ n > l => b <= num_blocks_needed(n)
        /\ n <= l => b = num_blocks_needed(l) /\ num_blocks_needed(n) <= b
    <3>1. n \in Int /\ l \in Int /\ b \in Int
      BY <1>3 DEF n, l, b
    <3> QED BY <1>4, <1>5, <2>1, <3>1
  <2> QED BY <1>1, <1>2, <1>3, <1>4, <2>2 DEF n, l, b, h
<1>8. CASE n > l /\ b = num_blocks_needed(n - 1)
  <2>2. /\ num_blocks_needed(n) <= b + 1
        /\ n > l => b <= num_blocks_needed(n)
        /\ n <= l => b = num_blocks_needed(l) /\ num_blocks_needed(n) <= b
    <3>1. n \in Int /\ l \in Int /\ b \in Int
      BY <1>3 DEF n, l, b
    <3> QED BY <1>4, <1>5, <1>8, <3>1
  <2> QED BY <1>1, <1>2, <1>3, <1>4, <2>2 DEF n, l, b, h
<1> QED BY <1>6, <1>7, <1>8

\* The retry after a preemption finds its block.
LEMMA RetrySucceeds ==
  ASSUME IInv, Progress, TodoKept, Covered, pc = "retry"
  PROVE  extension(Head(todo)) # {}
<1>1. free_blocks_set \subseteq Blocks /\ free_blocks_set # {}
  BY DEF IInv, TypeOK, Covered
<1> DEFINE h == Head(todo)
<1>2. /\ num_computed_tokens[h] \in Int /\ Len(block_ids[h]) \in Nat
      /\ num_blocks_needed(num_computed_tokens[h]) <= Len(block_ids[h]) + 1
  BY HeadNeeds
<1> QED BY <1>1, <1>2, OneBlockIsEnough DEF extension

\* Every step keeps the coverage.
LEMMA CoveredStep == CInv /\ [Next]_vars => Covered'
<1> SUFFICES ASSUME CInv, [Next]_vars PROVE Covered'
  OBVIOUS
<1>0. /\ IInv /\ TypeOK /\ InputKept /\ WaitingOnce /\ RunningOnce /\ TodoKept
      /\ Progress /\ Covered /\ OnePrefill /\ Budgeted /\ BlocksConserved
  BY DEF CInv, IInv
<1> USE DEF request_vars, output_vars, cache_vars, queue_vars, slot_vars, loop_vars, infer_vars
<1>1. CASE poll_results \/ UNCHANGED vars
  <2>1. UNCHANGED <<status, input_ids_list, num_computed_tokens, block_ids, pc, todo, held,
                    free_blocks_set>>
    BY <1>1 DEF poll_results, vars
  <2> QED BY <1>0, <2>1 DEF Covered, BlocksMatch
<1>2. ASSUME NEW q \in Requests, submit_request(q) PROVE Covered'
  <2>1. /\ UNCHANGED <<input_ids_list, num_computed_tokens, block_ids, pc, todo, held,
                    free_blocks_set>>
        /\ \A r \in Requests : status'[r] = "RUNNING" => status[r] = "RUNNING"
    BY <1>0, <1>2 DEF submit_request, TypeOK
  <2> QED BY <1>0, <2>1 DEF Covered, BlocksMatch
<1>3. CASE ScheduleBegin \/ SkipPreempted \/ PlanDone
  <2>1. /\ UNCHANGED <<status, input_ids_list, num_computed_tokens, block_ids>>
        /\ pc \notin Visiting /\ pc' \notin Visiting
    BY <1>3 DEF ScheduleBegin, SkipPreempted, PlanDone, Visiting
  <2> QED BY <1>0, <2>1, CoveredKept
<1>4. CASE PlanActive
  <2>h. PICK h : h = Head(todo)
    OBVIOUS
  <2>1. /\ pc = "plan" /\ pc' = "extend" /\ todo # << >> /\ todo' = todo
        /\ h \in Requests /\ h \in ToSet(active_requests) /\ status' = status
        /\ num_computed_tokens'[h] = next_num_comp(h, budget)
        /\ \A q \in Requests : q # h => num_computed_tokens'[q] = num_computed_tokens[q]
        /\ input_ids_list' = input_ids_list /\ block_ids' = block_ids
    BY <1>0, <1>4, <2>h, PlanEffect
  <2>2. \A r \in Requests : status[r] = "RUNNING" => BlocksMatch(r)
    BY <1>0, <2>1 DEF Covered, Visiting
  <2>3. status[h] = "RUNNING"
    BY <1>0, <2>1, Basics
  <2>4. BlocksMatch(h)' \/
        /\ num_computed_tokens'[h] > Len(input_ids_list'[h])
        /\ Len(block_ids'[h]) = num_blocks_needed(num_computed_tokens'[h] - 1)
    <3> DEFINE n == num_computed_tokens[h]
               l == Len(input_ids_list[h])
               b == Len(block_ids[h])
               t == planned_tokens(h, budget)
               m == next_num_comp(h, budget)
    <3>1. n \in Int /\ l \in Nat /\ b \in Nat /\ budget \in Int
      BY <1>0, <2>1, Numbers DEF TypeOK
    <3>2. /\ t \in Int
          /\ n >= l => m = n + 1
          /\ n < l /\ EnableChunkedPrefill => t <= l - n /\ m = n + t
          /\ n < l /\ ~EnableChunkedPrefill => m = l
      BY <1>0, <2>1, <3>1, PlanNumbers
    <3>3. IF n <= l THEN b = num_blocks_needed(l) ELSE b = num_blocks_needed(n)
      BY <2>1, <2>2, <2>3 DEF BlocksMatch
    <3>4. BlocksMatch(h)' <=>
            IF m <= l THEN b = num_blocks_needed(l) ELSE b = num_blocks_needed(m)
      BY <2>1 DEF BlocksMatch
    <3> HIDE DEF n, l, b, t, m
    <3>5. CASE n >= l
      <4>1. m > l /\ m - 1 = n
        BY <3>1, <3>2, <3>5
      <4>2. b = num_blocks_needed(n)
        <5>1. CASE n = l
          BY <3>1, <3>3, <5>1
        <5>2. CASE n # l
          BY <3>1, <3>3, <3>5, <5>2
        <5> QED BY <5>1, <5>2
      <4> QED BY <2>1, <4>1, <4>2 DEF m, l, b
    <3>6. CASE n < l
      <4>1. m <= l
        BY <3>1, <3>2, <3>6, SchedulerAssumption
      <4>2. b = num_blocks_needed(l)
        BY <3>1, <3>3, <3>6
      <4> QED BY <3>4, <4>1, <4>2
    <3> QED BY <3>1, <3>5, <3>6
  <2>5. ASSUME NEW r \in Requests, status'[r] = "RUNNING", r # h PROVE BlocksMatch(r)'
    BY <2>1, <2>2, <2>5 DEF BlocksMatch
  <2> QED BY <2>h, <2>1, <2>4, <2>5 DEF Covered, Visiting
<1>5. CASE ExtendActive \/ RetryExtend
  <2>1. pc \in {"extend", "retry"} /\ Extend(Head(todo))
    BY <1>0, <1>5, RetrySucceeds DEF ExtendActive, RetryExtend
  <2>h. PICK h : h = Head(todo)
    OBVIOUS
  <2>2. /\ pc' = "plan" /\ h \in Requests /\ status' = status
        /\ num_computed_tokens' = num_computed_tokens
        /\ input_ids_list' = input_ids_list
        /\ \A q \in Requests : q # h => block_ids'[q] = block_ids[q]
        /\ Len(block_ids'[h]) =
             IF num_blocks_needed(num_computed_tokens[h]) > Len(block_ids[h])
             THEN num_blocks_needed(num_computed_tokens[h]) ELSE Len(block_ids[h])
    BY <1>0, <2>1, <2>h, ExtendEffect
  <2>3. /\ num_computed_tokens[h] \in Int /\ Len(block_ids[h]) \in Nat
        /\ num_blocks_needed(num_computed_tokens[h]) \in Int
        /\ num_computed_tokens[h] > Len(input_ids_list[h]) =>
             Len(block_ids[h]) <= num_blocks_needed(num_computed_tokens[h])
        /\ num_computed_tokens[h] <= Len(input_ids_list[h]) =>
             /\ Len(block_ids[h]) = num_blocks_needed(Len(input_ids_list[h]))
             /\ num_blocks_needed(num_computed_tokens[h]) <= Len(block_ids[h])
    BY <1>0, <2>1, <2>h, HeadNeeds
  <2>4. Len(input_ids_list[h]) \in Nat
    BY <1>0, <2>2, Numbers
  <2>5. BlocksMatch(h)'
    <3>1. BlocksMatch(h)' <=>
            IF num_computed_tokens[h] <= Len(input_ids_list[h])
            THEN Len(block_ids'[h]) = num_blocks_needed(Len(input_ids_list[h]))
            ELSE Len(block_ids'[h]) = num_blocks_needed(num_computed_tokens[h])
      BY <2>2 DEF BlocksMatch
    <3>2. CASE num_computed_tokens[h] <= Len(input_ids_list[h])
      BY <2>2, <2>3, <3>1, <3>2
    <3>3. CASE num_computed_tokens[h] > Len(input_ids_list[h])
      <4>1. Len(block_ids'[h]) = num_blocks_needed(num_computed_tokens[h])
        BY <2>2, <2>3, <3>3
      <4> QED BY <2>3, <2>4, <3>1, <3>3, <4>1
    <3> QED BY <2>3, <2>4, <3>2, <3>3
  <2>6. ASSUME NEW r \in Requests, status'[r] = "RUNNING", r # h PROVE BlocksMatch(r)'
    <3>1. BlocksMatch(r)
      BY <1>0, <2>h, <2>2, <2>6 DEF Covered
    <3> QED BY <2>2, <2>6, <3>1 DEF BlocksMatch
  <2> QED BY <2>2, <2>5, <2>6 DEF Covered
<1>6. CASE PreemptVictim
  <2>1. PICK i \in DOMAIN active_requests :
         LET v == active_requests[i]
         IN    /\ v \in Requests /\ status[v] = "RUNNING"
               /\ pc = "extend" /\ pc' = "put_victim" /\ todo' = todo
               /\ held' = <<v>> /\ status'[v] = "PENDING"
               /\ \A q \in Requests : q # v =>
                    /\ status'[q] = status[q] /\ block_ids'[q] = block_ids[q]
                    /\ num_computed_tokens'[q] = num_computed_tokens[q]
                    /\ input_ids_list'[q] = input_ids_list[q]
               /\ free_blocks(block_ids[v])
    BY <1>0, <1>6, PreemptEffect
  <2>v. PICK v : v = active_requests[i]
    OBVIOUS
  <2>2. /\ v \in Requests /\ status[v] = "RUNNING"
        /\ pc = "extend" /\ pc' = "put_victim" /\ todo' = todo
        /\ held' = <<v>> /\ status'[v] = "PENDING"
        /\ \A q \in Requests : q # v =>
             /\ status'[q] = status[q] /\ block_ids'[q] = block_ids[q]
             /\ num_computed_tokens'[q] = num_computed_tokens[q]
             /\ input_ids_list'[q] = input_ids_list[q]
        /\ free_blocks(block_ids[v])
    BY <2>1, <2>v
  <2>3. ASSUME v # Head(todo) PROVE free_blocks_set' # {}
    <3>1. BlocksMatch(v)
      BY <1>0, <2>2, <2>3 DEF Covered
    <3>2. /\ num_computed_tokens[v] \in Int /\ Len(input_ids_list[v]) \in Nat
          /\ Len(block_ids[v]) \in Nat
      BY <1>0, <2>2, Numbers
    <3>3. Len(input_ids_list[v]) >= 1
      BY <1>0, <2>2, ActivePlanned
    <3>4. Len(block_ids[v]) >= 1
      <4>1. CASE num_computed_tokens[v] <= Len(input_ids_list[v])
        <5>1. Len(input_ids_list[v]) \in Int
          BY <3>2
        <5>2. num_blocks_needed(Len(input_ids_list[v])) >= 1
          BY <3>3, <5>1, BlocksMonotone
        <5> QED BY <3>1, <4>1, <5>2 DEF BlocksMatch
      <4>2. CASE ~(num_computed_tokens[v] <= Len(input_ids_list[v]))
        <5>1. num_computed_tokens[v] >= 1
          BY <3>2, <3>3, <4>2
        <5> QED BY <3>1, <3>2, <4>2, <5>1, BlocksMonotone DEF BlocksMatch
      <4> QED BY <4>1, <4>2
    <3>5. block_ids[v] \in Seq(Blocks)
      BY <1>0, <2>2 DEF TypeOK
    <3>6. 1 \in DOMAIN block_ids[v] /\ block_ids[v][1] \in Blocks
      BY <3>4, <3>5
    <3>7. block_ids[v][1] \in allocated_blocks
      BY <1>0, <2>2, <3>6 DEF BlocksConserved, ToSet
    <3> QED BY <2>2, <3>6, <3>7 DEF free_blocks
  <2>4. held'[1] = v
    BY <2>2
  <2>5. ASSUME NEW r \in Requests, status'[r] = "RUNNING"
        PROVE  \/ BlocksMatch(r)'
               \/ /\ r = Head(todo)
                  /\ num_computed_tokens'[r] > Len(input_ids_list'[r])
                  /\ Len(block_ids'[r]) = num_blocks_needed(num_computed_tokens'[r] - 1)
    <3>1. r # v /\ status[r] = "RUNNING"
      BY <2>2, <2>5
    <3>2. \/ BlocksMatch(r)
          \/ /\ r = Head(todo)
             /\ num_computed_tokens[r] > Len(input_ids_list[r])
             /\ Len(block_ids[r]) = num_blocks_needed(num_computed_tokens[r] - 1)
      BY <1>0, <3>1 DEF Covered
    <3>3. BlocksMatch(r)' <=> BlocksMatch(r)
      BY <2>2, <3>1 DEF BlocksMatch
    <3> QED BY <2>2, <3>1, <3>2, <3>3
  <2>6. pc' \in Visiting
    BY <2>2 DEF Visiting
  <2> QED BY <2>2, <2>3, <2>4, <2>5, <2>6 DEF Covered
<1>7. CASE PutVictim
  <2>1. /\ pc = "put_victim" /\ pc' \in {"plan", "retry"}
        /\ UNCHANGED <<status, input_ids_list, num_computed_tokens, block_ids, free_blocks_set>>
        /\ pc' = "plan" => held = <<Head(todo)>>
        /\ pc' = "retry" => held # <<Head(todo)>> /\ todo' = todo
    BY <1>7 DEF PutVictim
  <2>2. held # << >> /\ Len(held) = 1 /\ held \in Seq(Requests) /\ status[held[1]] = "PENDING"
    BY <1>0, <2>1 DEF WaitingOnce, TypeOK
  <2>3. CASE pc' = "plan"
    <3>1. held[1] = Head(todo)
      BY <2>1, <2>3
    <3>2. status[Head(todo)] # "RUNNING"
      BY <2>2, <3>1
    <3> QED BY <1>0, <2>1, <2>3, <3>2 DEF Covered, BlocksMatch
  <2>4. CASE pc' = "retry"
    <3>1. held[1] # Head(todo)
      BY <2>1, <2>2, <2>4
    <3> QED BY <1>0, <2>1, <2>4, <3>1 DEF Covered, BlocksMatch, Visiting
  <2> QED BY <2>1, <2>3, <2>4
<1>8. CASE RejectHead \/ Requeue \/ Dispatch \/ Infer
  <2>1. /\ UNCHANGED <<status, input_ids_list, num_computed_tokens, block_ids>>
        /\ pc \notin Visiting /\ pc' \notin Visiting
    <3>1. CASE RejectHead
      BY <3>1 DEF RejectHead, Admitting, Visiting
    <3>2. CASE Requeue
      BY <3>2 DEF Requeue, Visiting
    <3>3. CASE Dispatch
      BY <3>3 DEF Dispatch, Visiting
    <3>4. CASE Infer
      BY <3>4 DEF Infer, Visiting
    <3> QED BY <1>8, <3>1, <3>2, <3>3, <3>4
  <2> QED BY <1>0, <2>1, CoveredKept
<1>9. CASE UpdateSkip \/ UpdateContinue \/ UpdateRaise \/ UpdateDone
  <2>1. /\ UNCHANGED <<status, input_ids_list, num_computed_tokens, block_ids>>
        /\ pc \notin Visiting /\ pc' \notin Visiting
    BY <1>9 DEF UpdateSkip, UpdateContinue, UpdateRaise, UpdateDone, TakesToken, Visiting
  <2> QED BY <1>0, <2>1, CoveredKept
<1>10. CASE UpdateFinish
  <2>1. /\ pc = "update" /\ pc' = "update"
        /\ current \in Requests /\ status'[current] = "FINISHED"
        /\ \A q \in Requests : q # current =>
              /\ status'[q] = status[q] /\ block_ids'[q] = block_ids[q]
        /\ num_computed_tokens' = num_computed_tokens
        /\ input_ids_list' = input_ids_list
    BY <1>0, <1>10, FinishEffect
  <2>2. pc \notin Visiting /\ pc' \notin Visiting
    BY <2>1 DEF Visiting
  <2>3. \A r \in Requests : status'[r] = "RUNNING" =>
          status[r] = "RUNNING" /\ block_ids'[r] = block_ids[r]
    BY <2>1
  <2> QED BY <1>0, <2>1, <2>2, <2>3, CoveredKept
<1>11. CASE AdmitRequest
  <2>h. PICK h : h = Head(request_queue)
    OBVIOUS
  <2>1. /\ h \in Requests /\ status[h] = "PENDING"
        /\ pc = "admit" /\ pc' = "admit"
        /\ num_computed_tokens'[h] = next_num_comp(h, budget)
        /\ input_ids_list' = input_ids_list
        /\ \A q \in Requests : q # h =>
             /\ status'[q] = status[q] /\ block_ids'[q] = block_ids[q]
             /\ num_computed_tokens'[q] = num_computed_tokens[q]
    BY <1>0, <1>11, <2>h, AdmitEffect
  <2>2. Fresh(h)
    BY <1>0, <2>1 DEF Progress
  <2>3. PICK new \in activation(h) : block_ids' = [block_ids EXCEPT ![h] = @ \o new]
    BY <1>11, <2>h DEF AdmitRequest
  <2>4. /\ num_computed_tokens[h] = 0 /\ Len(input_ids_list[h]) \in Nat
        /\ block_ids[h] = << >> /\ Len(input_ids_list[h]) >= 1 /\ budget \in Int
    <3>1. /\ Len(input_ids_list[h]) \in Nat /\ PromptLen[h] \in Nat /\ PromptLen[h] >= 1
          /\ Len(input_ids_list[h]) >= PromptLen[h]
      BY <1>0, <2>1, Numbers DEF InputKept
    <3> QED BY <1>0, <2>2, <3>1 DEF Fresh, TypeOK
  <2>5. free_blocks_set \subseteq Blocks /\ block_ids \in [Requests -> Seq(Blocks)]
    BY <1>0 DEF TypeOK
  <2> DEFINE l == Len(input_ids_list[h])
  <2>6. num_blocks_needed(l) \in Int /\ num_blocks_needed(l) >= 1 /\ l \in Int
    <3>1. l \in Int /\ l >= 1
      BY <2>4
    <3> HIDE DEF l
    <3> QED BY <3>1, Division, BlocksMonotone
  <2>7. Len(new) = num_blocks_needed(l) /\ new \in Seq(free_blocks_set)
    <3>1. new \in allocate_blocks(l, 0)
      BY <2>3 DEF activation
    <3>2. Len(new) = IF num_blocks_needed(l) > 0 THEN num_blocks_needed(l) - 0 ELSE 0
      <4> HIDE DEF l
      <4> QED BY <2>5, <2>6, <3>1, AllocatedLength
    <3>3. new \in Seq(free_blocks_set)
      <4> HIDE DEF l
      <4> QED BY <2>5, <2>6, <3>1, AllocatedAreFree
    <3> QED BY <2>6, <3>2, <3>3
  <2>8. new \in Seq(Blocks)
    BY <2>5, <2>7, SeqMonotonic
  <2>9. block_ids'[h] = block_ids[h] \o new
    BY <2>1, <2>3, <2>5
  <2>10. block_ids'[h] = new
    BY <2>4, <2>8, <2>9
  <2>11. next_num_comp(h, budget) <= l
    <3>1. /\ planned_tokens(h, budget) \in Int
          /\ EnableChunkedPrefill =>
               /\ planned_tokens(h, budget) <= l - 0
               /\ next_num_comp(h, budget) = 0 + planned_tokens(h, budget)
          /\ ~EnableChunkedPrefill => next_num_comp(h, budget) = l
      BY <1>0, <2>1, <2>4, PlanNumbers
    <3> QED BY <2>6, <3>1, SchedulerAssumption
  <2>12. BlocksMatch(h)'
    BY <2>1, <2>7, <2>10, <2>11 DEF BlocksMatch
  <2>13. ASSUME NEW r \in Requests, status'[r] = "RUNNING", r # h PROVE BlocksMatch(r)'
    <3>1. BlocksMatch(r)
      BY <1>0, <2>1, <2>13 DEF Covered, Visiting
    <3> QED BY <2>1, <2>13, <3>1 DEF BlocksMatch
  <2> QED BY <2>1, <2>12, <2>13 DEF Covered
<1> QED BY <1>1, <1>2, <1>3, <1>4, <1>5, <1>6, <1>7, <1>8, <1>9, <1>10, <1>11
        DEF Next, GenerationLoop

-----------------------------------------------------------------------------
(* The token budget and the number of sequences. *)

\* After pop(i), what was true of all but the last request still is.
LEMMA PopAllButLast ==
  ASSUME NEW S, NEW s \in Seq(S), NEW i \in DOMAIN s, NEW t, t = RemoveAt(s, i),
         NEW j \in DOMAIN t, j < Len(t)
  PROVE  \E k \in DOMAIN s : k < Len(s) /\ k # i /\ t[j] = s[k]
<1> DEFINE k == IF j < i THEN j ELSE j + 1
<1>1. k \in DOMAIN s /\ k # i /\ t[j] = s[k]
  <2>1. \A m \in DOMAIN RemoveAt(s, i) :
              LET n == IF m < i THEN m ELSE m + 1
              IN  n \in DOMAIN s /\ n # i /\ RemoveAt(s, i)[m] = s[n]
    BY RemoveElements
  <2> QED BY <2>1
<1>2. t \in Seq(S) /\ Len(t) = Len(s) - 1
  BY RemoveAtFacts
<1>3. j \in Nat /\ Len(s) \in Nat /\ j < Len(s) - 1
  BY <1>2
<1>4. k < Len(s)
  BY <1>3
<1> QED BY <1>1, <1>4

\* Every step leaves at most the last request of a slot in its prefill.
LEMMA OnePrefillStep == CInv /\ [Next]_vars => OnePrefill'
<1> SUFFICES ASSUME CInv, [Next]_vars PROVE OnePrefill'
  OBVIOUS
<1>0. /\ IInv /\ TypeOK /\ InputKept /\ WaitingOnce /\ RunningOnce /\ TodoKept
      /\ Progress /\ OnePrefill /\ Budgeted
  BY DEF CInv, IInv
<1>a. /\ current_batch_idx \in Slots
      /\ active_requests = inflight_batches[current_batch_idx]
      /\ active_requests \in Seq(Requests)
      /\ \A k \in Slots : \A i \in DOMAIN inflight_batches[k] :
           inflight_batches[k][i] \in Requests
      /\ \A k \in Slots : \A i \in DOMAIN inflight_batches[k] :
           inflight_batches[k][i] \in ToSet(inflight_batches[k])
      /\ \A r \in ToSet(active_requests) : r \in Requests /\ status[r] = "RUNNING"
  <2>1. /\ current_batch_idx \in Slots
        /\ active_requests = inflight_batches[current_batch_idx]
        /\ active_requests \in Seq(Requests)
        /\ \A r \in ToSet(active_requests) : r \in Requests /\ status[r] = "RUNNING"
    BY <1>0, Basics
  <2>2. ASSUME NEW k \in Slots, NEW i \in DOMAIN inflight_batches[k]
        PROVE  /\ inflight_batches[k][i] \in ToSet(inflight_batches[k])
               /\ inflight_batches[k][i] \in Requests
    BY <1>0, Basics
  <2> QED BY <2>1, <2>2
<1>b. todo \in Seq(Requests) /\ \A i \in DOMAIN todo : todo[i] \in Requests
  BY <1>0 DEF TypeOK
<1> USE DEF request_vars, output_vars, cache_vars, queue_vars, slot_vars, loop_vars, infer_vars
<1> DEFINE P1 == \A k \in Slots : \A i \in DOMAIN inflight_batches[k] :
                    i < Len(inflight_batches[k]) => ~prefilling(inflight_batches[k][i])
           P2 == \A i \in DOMAIN todo :
                    i < Len(todo) /\ status[todo[i]] = "RUNNING" => ~prefilling(todo[i])
           P3 == ~EnableChunkedPrefill =>
                    \A r \in Requests : status[r] = "RUNNING" => ~prefilling(r)
           P4 == pc \in Planning \cup {"admit"} =>
                    \A r \in ToSet(active_requests) \ ToSet(todo) : prefilling(r) => budget <= 0
           P5 == pc \in Visiting /\ status[Head(todo)] = "RUNNING" /\ prefilling(Head(todo))
                    => tokens_this_step[Head(todo)] = budget
<1>c. P1 /\ P2 /\ P3 /\ P4 /\ P5
  BY <1>0 DEF OnePrefill
<1>d. ASSUME P1', P2', P3', P4', P5' PROVE OnePrefill'
  BY <1>d DEF OnePrefill
<1>e. ASSUME \A r \in Requests : prefilling(r)' => prefilling(r),
             \A r \in Requests : status'[r] = "RUNNING" => status[r] = "RUNNING",
             inflight_batches' = inflight_batches
      PROVE  P1' /\ P3'
  BY <1>a, <1>c, <1>e
<1>f. ASSUME \A r \in Requests : prefilling(r)' => prefilling(r),
             \A r \in Requests : status'[r] = "RUNNING" => status[r] = "RUNNING",
             todo' = todo
      PROVE  P2'
  BY <1>b, <1>c, <1>f
<1>g. ASSUME todo' = Tail(todo), todo # << >>,
             \A r \in Requests : prefilling(r)' => prefilling(r),
             status' = status
      PROVE  P2'
  <2> SUFFICES ASSUME NEW i \in DOMAIN todo', i < Len(todo'), status'[todo'[i]] = "RUNNING"
               PROVE  ~(num_computed_tokens'[todo'[i]] < Len(input_ids_list'[todo'[i]]))
    BY DEF prefilling
  <2>1. /\ i + 1 \in DOMAIN todo /\ i + 1 < Len(todo) /\ todo'[i] = todo[i + 1]
    BY <1>b, <1>g
  <2>2. ~prefilling(todo[i + 1]) /\ todo[i + 1] \in Requests
    BY <1>b, <1>c, <1>g, <2>1
  <2>3. ~(num_computed_tokens'[todo[i + 1]] < Len(input_ids_list'[todo[i + 1]]))
    BY <1>g, <2>2 DEF prefilling
  <2> QED BY <2>1, <2>3
<1>1. CASE poll_results \/ UNCHANGED vars \/ \E q \in Requests : submit_request(q)
  <2>1. UNCHANGED <<input_ids_list, num_computed_tokens, tokens_this_step, pc, todo, budget,
                    inflight_batches, current_batch_idx>>
    BY <1>1 DEF poll_results, vars, submit_request
  <2>2. \A r \in Requests : status'[r] = "RUNNING" => status[r] = "RUNNING"
    BY <1>0, <1>1 DEF poll_results, vars, submit_request, TypeOK
  <2>3. \A r \in Requests : prefilling(r)' <=> prefilling(r)
    BY <2>1 DEF prefilling
  <2>4. P4'
    BY <1>a, <1>c, <2>1, <2>3 DEF active_requests
  <2>5. P5'
    <3>1. pc \in Visiting => Head(todo) \in Requests
      BY <1>0, TodoFacts DEF TypeOK, Visiting
    <3> QED BY <1>c, <2>1, <2>2, <2>3, <3>1 DEF prefilling
  <2> QED BY <1>d, <1>e, <1>f, <2>1, <2>2, <2>3, <2>4, <2>5
<1>2. CASE \/ RejectHead \/ Requeue \/ Dispatch \/ Infer \/ UpdateSkip \/ UpdateContinue
           \/ UpdateRaise \/ UpdateDone
  <2>1. /\ UNCHANGED <<status, input_ids_list, num_computed_tokens, todo, inflight_batches>>
        /\ pc' \notin Visiting /\ pc' \notin Planning \cup {"admit"}
    <3>1. CASE RejectHead \/ Requeue
      BY <3>1 DEF RejectHead, Requeue, Admitting, Visiting, Planning
    <3>3. CASE Dispatch
      BY <3>3 DEF Dispatch, Visiting, Planning
    <3>4. CASE Infer
      BY <3>4 DEF Infer, Visiting, Planning
    <3>5. CASE UpdateSkip \/ UpdateContinue \/ UpdateRaise \/ UpdateDone
      BY <3>5 DEF UpdateSkip, UpdateContinue, UpdateRaise, UpdateDone, TakesToken, Visiting,
         Planning
    <3> QED BY <1>2, <3>1, <3>3, <3>4, <3>5
  <2>2. \A r \in Requests : prefilling(r)' <=> prefilling(r)
    BY <2>1 DEF prefilling
  <2> QED BY <1>d, <1>e, <1>f, <2>1, <2>2
<1>3. CASE ScheduleBegin
  <2>1. /\ UNCHANGED <<status, input_ids_list, num_computed_tokens, inflight_batches,
                       current_batch_idx>>
        /\ pc' = "plan" /\ todo' = active_requests
    BY <1>3 DEF ScheduleBegin
  <2>2. \A r \in Requests : prefilling(r)' <=> prefilling(r)
    BY <2>1 DEF prefilling
  <2>3. P2'
    <3>1. \A i \in DOMAIN active_requests : i < Len(active_requests) =>
            active_requests[i] \in Requests /\ ~prefilling(active_requests[i])
      BY <1>a, <1>c
    <3>2. \A i \in DOMAIN todo' : i < Len(todo') =>
            ~(num_computed_tokens'[todo'[i]] < Len(input_ids_list'[todo'[i]]))
      BY <2>1, <3>1 DEF prefilling
    <3> QED BY <3>2 DEF prefilling
  <2>4. P4'
    BY <2>1 DEF active_requests
  <2>5. P5'
    BY <2>1 DEF Visiting
  <2> QED BY <1>d, <1>e, <2>1, <2>2, <2>3, <2>4, <2>5
<1>4. CASE SkipPreempted
  <2>1. /\ UNCHANGED <<status, input_ids_list, num_computed_tokens, inflight_batches, budget,
                       current_batch_idx>>
        /\ pc = "plan" /\ pc' = "plan" /\ todo # << >> /\ todo' = Tail(todo)
        /\ Head(todo) \notin ToSet(active_requests)
    BY <1>4 DEF SkipPreempted
  <2>2. \A r \in Requests : prefilling(r)' <=> prefilling(r)
    BY <2>1 DEF prefilling
  <2>3. ToSet(Tail(todo)) = ToSet(todo) \ {Head(todo)}
    BY <1>0, <2>1, TodoFacts
  <2>4. P4'
    BY <1>a, <1>c, <2>1, <2>2, <2>3 DEF active_requests, Planning
  <2>5. P5'
    BY <2>1 DEF Visiting
  <2> QED BY <1>d, <1>e, <1>g, <2>1, <2>2, <2>4, <2>5
<1>5. CASE PlanActive
  <2>h. PICK h : h = Head(todo)
    OBVIOUS
  <2>1. /\ pc = "plan" /\ pc' = "extend" /\ todo # << >> /\ todo' = todo
        /\ h \in Requests /\ h \in ToSet(active_requests)
        /\ budget' = budget /\ status' = status
        /\ tokens_this_step'[h] = planned_tokens(h, budget)
        /\ num_computed_tokens'[h] = next_num_comp(h, budget)
        /\ \A q \in Requests : q # h => num_computed_tokens'[q] = num_computed_tokens[q]
        /\ input_ids_list' = input_ids_list
        /\ active_requests' = active_requests
        /\ UNCHANGED <<inflight_batches, current_batch_idx>>
    BY <1>0, <1>5, <2>h, PlanEffect
  <2> DEFINE n == num_computed_tokens[h]
             l == Len(input_ids_list[h])
             t == planned_tokens(h, budget)
             m == next_num_comp(h, budget)
  <2>2. n \in Int /\ l \in Nat /\ budget \in Int
    BY <1>0, <2>1, Numbers DEF TypeOK
  <2>3. /\ t \in Int
        /\ n >= l => m = n + 1
        /\ n < l /\ EnableChunkedPrefill =>
             t <= l - n /\ m = n + t /\ (t = budget \/ t = l - n)
        /\ n < l /\ ~EnableChunkedPrefill => m = l
    BY <1>0, <2>1, <2>2, PlanNumbers
  <2>4. (prefilling(h)' <=> m < l) /\ (prefilling(h) <=> n < l)
    BY <2>1 DEF prefilling
  <2>5. h \in ToSet(todo)
    BY <1>0, <2>h, <2>1, TodoFacts
  <2> HIDE DEF n, l, t, m
  <2>6. (m < l => n < l) /\ (m < l => t = budget)
    BY <2>2, <2>3, SchedulerAssumption
  <2>7. \A r \in Requests : prefilling(r)' => prefilling(r)
    <3> SUFFICES ASSUME NEW r \in Requests, prefilling(r)' PROVE prefilling(r)
      OBVIOUS
    <3>1. CASE r = h
      BY <2>4, <2>6, <3>1
    <3>2. CASE r # h
      BY <2>1, <3>2 DEF prefilling
    <3> QED BY <3>1, <3>2
  <2>8. P4'
    BY <1>a, <1>c, <2>1, <2>7 DEF Planning
  <2>9. P5'
    <3>1. Head(todo') = h
      BY <2>h, <2>1
    <3>2. prefilling(h)' => tokens_this_step'[h] = budget'
      BY <2>1, <2>4, <2>6 DEF t
    <3> QED BY <3>1, <3>2 DEF prefilling
  <2> QED BY <1>d, <1>e, <1>f, <2>1, <2>7, <2>8, <2>9
<1>6. CASE ExtendActive \/ RetryExtend
  <2>0. pc \in {"extend", "retry"} /\ Extend(Head(todo))
    BY <1>0, <1>6, RetrySucceeds DEF ExtendActive, RetryExtend, CInv
  <2> DEFINE h == Head(todo)
  <2>1. /\ pc' = "plan" /\ todo # << >> /\ todo' = Tail(todo)
        /\ h \in Requests /\ h \in ToSet(active_requests)
        /\ budget' = budget - tokens_this_step[h]
        /\ status' = status
        /\ UNCHANGED <<num_computed_tokens, input_ids_list, inflight_batches>>
        /\ active_requests' = active_requests
    BY <1>0, <2>0, ExtendEffect
  <2>2. \A r \in Requests : prefilling(r)' <=> prefilling(r)
    BY <2>1 DEF prefilling
  <2>3. ToSet(Tail(todo)) = ToSet(todo) \ {h}
    BY <1>0, <2>1, TodoFacts
  <2>4. status[h] = "RUNNING" /\ pc \in Visiting /\ pc \in Planning
    BY <1>a, <2>0, <2>1 DEF Visiting, Planning
  <2>5. prefilling(h) => tokens_this_step[h] = budget
    BY <1>c, <2>4
  <2>6. budget \in Int /\ tokens_this_step[h] \in Int /\ tokens_this_step[h] >= 1
    <3>1. h \notin Unplanned
      BY <2>0, <2>3 DEF Unplanned
    <3>2. Planned(h)
      BY <1>0, <2>0, <2>1, <2>4, <3>1 DEF Progress
    <3> QED BY <1>0, <2>1, <3>2 DEF TypeOK, Planned
  <2> HIDE DEF h
  <2>7. ASSUME NEW r \in ToSet(active_requests') \ ToSet(todo'), prefilling(r)'
        PROVE  budget' <= 0
    <3>1. r = h \/ r \in ToSet(active_requests) \ ToSet(todo)
      BY <2>1, <2>3
    <3>2. r \in Requests /\ prefilling(r)
      BY <1>a, <2>1, <2>2, <2>7
    <3>3. CASE r = h
      <4>1. budget' = budget - budget
        BY <2>1, <2>5, <3>2, <3>3
      <4> QED BY <2>6, <4>1
    <3>4. CASE r \in ToSet(active_requests) \ ToSet(todo)
      <4>1. budget <= 0
        BY <1>c, <2>4, <3>2, <3>4
      <4> QED BY <2>1, <2>6, <4>1
    <3> QED BY <3>1, <3>3, <3>4
  <2>8. P4'
    BY <2>7
  <2>9. P5'
    BY <2>1 DEF Visiting
  <2> QED BY <1>d, <1>e, <1>g, <2>1, <2>2, <2>8, <2>9
<1>7. CASE PreemptVictim
  <2>1. PICK i \in DOMAIN active_requests :
         LET v == active_requests[i]
         IN    /\ v \in Requests /\ status'[v] = "PENDING"
               /\ pc = "extend" /\ pc' = "put_victim" /\ todo' = todo /\ budget' = budget
               /\ \A q \in Requests : q # v =>
                    /\ status'[q] = status[q]
                    /\ tokens_this_step'[q] = tokens_this_step[q]
                    /\ num_computed_tokens'[q] = num_computed_tokens[q]
                    /\ input_ids_list'[q] = input_ids_list[q]
               /\ active_requests' = RemoveAt(active_requests, i)
               /\ ToSet(active_requests') = ToSet(active_requests) \ {v}
               /\ \A k \in Slots : k # current_batch_idx =>
                    /\ inflight_batches'[k] = inflight_batches[k]
                    /\ v \notin ToSet(inflight_batches[k])
               /\ inflight_batches'[current_batch_idx] = active_requests'
    BY <1>0, <1>7, PreemptEffect
  <2>v. PICK v : v = active_requests[i]
    OBVIOUS
  <2>2. /\ v \in Requests /\ status'[v] = "PENDING"
        /\ pc = "extend" /\ pc' = "put_victim" /\ todo' = todo /\ budget' = budget
        /\ \A q \in Requests : q # v =>
             /\ status'[q] = status[q]
             /\ tokens_this_step'[q] = tokens_this_step[q]
             /\ num_computed_tokens'[q] = num_computed_tokens[q]
             /\ input_ids_list'[q] = input_ids_list[q]
        /\ active_requests' = RemoveAt(active_requests, i)
        /\ ToSet(active_requests') = ToSet(active_requests) \ {v}
        /\ \A k \in Slots : k # current_batch_idx =>
             /\ inflight_batches'[k] = inflight_batches[k]
             /\ v \notin ToSet(inflight_batches[k])
        /\ inflight_batches'[current_batch_idx] = active_requests'
    BY <2>1, <2>v
  <2>3. \A r \in Requests : r # v => (prefilling(r)' <=> prefilling(r))
    BY <2>2 DEF prefilling
  <2>4. ASSUME NEW k \in Slots, NEW j \in DOMAIN inflight_batches'[k],
               j < Len(inflight_batches'[k])
        PROVE  ~(num_computed_tokens'[inflight_batches'[k][j]]
                   < Len(input_ids_list'[inflight_batches'[k][j]]))
    <3>1. CASE k # current_batch_idx
      <4>1. /\ inflight_batches'[k] = inflight_batches[k]
            /\ inflight_batches[k][j] # v /\ inflight_batches[k][j] \in Requests
        BY <1>a, <2>2, <2>4, <3>1
      <4>2. ~prefilling(inflight_batches[k][j])
        BY <1>c, <2>4, <4>1
      <4> QED BY <2>2, <4>1, <4>2 DEF prefilling
    <3>2. CASE k = current_batch_idx
      <4> DEFINE t == active_requests'
      <4>1. t = RemoveAt(active_requests, i) /\ j \in DOMAIN t /\ j < Len(t)
            /\ inflight_batches'[k] = t
        BY <2>2, <2>4, <3>2
      <4> HIDE DEF t
      <4>2. PICK m \in DOMAIN active_requests :
              m < Len(active_requests) /\ m # i /\ t[j] = active_requests[m]
        BY <1>a, <4>1, PopAllButLast
      <4>3. active_requests[m] # v /\ active_requests[m] \in Requests
            /\ ~prefilling(active_requests[m])
        <5>1. active_requests[m] # active_requests[i]
          BY <1>0, <1>a, <4>2, Basics DEF NoRepeat
        <5> QED BY <1>a, <1>c, <2>v, <4>2, <5>1
      <4> QED BY <2>2, <4>1, <4>2, <4>3 DEF prefilling
    <3> QED BY <3>1, <3>2
  <2>5. P1'
    BY <2>4 DEF prefilling
  <2>6. P2'
    <3> SUFFICES ASSUME NEW j \in DOMAIN todo, j < Len(todo), status'[todo[j]] = "RUNNING"
                 PROVE  ~(num_computed_tokens'[todo[j]] < Len(input_ids_list'[todo[j]]))
      BY <2>2 DEF prefilling
    <3>1. todo[j] \in Requests /\ todo[j] # v
      BY <1>b, <2>2
    <3>2. ~prefilling(todo[j])
      BY <1>c, <2>2, <3>1
    <3> QED BY <2>2, <3>1, <3>2 DEF prefilling
  <2>7. P3'
    BY <1>c, <2>2, <2>3
  <2>8. P4'
    <3> SUFFICES ASSUME NEW r \in (ToSet(active_requests) \ {v}) \ ToSet(todo), prefilling(r)'
                 PROVE  budget <= 0
      BY <2>2
    <3> QED BY <1>a, <1>c, <2>2, <2>3 DEF Planning
  <2>9. P5'
    <3>h. PICK h : h = Head(todo)
      OBVIOUS
    <3>1. h \in Requests
      BY <1>0, <2>2, <3>h, TodoFacts DEF TypeOK
    <3>2. Head(todo') = h
      BY <2>2, <3>h
    <3>3. status[h] = "RUNNING" /\ prefilling(h) => tokens_this_step[h] = budget
      BY <1>c, <2>2, <3>h DEF Visiting
    <3>4. status'[h] = "RUNNING" /\ prefilling(h)' => tokens_this_step'[h] = budget'
      BY <2>2, <2>3, <3>1, <3>3
    <3> QED BY <3>2, <3>4 DEF prefilling
  <2> QED BY <1>d, <2>5, <2>6, <2>7, <2>8, <2>9
<1>8. CASE PutVictim
  <2>1. /\ pc = "put_victim"
        /\ UNCHANGED <<status, input_ids_list, num_computed_tokens, tokens_this_step, budget,
                       inflight_batches, current_batch_idx>>
        /\ IF held = <<Head(todo)>>
           THEN pc' = "plan" /\ todo' = Tail(todo)
           ELSE pc' = "retry" /\ todo' = todo
    BY <1>8 DEF PutVictim
  <2>2. \A r \in Requests : prefilling(r)' <=> prefilling(r)
    BY <2>1 DEF prefilling
  <2>3. CASE held = <<Head(todo)>>
    <3>1. pc' = "plan" /\ todo' = Tail(todo) /\ todo # << >>
      BY <1>0, <2>1, <2>3 DEF TypeOK
    <3>2. ToSet(Tail(todo)) = ToSet(todo) \ {Head(todo)}
      BY <1>0, <3>1, TodoFacts
    <3>3. Head(todo) \notin ToSet(active_requests)
      <4>1. held # << >> /\ held[1] = Head(todo)
        BY <2>3
      <4>2. status[Head(todo)] = "PENDING"
        BY <1>0, <4>1 DEF WaitingOnce
      <4> QED BY <1>a, <4>2
    <3>4. P4'
      BY <1>a, <1>c, <2>1, <2>2, <3>1, <3>2, <3>3 DEF active_requests, Planning
    <3>5. P5'
      BY <3>1 DEF Visiting
    <3> QED BY <1>d, <1>e, <1>g, <2>1, <2>2, <3>1, <3>4, <3>5
  <2>4. CASE held # <<Head(todo)>>
    <3>1. pc' = "retry" /\ todo' = todo
      BY <2>1, <2>4
    <3>2. P4'
      BY <1>a, <1>c, <2>1, <2>2, <3>1 DEF active_requests, Planning
    <3>3. P5'
      BY <1>c, <2>1, <3>1 DEF Visiting, prefilling
    <3> QED BY <1>d, <1>e, <1>f, <2>1, <2>2, <3>1, <3>2, <3>3
  <2> QED BY <2>3, <2>4
<1>9. CASE PlanDone
  <2>1. /\ UNCHANGED <<status, input_ids_list, num_computed_tokens, todo, budget,
                       inflight_batches, current_batch_idx>>
        /\ pc = "plan" /\ pc' = "admit"
    BY <1>9 DEF PlanDone
  <2>2. \A r \in Requests : prefilling(r)' <=> prefilling(r)
    BY <2>1 DEF prefilling
  <2>3. P4'
    BY <1>a, <1>c, <2>1, <2>2 DEF active_requests, Planning
  <2>4. P5'
    BY <2>1 DEF Visiting
  <2> QED BY <1>d, <1>e, <1>f, <2>1, <2>2, <2>3, <2>4
<1>10. CASE AdmitRequest
  <2>h. PICK h : h = Head(request_queue)
    OBVIOUS
  <2>1. /\ h \in Requests /\ status[h] = "PENDING"
        /\ pc = "admit" /\ pc' = "admit" /\ budget > 0
        /\ todo' = todo /\ current_batch_idx' = current_batch_idx
        /\ budget' = budget - planned_tokens(h, budget)
        /\ num_computed_tokens'[h] = next_num_comp(h, budget)
        /\ input_ids_list' = input_ids_list
        /\ \A q \in Requests : q # h =>
             status'[q] = status[q] /\ num_computed_tokens'[q] = num_computed_tokens[q]
        /\ active_requests' = Append(active_requests, h)
        /\ ToSet(active_requests') = ToSet(active_requests) \cup {h}
        /\ \A k \in Slots : k # current_batch_idx =>
             inflight_batches'[k] = inflight_batches[k]
        /\ inflight_batches'[current_batch_idx] = active_requests'
        /\ \A k \in Slots : h \notin ToSet(inflight_batches[k])
    BY <1>0, <1>10, <2>h, AdmitEffect
  <2>2. Fresh(h)
    BY <1>0, <2>1 DEF Progress
  <2> DEFINE l == Len(input_ids_list[h])
             t == planned_tokens(h, budget)
             m == next_num_comp(h, budget)
  <2>3. num_computed_tokens[h] = 0 /\ l \in Nat /\ budget \in Int /\ l >= 1
    <3>1. /\ l \in Nat /\ PromptLen[h] \in Nat /\ PromptLen[h] >= 1 /\ l >= PromptLen[h]
      BY <1>0, <2>1, Numbers DEF InputKept
    <3> QED BY <1>0, <2>2, <3>1 DEF Fresh, TypeOK
  <2>4. /\ t \in Int
        /\ EnableChunkedPrefill => m = 0 + t /\ (t = budget \/ t = l - 0)
        /\ ~EnableChunkedPrefill => m = l
    <3> DEFINE n == num_computed_tokens[h]
    <3>1. /\ t \in Int
          /\ n < l /\ EnableChunkedPrefill => m = n + t /\ (t = budget \/ t = l - n)
          /\ n < l /\ ~EnableChunkedPrefill => m = l
      BY <1>0, <2>1, <2>3, PlanNumbers
    <3>2. n = 0 /\ n < l
      BY <2>3
    <3> HIDE DEF n, l, m, t
    <3> QED BY <3>1, <3>2
  <2>5. /\ m < l => t = budget /\ budget' = 0
        /\ ~EnableChunkedPrefill => ~(m < l)
    <3> HIDE DEF l, m
    <3> QED BY <2>1, <2>3, <2>4
  <2>6. prefilling(h)' <=> m < l
    BY <2>1 DEF prefilling
  <2> HIDE DEF l, t, m
  <2>7. \A r \in Requests : r # h => (prefilling(r)' <=> prefilling(r))
    BY <2>1 DEF prefilling
  <2>8. todo = << >>
    BY <1>0, <2>1 DEF TodoKept, Planning
  <2>9. \A r \in ToSet(active_requests) : ~prefilling(r)
    <3>1. ToSet(todo) = {}
      BY <2>8 DEF ToSet
    <3>2. ~(budget <= 0)
      BY <2>1, <2>3
    <3> QED BY <1>c, <2>1, <3>1, <3>2
  <2>10. ASSUME NEW k \in Slots, NEW j \in DOMAIN inflight_batches'[k],
                j < Len(inflight_batches'[k])
         PROVE  ~(num_computed_tokens'[inflight_batches'[k][j]]
                    < Len(input_ids_list'[inflight_batches'[k][j]]))
    <3>1. CASE k # current_batch_idx
      <4>1. /\ inflight_batches'[k] = inflight_batches[k]
            /\ inflight_batches[k][j] # h /\ inflight_batches[k][j] \in Requests
        BY <1>a, <2>1, <2>10, <3>1
      <4>2. ~prefilling(inflight_batches[k][j])
        BY <1>c, <2>10, <4>1
      <4> QED BY <2>1, <4>1, <4>2 DEF prefilling
    <3>2. CASE k = current_batch_idx
      <4> DEFINE a == active_requests
      <4>1. j \in DOMAIN Append(a, h) /\ j < Len(Append(a, h))
            /\ inflight_batches'[k] = Append(a, h) /\ a \in Seq(Requests)
        BY <1>a, <2>1, <2>10, <3>2
      <4> HIDE DEF a
      <4>2. j \in DOMAIN a /\ Append(a, h)[j] = a[j]
        BY <2>1, <4>1
      <4>3. a[j] \in ToSet(active_requests)
        BY <1>a, <4>2 DEF a
      <4>4. ~prefilling(a[j]) /\ a[j] # h /\ a[j] \in Requests
        BY <1>a, <2>1, <2>9, <4>3
      <4> QED BY <2>1, <4>1, <4>2, <4>4 DEF prefilling
    <3> QED BY <3>1, <3>2
  <2>11. P1'
    BY <2>10 DEF prefilling
  <2>12. P2'
    BY <2>1, <2>8
  <2>13. P3'
    BY <1>c, <2>1, <2>5, <2>6, <2>7
  <2>14. P4'
    <3> SUFFICES ASSUME NEW r \in ToSet(active_requests) \cup {h}, prefilling(r)'
                 PROVE  budget' <= 0
      BY <2>1
    <3>1. r = h
      BY <1>a, <2>7, <2>9
    <3> QED BY <2>5, <2>6, <3>1
  <2>15. P5'
    BY <2>1 DEF Visiting
  <2> QED BY <1>d, <2>11, <2>12, <2>13, <2>14, <2>15
<1>11. CASE UpdateFinish
  <2>c. PICK c : c = current
    OBVIOUS
  <2>1. /\ pc' = "update" /\ todo' = todo
        /\ c \in Requests
        /\ status'[c] = "FINISHED"
        /\ \A q \in Requests : q # c => status'[q] = status[q]
        /\ num_computed_tokens' = num_computed_tokens
        /\ input_ids_list' = input_ids_list
        /\ \E i \in DOMAIN active_requests :
              active_requests' = RemoveAt(active_requests, i)
        /\ \A k \in Slots : k # current_batch_idx =>
              inflight_batches'[k] = inflight_batches[k]
        /\ inflight_batches'[current_batch_idx] = active_requests'
    BY <1>0, <1>11, <2>c, FinishEffect
  <2>2. \A r \in Requests : prefilling(r)' <=> prefilling(r)
    BY <2>1 DEF prefilling
  <2>3. ASSUME NEW k \in Slots, NEW j \in DOMAIN inflight_batches'[k],
               j < Len(inflight_batches'[k])
        PROVE  ~(num_computed_tokens[inflight_batches'[k][j]]
                   < Len(input_ids_list[inflight_batches'[k][j]]))
    <3>1. CASE k # current_batch_idx
      BY <1>c, <2>1, <2>3, <3>1 DEF prefilling
    <3>2. CASE k = current_batch_idx
      <4> DEFINE t == active_requests'
      <4>0. PICK i \in DOMAIN active_requests : t = RemoveAt(active_requests, i)
        BY <2>1
      <4>1. j \in DOMAIN t /\ j < Len(t) /\ inflight_batches'[k] = t
        BY <2>1, <2>3, <3>2
      <4> HIDE DEF t
      <4>2. PICK m \in DOMAIN active_requests :
              m < Len(active_requests) /\ m # i /\ t[j] = active_requests[m]
        BY <1>a, <4>0, <4>1, PopAllButLast
      <4>3. ~prefilling(active_requests[m])
        BY <1>a, <1>c, <4>2
      <4> QED BY <4>1, <4>2, <4>3 DEF prefilling
    <3> QED BY <3>1, <3>2
  <2>4. P1'
    BY <2>1, <2>3 DEF prefilling
  <2>5. P3'
    BY <1>c, <2>1, <2>2
  <2>6. \A r \in Requests : status'[r] = "RUNNING" => status[r] = "RUNNING"
    BY <2>1
  <2>7. P2'
    BY <1>f, <2>1, <2>2, <2>6
  <2>8. P4' /\ P5'
    BY <2>1 DEF Planning, Visiting
  <2> QED BY <1>d, <2>4, <2>5, <2>7, <2>8
<1> QED BY <1>1, <1>2, <1>3, <1>4, <1>5, <1>6, <1>7, <1>8, <1>9, <1>10, <1>11
        DEF Next, GenerationLoop

\* A finite set has no subset with more elements.
LEMMA SubsetCard ==
  ASSUME NEW S, IsFiniteSet(S), NEW T, T \subseteq S
  PROVE  /\ IsFiniteSet(T) /\ Cardinality(T) \in Nat /\ Cardinality(S) \in Nat
         /\ Cardinality(T) <= Cardinality(S)
<1>1. T \in SUBSET S
  OBVIOUS
<1> QED BY <1>1, FS_Subset, FS_CardinalityType

\* Every step keeps to the token budget.
LEMMA BudgetedStep == CInv /\ [Next]_vars => Budgeted'
<1> SUFFICES ASSUME CInv, [Next]_vars PROVE Budgeted'
  OBVIOUS
<1>0. /\ IInv /\ TypeOK /\ InputKept /\ WaitingOnce /\ RunningOnce /\ TodoKept
      /\ Progress /\ Covered /\ OnePrefill /\ Budgeted
  BY DEF CInv, IInv
<1>a. /\ current_batch_idx \in Slots
      /\ active_requests = inflight_batches[current_batch_idx]
      /\ \A k \in Slots : IsFiniteSet(ToSet(inflight_batches[k]))
      /\ IsFiniteSet(ToSet(active_requests))
      /\ \A r \in ToSet(active_requests) : r \in Requests /\ status[r] = "RUNNING"
  BY <1>0, Basics
<1>b. /\ budget \in Int /\ MaxNumBatchedTokens \in Nat
      /\ \A r \in Requests : tokens_this_step[r] \in Int
  BY <1>0, SchedulerAssumption DEF TypeOK
<1> USE DEF request_vars, output_vars, cache_vars, queue_vars, slot_vars, loop_vars, infer_vars
<1> DEFINE M == MaxNumBatchedTokens
           A == ToSet(active_requests)
           B1 == pc \in Planning => budget >= Cardinality(ToSet(todo))
           B2 == pc \in Visiting /\ status[Head(todo)] = "RUNNING" =>
                   IF Len(todo) > 1 THEN tokens_this_step[Head(todo)] = 1
                   ELSE tokens_this_step[Head(todo)] <= budget
           B3 == pc \in Planning \cup {"admit"} =>
                   /\ budget >= 0
                   /\ budget + Cardinality(ToSet(active_requests) \ ToSet(todo)) <= M
                   /\ budget + Cardinality(Rows(tokens_this_step,
                                                ToSet(active_requests) \ ToSet(todo))) <= M
           B4 == pc \in {"dispatch", "requeue"} =>
                   Cardinality(Rows(tokens_this_step, ToSet(active_requests))) <= M
           B5 == pc = "infer" =>
                   Cardinality(Rows(tokens_this_step, ToSet(batch_to_infer))) <= M
           B6 == \A k \in Slots : Cardinality(ToSet(inflight_batches[k])) <= M
<1>c. B1 /\ B2 /\ B3 /\ B4 /\ B5 /\ B6
  BY <1>0 DEF Budgeted
<1>d. ASSUME B1', B2', B3', B4', B5', B6' PROVE Budgeted'
  BY <1>d DEF Budgeted
<1>e. ASSUME \A k \in Slots : ToSet(inflight_batches'[k]) \subseteq ToSet(inflight_batches[k])
      PROVE  B6'
  <2> SUFFICES ASSUME NEW k \in Slots PROVE Cardinality(ToSet(inflight_batches'[k])) <= M
    OBVIOUS
  <2>1. /\ Cardinality(ToSet(inflight_batches'[k])) \in Nat
        /\ Cardinality(ToSet(inflight_batches[k])) \in Nat
        /\ Cardinality(ToSet(inflight_batches'[k])) <= Cardinality(ToSet(inflight_batches[k]))
    BY <1>a, <1>e, SubsetCard
  <2> QED BY <1>b, <1>c, <2>1
<1>f. ASSUME pc' \notin Planning, pc' \notin Visiting, pc' # "admit",
             pc' \notin {"dispatch", "requeue"}, pc' # "infer"
      PROVE  B1' /\ B2' /\ B3' /\ B4' /\ B5'
  BY <1>f
<1>g. ASSUME NEW R, R \subseteq A \ ToSet(todo), NEW T,
             \A r \in R : T[r] = tokens_this_step[r]
      PROVE  /\ Cardinality(R) \in Nat /\ Cardinality(R) <= Cardinality(A \ ToSet(todo))
             /\ Cardinality(A \ ToSet(todo)) \in Nat
             /\ Cardinality(Rows(T, R)) \in Nat
             /\ Cardinality(Rows(tokens_this_step, A \ ToSet(todo))) \in Nat
             /\ Cardinality(Rows(T, R)) <= Cardinality(Rows(tokens_this_step, A \ ToSet(todo)))
  <2> DEFINE Q == A \ ToSet(todo)
  <2>1. IsFiniteSet(Q) /\ \A r \in Q : tokens_this_step[r] \in Int
    BY <1>a, <1>b, SubsetCard
  <2> HIDE DEF Q
  <2>2. R \subseteq Q
    BY <1>g DEF Q
  <2>3. /\ Cardinality(R) \in Nat /\ Cardinality(R) <= Cardinality(Q)
        /\ Cardinality(Q) \in Nat
    BY <2>1, <2>2, SubsetCard
  <2>4. Rows(T, R) = Rows(tokens_this_step, R)
    BY <1>g, RowsSame
  <2>5. /\ Cardinality(Rows(tokens_this_step, R)) \in Nat
        /\ Cardinality(Rows(tokens_this_step, R)) <= Cardinality(Rows(tokens_this_step, Q))
    BY <2>1, <2>2, RowsSubset
  <2>6. Cardinality(Rows(tokens_this_step, Q)) \in Nat
    BY <2>1, RowsFinite
  <2> QED BY <2>3, <2>4, <2>5, <2>6 DEF Q
<1>h. ASSUME pc \in Planning \cup {"admit"}, budget' = budget,
             ToSet(active_requests') \ ToSet(todo') \subseteq A \ ToSet(todo),
             \A r \in A \ ToSet(todo) :
               r \in ToSet(active_requests') => tokens_this_step'[r] = tokens_this_step[r]
      PROVE  B3'
  <2> DEFINE R == ToSet(active_requests') \ ToSet(todo')
  <2>0. R \subseteq A \ ToSet(todo) /\ \A r \in R : tokens_this_step'[r] = tokens_this_step[r]
    BY <1>h
  <2> HIDE DEF R
  <2>1. /\ Cardinality(R) \in Nat /\ Cardinality(R) <= Cardinality(A \ ToSet(todo))
        /\ Cardinality(A \ ToSet(todo)) \in Nat
        /\ Cardinality(Rows(tokens_this_step', R)) \in Nat
        /\ Cardinality(Rows(tokens_this_step, A \ ToSet(todo))) \in Nat
        /\ Cardinality(Rows(tokens_this_step', R))
             <= Cardinality(Rows(tokens_this_step, A \ ToSet(todo)))
    BY <1>g, <2>0
  <2>2. /\ budget >= 0 /\ budget + Cardinality(A \ ToSet(todo)) <= M
        /\ budget + Cardinality(Rows(tokens_this_step, A \ ToSet(todo))) <= M
    BY <1>c, <1>h
  <2>3. /\ budget + Cardinality(R) <= M
        /\ budget + Cardinality(Rows(tokens_this_step', R)) <= M
    <3> HIDE DEF A
    <3> QED BY <1>b, <2>1, <2>2
  <2> QED BY <1>h, <2>2, <2>3 DEF R
<1>1. CASE poll_results \/ UNCHANGED vars \/ \E q \in Requests : submit_request(q)
  <2>1. UNCHANGED <<tokens_this_step, pc, todo, budget, inflight_batches, current_batch_idx,
                    batch_to_infer>>
    BY <1>1 DEF poll_results, vars, submit_request
  <2>2. \A r \in Requests : status'[r] = "RUNNING" => status[r] = "RUNNING"
    BY <1>0, <1>1 DEF poll_results, vars, submit_request, TypeOK
  <2>3. pc \in Visiting => Head(todo) \in Requests
    BY <1>0, TodoFacts DEF TypeOK, Visiting
  <2>4. B2'
    BY <1>c, <2>1, <2>2, <2>3
  <2>5. B1' /\ B3' /\ B4' /\ B5' /\ B6'
    BY <1>c, <2>1 DEF active_requests
  <2> QED BY <1>d, <2>4, <2>5
<1>2. CASE ScheduleBegin
  <2>1. /\ pc' = "plan" /\ todo' = active_requests /\ budget' = M
        /\ inflight_batches' = inflight_batches /\ active_requests' = active_requests
    BY <1>2 DEF ScheduleBegin, active_requests
  <2>2. B1'
    BY <1>a, <1>c, <2>1
  <2>3. B3'
    <3>1. ToSet(active_requests') \ ToSet(todo') = {}
      BY <2>1
    <3>2. Rows(tokens_this_step', {}) = {}
      BY DEF Rows
    <3> QED BY <1>b, <2>1, <3>1, <3>2, FS_EmptySet
  <2>4. B2' /\ B4' /\ B5'
    BY <2>1 DEF Visiting
  <2> QED BY <1>d, <1>e, <2>1, <2>2, <2>3, <2>4
<1>3. CASE SkipPreempted
  <2>1. /\ pc = "plan" /\ pc' = "plan" /\ todo # << >> /\ todo' = Tail(todo)
        /\ Head(todo) \notin A /\ budget' = budget /\ tokens_this_step' = tokens_this_step
        /\ inflight_batches' = inflight_batches /\ active_requests' = active_requests
    BY <1>3 DEF SkipPreempted, active_requests
  <2>2. /\ ToSet(Tail(todo)) = ToSet(todo) \ {Head(todo)}
        /\ Cardinality(ToSet(todo)) = Cardinality(ToSet(Tail(todo))) + 1
        /\ Cardinality(ToSet(Tail(todo))) \in Nat
    BY <1>0, <2>1, TodoFacts
  <2>3. B1'
    <3>1. budget >= Cardinality(ToSet(todo))
      BY <1>c, <2>1 DEF Planning
    <3> QED BY <1>b, <2>1, <2>2, <3>1
  <2>4. pc \in Planning \cup {"admit"}
    BY <2>1 DEF Planning
  <2>5. B3'
    BY <1>h, <2>1, <2>2, <2>4
  <2>6. B2' /\ B4' /\ B5'
    BY <2>1 DEF Visiting
  <2> QED BY <1>d, <1>e, <2>1, <2>3, <2>5, <2>6
<1>4. CASE PlanActive
  <2>h. PICK h : h = Head(todo)
    OBVIOUS
  <2>1. /\ pc = "plan" /\ pc' = "extend" /\ todo # << >> /\ todo' = todo
        /\ h \in Requests /\ h \in A /\ budget' = budget /\ status' = status
        /\ tokens_this_step'[h] = planned_tokens(h, budget)
        /\ \A q \in Requests : q # h => tokens_this_step'[q] = tokens_this_step[q]
        /\ active_requests' = active_requests
        /\ UNCHANGED <<inflight_batches, current_batch_idx>>
    BY <1>0, <1>4, <2>h, PlanEffect
  <2>2. /\ h \in ToSet(todo) /\ h = todo[1] /\ Len(todo) \in Nat /\ Len(todo) >= 1
        /\ Cardinality(ToSet(todo)) = Cardinality(ToSet(Tail(todo))) + 1
        /\ Cardinality(ToSet(Tail(todo))) \in Nat
    BY <1>0, <2>h, <2>1, TodoFacts
  <2>3. pc \in Planning /\ pc \in Planning \cup {"admit"}
    BY <2>1 DEF Planning
  <2>4. budget >= 1 /\ B1'
    BY <1>b, <1>c, <2>1, <2>2, <2>3
  <2>5. B3'
    BY <1>a, <1>h, <2>1, <2>2, <2>3
  <2>6. B2'
    <3> DEFINE n == num_computed_tokens[h]
               l == Len(input_ids_list[h])
               t == planned_tokens(h, budget)
    <3>1. /\ t \in Int
          /\ n >= l => t = 1
          /\ n < l /\ EnableChunkedPrefill => t <= budget
      BY <1>0, <1>b, <2>1, PlanNumbers
    <3>2. n \in Int /\ l \in Nat
      BY <1>0, <2>1, Numbers
    <3>3. status[h] = "RUNNING"
      BY <1>a, <2>1
    <3>4. Len(todo) > 1 => ~(n < l)
      <4>1. 1 \in DOMAIN todo
        BY <1>0, <2>2 DEF TypeOK
      <4> QED BY <1>0, <2>2, <3>3, <4>1 DEF OnePrefill, prefilling
    <3>5. ~EnableChunkedPrefill => ~(n < l)
      BY <1>0, <2>1, <3>3 DEF OnePrefill, prefilling
    <3> HIDE DEF n, l, t
    <3>6. /\ Len(todo) > 1 => t = 1
          /\ t <= budget
      BY <1>b, <2>4, <3>1, <3>2, <3>4, <3>5, SchedulerAssumption
    <3>7. Head(todo') = h /\ Len(todo') = Len(todo) /\ tokens_this_step'[h] = t
      BY <2>h, <2>1 DEF t
    <3> QED BY <2>1, <3>6, <3>7
  <2>7. B4' /\ B5'
    BY <2>1
  <2> QED BY <1>d, <1>e, <2>1, <2>4, <2>5, <2>6, <2>7
<1>5. CASE ExtendActive \/ RetryExtend
  <2>0. pc \in {"extend", "retry"} /\ Extend(Head(todo))
    BY <1>0, <1>5, RetrySucceeds DEF ExtendActive, RetryExtend
  <2>h. PICK h : h = Head(todo)
    OBVIOUS
  <2>1. /\ pc' = "plan" /\ todo # << >> /\ todo' = Tail(todo)
        /\ h \in Requests /\ h \in A
        /\ budget' = budget - tokens_this_step[h]
        /\ status' = status /\ tokens_this_step' = tokens_this_step
        /\ inflight_batches' = inflight_batches
        /\ active_requests' = active_requests
    BY <1>0, <2>0, <2>h, ExtendEffect
  <2>2. /\ h \in ToSet(todo) /\ ToSet(Tail(todo)) = ToSet(todo) \ {h}
        /\ Len(todo) \in Nat /\ Len(todo) >= 1
        /\ Cardinality(ToSet(todo)) = Cardinality(ToSet(Tail(todo))) + 1
        /\ Cardinality(ToSet(Tail(todo))) \in Nat
        /\ Len(Tail(todo)) = Len(todo) - 1 /\ Tail(todo) \in Seq(Requests)
    BY <1>0, <2>h, <2>1, TodoFacts
  <2>3. /\ status[h] = "RUNNING" /\ pc \in Visiting /\ pc \in Planning
        /\ pc \in Planning \cup {"admit"}
    BY <1>a, <2>0, <2>1 DEF Visiting, Planning
  <2>4. tokens_this_step[h] \in Int /\ tokens_this_step[h] >= 1
    <3>1. h \notin Unplanned
      BY <2>0, <2>2 DEF Unplanned
    <3>2. Planned(h)
      BY <1>0, <2>0, <2>1, <2>3, <3>1 DEF Progress
    <3> QED BY <1>b, <2>1, <3>2 DEF Planned
  <2>5. IF Len(todo) > 1 THEN tokens_this_step[h] = 1 ELSE tokens_this_step[h] <= budget
    BY <1>c, <2>h, <2>3
  <2>6. budget >= Cardinality(ToSet(todo))
    BY <1>c, <2>3
  <2>7. B1' /\ budget' >= 0
    <3>1. CASE Len(todo) > 1
      <4>1. tokens_this_step[h] = 1
        BY <2>5, <3>1
      <4> QED BY <1>b, <2>1, <2>2, <2>6, <4>1
    <3>2. CASE ~(Len(todo) > 1)
      <4>1. Len(Tail(todo)) = 0
        BY <2>2, <3>2
      <4>2. Tail(todo) = << >>
        BY <2>2, <4>1, EmptySeq
      <4>3. ToSet(Tail(todo)) = {} /\ Cardinality({}) = 0
        BY <4>2, FS_EmptySet DEF ToSet
      <4>4. tokens_this_step[h] <= budget
        BY <2>5, <3>2
      <4>5. Cardinality(ToSet(todo')) = 0
        BY <2>1, <4>3
      <4>6. budget - tokens_this_step[h] >= 0
        BY <1>b, <2>4, <4>4
      <4>7. budget' >= 0
        BY <2>1, <4>6
      <4> QED BY <4>5, <4>7
    <3> QED BY <3>1, <3>2
  <2> DEFINE R == A \ ToSet(todo)
  <2>8. ToSet(active_requests') \ ToSet(todo') = R \cup {h}
    BY <2>1, <2>2
  <2>9. IsFiniteSet(R) /\ \A r \in R : tokens_this_step[r] \in Int
    BY <1>a, <1>b, SubsetCard
  <2>10. /\ budget + Cardinality(R) <= M
         /\ budget + Cardinality(Rows(tokens_this_step, R)) <= M
         /\ h \notin R
    BY <1>c, <2>2, <2>3
  <2> HIDE DEF R
  <2>11. Cardinality(R \cup {h}) = Cardinality(R) + 1 /\ Cardinality(R) \in Nat
    BY <2>9, <2>10, FS_AddElement, FS_CardinalityType
  <2>12. /\ Cardinality(Rows(tokens_this_step, R)) \in Nat
         /\ Cardinality(Rows(tokens_this_step, R \cup {h})) \in Nat
         /\ Cardinality(Rows(tokens_this_step, R \cup {h}))
              <= Cardinality(Rows(tokens_this_step, R)) + tokens_this_step[h]
    <3>1. tokens_this_step[h] \in Nat
      BY <2>4
    <3> QED BY <2>9, <3>1, RowsAdd
  <2>13. /\ budget' + Cardinality(R \cup {h}) <= M
         /\ budget' + Cardinality(Rows(tokens_this_step', R \cup {h})) <= M
    <3>1. /\ budget - tokens_this_step[h] + Cardinality(R \cup {h}) <= M
          /\ budget - tokens_this_step[h] + Cardinality(Rows(tokens_this_step, R \cup {h})) <= M
      BY <1>b, <2>4, <2>10, <2>11, <2>12
    <3> QED BY <2>1, <3>1
  <2>14. B3'
    BY <2>7, <2>8, <2>13
  <2>15. B2' /\ B4' /\ B5'
    BY <2>1 DEF Visiting
  <2> QED BY <1>d, <1>e, <2>1, <2>7, <2>14, <2>15
<1>6. CASE PreemptVictim
  <2>1. PICK i \in DOMAIN active_requests :
         LET v == active_requests[i]
         IN    /\ v \in Requests /\ status'[v] = "PENDING"
               /\ pc = "extend" /\ pc' = "put_victim" /\ todo' = todo /\ budget' = budget
               /\ \A q \in Requests : q # v =>
                    /\ status'[q] = status[q]
                    /\ tokens_this_step'[q] = tokens_this_step[q]
               /\ ToSet(active_requests') = ToSet(active_requests) \ {v}
               /\ \A k \in Slots : k # current_batch_idx =>
                    inflight_batches'[k] = inflight_batches[k]
               /\ inflight_batches'[current_batch_idx] = active_requests'
    BY <1>0, <1>6, PreemptEffect
  <2>v. PICK v : v = active_requests[i]
    OBVIOUS
  <2>2. /\ v \in Requests /\ status'[v] = "PENDING"
        /\ pc = "extend" /\ pc' = "put_victim" /\ todo' = todo /\ budget' = budget
        /\ \A q \in Requests : q # v =>
             /\ status'[q] = status[q]
             /\ tokens_this_step'[q] = tokens_this_step[q]
        /\ ToSet(active_requests') = A \ {v}
        /\ \A k \in Slots : k # current_batch_idx =>
             inflight_batches'[k] = inflight_batches[k]
        /\ inflight_batches'[current_batch_idx] = active_requests'
    BY <2>1, <2>v
  <2>3. \A k \in Slots : ToSet(inflight_batches'[k]) \subseteq ToSet(inflight_batches[k])
    BY <1>a, <2>2
  <2>4. pc \in Planning \cup {"admit"} /\ pc \in Planning /\ pc \in Visiting
    BY <2>2 DEF Planning, Visiting
  <2>5. B3'
    BY <1>a, <1>h, <2>2, <2>4
  <2>6. B1'
    BY <1>c, <2>2, <2>4
  <2>7. B2'
    <3>h. PICK h : h = Head(todo)
      OBVIOUS
    <3>1. h \in Requests
      BY <1>0, <2>2, <3>h, TodoFacts DEF TypeOK
    <3>2. Head(todo') = h /\ Len(todo') = Len(todo)
      BY <2>2, <3>h
    <3>3. status[h] = "RUNNING" =>
            IF Len(todo) > 1 THEN tokens_this_step[h] = 1 ELSE tokens_this_step[h] <= budget
      BY <1>c, <2>4, <3>h
    <3>4. status'[h] = "RUNNING" =>
            IF Len(todo) > 1 THEN tokens_this_step'[h] = 1 ELSE tokens_this_step'[h] <= budget'
      BY <2>2, <3>1, <3>3
    <3> QED BY <3>2, <3>4
  <2>8. B4' /\ B5'
    BY <2>2
  <2> QED BY <1>d, <1>e, <2>3, <2>5, <2>6, <2>7, <2>8
<1>7. CASE PutVictim
  <2>1. /\ pc = "put_victim"
        /\ UNCHANGED <<status, tokens_this_step, budget, inflight_batches>>
        /\ active_requests' = active_requests
        /\ IF held = <<Head(todo)>>
           THEN pc' = "plan" /\ todo' = Tail(todo)
           ELSE pc' = "retry" /\ todo' = todo
    BY <1>7 DEF PutVictim, active_requests
  <2>2. /\ pc \in Planning \cup {"admit"} /\ pc \in Planning /\ pc \in Visiting
        /\ todo # << >>
    BY <1>0, <2>1 DEF Planning, Visiting, TypeOK
  <2>3. /\ ToSet(Tail(todo)) = ToSet(todo) \ {Head(todo)}
        /\ Cardinality(ToSet(todo)) = Cardinality(ToSet(Tail(todo))) + 1
        /\ Cardinality(ToSet(Tail(todo))) \in Nat
    BY <1>0, <2>2, TodoFacts
  <2>4. budget >= Cardinality(ToSet(todo))
    BY <1>c, <2>2
  <2>5. B4' /\ B5'
    BY <2>1
  <2>6. CASE held = <<Head(todo)>>
    <3>1. pc' = "plan" /\ todo' = Tail(todo)
      BY <2>1, <2>6
    <3>2. Head(todo) \notin A
      <4>1. held # << >> /\ held[1] = Head(todo)
        BY <2>6
      <4>2. status[Head(todo)] = "PENDING"
        BY <1>0, <4>1 DEF WaitingOnce
      <4> QED BY <1>a, <4>2
    <3>3. B1'
      BY <1>b, <2>1, <2>3, <2>4, <3>1
    <3>4. B3'
      BY <1>h, <2>1, <2>2, <2>3, <3>1, <3>2
    <3>5. B2'
      BY <3>1 DEF Visiting
    <3> QED BY <1>d, <1>e, <2>1, <2>5, <3>3, <3>4, <3>5
  <2>7. CASE held # <<Head(todo)>>
    <3>1. pc' = "retry" /\ todo' = todo
      BY <2>1, <2>7
    <3>2. B1' /\ B2' /\ B3'
      BY <1>c, <2>1, <2>2, <2>4, <3>1
    <3> QED BY <1>d, <1>e, <2>1, <2>5, <3>2
  <2> QED BY <2>6, <2>7
<1>8. CASE PlanDone
  <2>1. /\ UNCHANGED <<tokens_this_step, budget, todo, inflight_batches>>
        /\ active_requests' = active_requests
        /\ pc = "plan" /\ pc' = "admit"
    BY <1>8 DEF PlanDone, active_requests
  <2>2. pc \in Planning \cup {"admit"} /\ pc' \notin Planning /\ pc' \notin Visiting
    BY <2>1 DEF Planning, Visiting
  <2>3. B3'
    BY <1>c, <2>1, <2>2
  <2>4. B1' /\ B2' /\ B4' /\ B5'
    BY <2>1, <2>2
  <2> QED BY <1>d, <1>e, <2>1, <2>3, <2>4
<1>i. ASSUME pc = "admit"
      PROVE  /\ todo = << >> /\ A \ ToSet(todo) = A
             /\ budget >= 0 /\ budget + Cardinality(A) <= M
             /\ budget + Cardinality(Rows(tokens_this_step, A)) <= M
             /\ Cardinality(Rows(tokens_this_step, A)) <= M
  <2>1. todo = << >>
    BY <1>0, <1>i DEF TodoKept, Planning
  <2>2. A \ ToSet(todo) = A
    BY <2>1 DEF ToSet
  <2>3. /\ budget >= 0 /\ budget + Cardinality(A) <= M
        /\ budget + Cardinality(Rows(tokens_this_step, A)) <= M
    BY <1>c, <1>i, <2>2
  <2>4. Cardinality(Rows(tokens_this_step, A)) \in Nat
    BY <1>a, <1>b, RowsFinite
  <2>5. Cardinality(Rows(tokens_this_step, A)) <= M
    BY <1>b, <2>3, <2>4
  <2> QED BY <2>1, <2>2, <2>3, <2>5
<1>9. CASE AdmitRequest
  <2>h. PICK h : h = Head(request_queue)
    OBVIOUS
  <2>1. /\ h \in Requests /\ status[h] = "PENDING"
        /\ pc = "admit" /\ pc' = "admit" /\ budget > 0
        /\ todo' = todo
        /\ budget' = budget - planned_tokens(h, budget)
        /\ budget >= planned_tokens(h, budget)
        /\ tokens_this_step'[h] = planned_tokens(h, budget)
        /\ num_computed_tokens'[h] = next_num_comp(h, budget)
        /\ input_ids_list' = input_ids_list /\ generated_tokens' = generated_tokens
        /\ \A q \in Requests : q # h => tokens_this_step'[q] = tokens_this_step[q]
        /\ ToSet(active_requests') = A \cup {h}
        /\ h \notin A
        /\ \A k \in Slots : k # current_batch_idx =>
             inflight_batches'[k] = inflight_batches[k]
        /\ inflight_batches'[current_batch_idx] = active_requests'
    BY <1>0, <1>9, <2>h, AdmitEffect
  <2>2. /\ todo = << >>
        /\ budget + Cardinality(A) <= M
        /\ budget + Cardinality(Rows(tokens_this_step, A)) <= M
    BY <1>i, <2>1
  <2>3. tokens_this_step'[h] \in Int /\ tokens_this_step'[h] >= 1
    <3>1. planned_tokens(h, budget) \in Int
      BY <1>0, <1>b, <2>1, PlanTypes
    <3>2. Fresh(h)
      BY <1>0, <2>1 DEF Progress
    <3>3. Len(input_ids_list[h]) >= 1
      <4>1. /\ Len(input_ids_list[h]) \in Nat /\ PromptLen[h] \in Nat /\ PromptLen[h] >= 1
            /\ Len(input_ids_list[h]) >= PromptLen[h]
        BY <1>0, <2>1, Numbers DEF InputKept
      <4> QED BY <4>1
    <3>4. budget >= 1 /\ num_computed_tokens[h] = 0
      BY <1>b, <2>1, <3>2 DEF Fresh
    <3>5. Planned(h)'
      BY <1>0, <1>b, <2>1, <3>2, <3>3, <3>4, PlannedAfter
    <3>6. tokens_this_step'[h] >= 1
      BY <3>5 DEF Planned
    <3> QED BY <2>1, <3>1, <3>6
  <2> DEFINE T == tokens_this_step'
  <2>4. ToSet(active_requests') \ ToSet(todo') = A \cup {h}
    BY <2>1, <2>2 DEF ToSet
  <2>5. Rows(T, A) = Rows(tokens_this_step, A) /\ \A r \in A : T[r] \in Int
    <3>1. \A r \in A : T[r] = tokens_this_step[r]
      BY <1>a, <2>1
    <3>2. \A r \in A : T[r] \in Int
      BY <1>a, <1>b, <3>1
    <3> QED BY <3>1, <3>2, RowsSame
  <2>6. Cardinality(A \cup {h}) = Cardinality(A) + 1 /\ Cardinality(A) \in Nat
    BY <1>a, <2>1, FS_AddElement, FS_CardinalityType
  <2> HIDE DEF T
  <2>7. /\ Cardinality(Rows(T, A)) \in Nat
        /\ Cardinality(Rows(T, A \cup {h})) \in Nat
        /\ Cardinality(Rows(T, A \cup {h})) <= Cardinality(Rows(T, A)) + T[h]
    <3>1. T[h] \in Nat
      BY <2>3 DEF T
    <3> HIDE DEF A
    <3>2. IsFiniteSet(A)
      BY <1>a DEF A
    <3> QED BY <2>5, <3>1, <3>2, RowsAdd
  <2>8. budget' = budget - T[h] /\ budget' >= 0 /\ T[h] >= 1 /\ T[h] \in Int
    BY <1>b, <2>1, <2>3 DEF T
  <2>9. /\ budget' + Cardinality(A \cup {h}) <= M
        /\ budget' + Cardinality(Rows(T, A \cup {h})) <= M
        /\ Cardinality(A \cup {h}) <= M
    BY <1>b, <2>2, <2>5, <2>6, <2>7, <2>8
  <2>10. B3'
    BY <2>4, <2>8, <2>9 DEF T
  <2>11. B6'
    <3> SUFFICES ASSUME NEW k \in Slots PROVE Cardinality(ToSet(inflight_batches'[k])) <= M
      OBVIOUS
    <3> QED BY <1>c, <2>1, <2>9
  <2>12. B1' /\ B2' /\ B4' /\ B5'
    BY <2>1 DEF Planning, Visiting
  <2> QED BY <1>d, <2>10, <2>11, <2>12
<1>10. CASE RejectHead \/ Requeue
  <2>1. /\ pc \in {"admit", "requeue"} /\ pc' \in {"requeue", "dispatch"}
        /\ UNCHANGED <<tokens_this_step, inflight_batches>>
        /\ active_requests' = active_requests
    BY <1>10 DEF RejectHead, Requeue, Admitting, active_requests
  <2>2. Cardinality(Rows(tokens_this_step, A)) <= M
    BY <1>c, <1>i, <2>1
  <2>3. B1' /\ B2' /\ B3' /\ B4' /\ B5'
    BY <2>1, <2>2 DEF Planning, Visiting
  <2> QED BY <1>d, <1>e, <2>1, <2>3
<1>11. CASE Dispatch
  <2>1. /\ pc \in {"admit", "dispatch"} /\ pc' \in {"infer", "schedule"}
        /\ UNCHANGED <<tokens_this_step, inflight_batches>>
        /\ batch_to_infer' = get_snapshot(active_requests)
    BY <1>11 DEF Dispatch
  <2>2. Cardinality(Rows(tokens_this_step, A)) <= M
    BY <1>c, <1>i, <2>1
  <2>3. batch_to_infer' = active_requests
    BY <1>0, <1>a, <2>1, SnapshotIsSlot
  <2>4. B5'
    BY <2>1, <2>2, <2>3
  <2>5. B1' /\ B2' /\ B3' /\ B4'
    BY <2>1 DEF Planning, Visiting
  <2> QED BY <1>d, <1>e, <2>1, <2>4, <2>5
<1>12. CASE Infer \/ UpdateSkip \/ UpdateContinue \/ UpdateRaise \/ UpdateDone
  <2>1. /\ pc' \in {"schedule", "update", "dead"} /\ inflight_batches' = inflight_batches
    <3>1. CASE Infer
      BY <3>1 DEF Infer
    <3>2. CASE UpdateSkip \/ UpdateContinue \/ UpdateRaise \/ UpdateDone
      BY <3>2 DEF UpdateSkip, UpdateContinue, UpdateRaise, UpdateDone, TakesToken
    <3> QED BY <1>12, <3>1, <3>2
  <2>2. B1' /\ B2' /\ B3' /\ B4' /\ B5'
    BY <1>f, <2>1 DEF Planning, Visiting
  <2> QED BY <1>d, <1>e, <2>1, <2>2
<1>13. CASE UpdateFinish
  <2>1. /\ pc' = "update"
        /\ ToSet(active_requests') = ToSet(active_requests) \ {current}
        /\ \A k \in Slots : k # current_batch_idx =>
              inflight_batches'[k] = inflight_batches[k]
        /\ inflight_batches'[current_batch_idx] = active_requests'
    BY <1>0, <1>13, FinishEffect
  <2>2. \A k \in Slots : ToSet(inflight_batches'[k]) \subseteq ToSet(inflight_batches[k])
    BY <1>a, <2>1
  <2>3. B1' /\ B2' /\ B3' /\ B4' /\ B5'
    BY <1>f, <2>1 DEF Planning, Visiting
  <2> QED BY <1>d, <1>e, <2>2, <2>3
<1> QED BY <1>1, <1>2, <1>3, <1>4, <1>5, <1>6, <1>7, <1>8, <1>9, <1>10, <1>11, <1>12, <1>13
        DEF Next, GenerationLoop

\* Every step keeps to the limit on sequences.
LEMMA SeqsBoundedStep == CInv /\ [Next]_vars => SeqsBounded'
<1> SUFFICES ASSUME CInv, [Next]_vars PROVE SeqsBounded'
  OBVIOUS
<1>0. /\ IInv /\ TypeOK /\ InputKept /\ WaitingOnce /\ RunningOnce /\ SeqsBounded
  BY DEF CInv, IInv
<1>a. /\ current_batch_idx \in Slots
      /\ active_requests = inflight_batches[current_batch_idx]
      /\ \A k \in Slots : Len(inflight_batches[k]) \in Nat
      /\ Len(active_requests) \in Nat /\ seqs_budget \in Int /\ MaxNumSeqs \in Nat
  <2>1. /\ current_batch_idx \in Slots
        /\ active_requests = inflight_batches[current_batch_idx]
        /\ \A k \in Slots : inflight_batches[k] \in Seq(Requests)
    BY <1>0, Basics
  <2>2. \A k \in Slots : Len(inflight_batches[k]) \in Nat
    BY <2>1, LenProperties
  <2> QED BY <1>0, <2>1, <2>2, SchedulerAssumption DEF TypeOK
<1> USE DEF request_vars, output_vars, cache_vars, queue_vars, slot_vars, loop_vars, infer_vars
<1>1. CASE poll_results \/ UNCHANGED vars \/ \E q \in Requests : submit_request(q)
  <2>1. UNCHANGED <<pc, seqs_budget, inflight_batches, current_batch_idx>>
    BY <1>1 DEF poll_results, vars, submit_request
  <2> QED BY <1>0, <2>1 DEF SeqsBounded, active_requests
<1>2. CASE \/ ScheduleBegin \/ SkipPreempted \/ PlanActive \/ ExtendActive \/ RetryExtend
           \/ PutVictim \/ RejectHead \/ Requeue \/ Dispatch \/ Infer
           \/ UpdateSkip \/ UpdateContinue \/ UpdateRaise \/ UpdateDone
  <2>1. inflight_batches' = inflight_batches /\ pc' # "admit"
    <3>1. CASE \/ ScheduleBegin \/ SkipPreempted \/ PlanActive \/ ExtendActive \/ RetryExtend
      BY <3>1 DEF ScheduleBegin, SkipPreempted, PlanActive, ExtendActive, RetryExtend, Extend
    <3>2. CASE PutVictim \/ RejectHead \/ Requeue \/ Dispatch
      BY <3>2 DEF PutVictim, RejectHead, Requeue, Dispatch, Admitting
    <3>3. CASE Infer
      BY <3>3 DEF Infer
    <3>4. CASE UpdateSkip \/ UpdateContinue \/ UpdateRaise \/ UpdateDone
      BY <3>4 DEF UpdateSkip, UpdateContinue, UpdateRaise, UpdateDone, TakesToken
    <3> QED BY <1>2, <3>1, <3>2, <3>3, <3>4
  <2> QED BY <1>0, <2>1 DEF SeqsBounded
<1>3. CASE PlanDone
  <2>1. /\ seqs_budget' = admission_budget
        /\ UNCHANGED <<inflight_batches, current_batch_idx>>
        /\ active_requests' = active_requests
    BY <1>3 DEF PlanDone, active_requests
  <2>2. admission_budget \in Int /\ admission_budget <= MaxNumSeqs - Len(active_requests)
    <3> DEFINE room == MaxNumSeqs - Len(active_requests)
    <3>1. room \in Int
      BY <1>a
    <3>2. admission_budget \in Int
      BY <1>0, AdmissionBudgetType
    <3>3. CASE PPSize > 1 /\ EnablePPFairShare
      <4>1. fair_share \in Int
        BY <1>0, FairShareType
      <4>2. admission_budget = Min({room, fair_share})
        BY <3>3 DEF admission_budget
      <4> HIDE DEF room
      <4>3. Min({room, fair_share}) <= room
        BY <3>1, <4>1, MinPair
      <4>4. admission_budget <= room
        BY <4>2, <4>3
      <4> QED BY <3>2, <4>4 DEF room
    <3>4. CASE ~(PPSize > 1 /\ EnablePPFairShare)
      <4>1. admission_budget = room
        BY <3>4 DEF admission_budget
      <4> QED BY <3>1, <4>1
    <3> QED BY <3>3, <3>4
  <2>3. admission_budget + Len(active_requests) <= MaxNumSeqs
    BY <1>a, <2>2
  <2> QED BY <1>0, <2>1, <2>3 DEF SeqsBounded
<1>4. CASE AdmitRequest
  <2>1. /\ pc = "admit" /\ seqs_budget > 0 /\ seqs_budget' = seqs_budget - 1
        /\ Len(active_requests') = Len(active_requests) + 1
        /\ \A k \in Slots : k # current_batch_idx =>
             inflight_batches'[k] = inflight_batches[k]
        /\ inflight_batches'[current_batch_idx] = active_requests'
    BY <1>0, <1>4, AdmitEffect
  <2>2. seqs_budget + Len(active_requests) <= MaxNumSeqs
    BY <1>0, <2>1 DEF SeqsBounded
  <2>3. /\ Len(active_requests) + 1 <= MaxNumSeqs
        /\ (seqs_budget - 1) + (Len(active_requests) + 1) <= MaxNumSeqs
    BY <1>a, <2>1, <2>2
  <2>4. ASSUME NEW k \in Slots PROVE Len(inflight_batches'[k]) <= MaxNumSeqs
    BY <1>0, <2>1, <2>3 DEF SeqsBounded
  <2> QED BY <2>1, <2>3, <2>4 DEF SeqsBounded
<1>5. CASE PreemptVictim \/ UpdateFinish
  <2>1. /\ pc' # "admit"
        /\ Len(active_requests') = Len(active_requests) - 1
        /\ \A k \in Slots : k # current_batch_idx =>
             inflight_batches'[k] = inflight_batches[k]
        /\ inflight_batches'[current_batch_idx] = active_requests'
    <3>1. CASE PreemptVictim
      BY <1>0, <3>1, PreemptEffect
    <3>2. CASE UpdateFinish
      BY <1>0, <3>2, FinishEffect
    <3> QED BY <1>5, <3>1, <3>2
  <2>2. Len(active_requests) - 1 <= MaxNumSeqs
    BY <1>0, <1>a DEF SeqsBounded
  <2>3. ASSUME NEW k \in Slots PROVE Len(inflight_batches'[k]) <= MaxNumSeqs
    BY <1>0, <2>1, <2>2 DEF SeqsBounded
  <2> QED BY <2>1, <2>3 DEF SeqsBounded
<1> QED BY <1>1, <1>2, <1>3, <1>4, <1>5 DEF Next, GenerationLoop

-----------------------------------------------------------------------------
(* The invariant, and what follows from it. *)

\* The invariant holds initially.
LEMMA CInvInit == Init => CInv
<1> SUFFICES ASSUME Init PROVE CInv
  OBVIOUS
<1>1. IInv
  BY TypeInit, PlacesInit DEF IInv
<1>2. BlocksConserved
  BY DEF Init, CacheInit, RequestInit, BlocksConserved, ToSet
<1>3. /\ \A r \in Requests : status[r] = "CREATED"
      /\ \A k \in Slots : inflight_batches[k] = << >>
      /\ todo = << >> /\ pc = "schedule"
  BY DEF Init, RequestInit
<1>4. Progress
  <2> SUFFICES ASSUME NEW r \in Requests PROVE Fresh(r)
    BY <1>3 DEF Progress
  <2>1. /\ input_ids_list[r] = [i \in 1 .. PromptLen[r] |-> TokenAt(r, i - 1)]
        /\ generated_tokens[r] = << >> /\ num_computed_tokens[r] = 0 /\ block_ids[r] = << >>
    BY DEF Init, RequestInit
  <2>2. PromptLen[r] \in Nat
    BY RequestAssumption
  <2>3. Len(input_ids_list[r]) = PromptLen[r]
    BY <2>1, <2>2
  <2>4. NumTokens(r) = PromptLen[r]
    BY <2>1, <2>2 DEF NumTokens
  <2> QED BY <2>1, <2>3, <2>4 DEF Fresh
<1>5. TodoKept
  BY <1>3 DEF TodoKept, NoRepeat, Planning
<1>6. Covered
  BY <1>3 DEF Covered
<1>7. OnePrefill
  BY <1>3 DEF OnePrefill, Planning, Visiting
<1>8. Budgeted
  <2>1. \A k \in Slots : Cardinality(ToSet(inflight_batches[k])) = 0
    BY <1>3, FS_EmptySet DEF ToSet
  <2> QED BY <1>3, <2>1, SchedulerAssumption DEF Budgeted, Planning, Visiting
<1>9. SeqsBounded
  BY <1>3, SchedulerAssumption DEF SeqsBounded
<1>10. Batches
  BY <1>3 DEF Batches
<1> QED BY <1>1, <1>2, <1>4, <1>5, <1>6, <1>7, <1>8, <1>9, <1>10 DEF CInv

\* The invariant is inductive.
LEMMA CInvNext == CInv /\ [Next]_vars => CInv'
<1> SUFFICES ASSUME CInv, [Next]_vars PROVE CInv'
  OBVIOUS
<1>1. IInv'
  BY TypeStep, WaitingStep, RunningStep, AnsweredStep, FinishedStep DEF IInv, CInv
<1>2. BlocksConserved'
  BY BlocksStep DEF CInv
<1> QED BY <1>1, <1>2, ProgressStep, TodoKeptStep, CoveredStep, OnePrefillStep, BudgetedStep,
           SeqsBoundedStep, BatchesStep DEF CInv

\* The invariant holds in every reachable state.
LEMMA CInvHolds == Spec => []CInv
BY CInvInit, CInvNext, PTL DEF Spec

\* From requests and blocks to token positions.
LEMMA CoveredGiven == CInv => BatchCovered
<1> SUFFICES ASSUME CInv, pc = "infer", NEW r \in Requests, status[r] = "RUNNING"
             PROVE  LET positions == Max({num_computed_tokens[r], Len(input_ids_list[r])})
                    IN  /\ positions <= Len(block_ids[r]) * PageSize
                        /\ (Len(block_ids[r]) - 1) * PageSize < positions
  BY DEF BatchCovered
<1> DEFINE n == num_computed_tokens[r]
           l == Len(input_ids_list[r])
           p == Max({n, l})
<1>1. n \in Int /\ l \in Int
  BY Numbers DEF CInv, IInv
<1>2. BlocksMatch(r)
  BY DEF CInv, Covered, Visiting
<1>3. IF n <= l THEN Len(block_ids[r]) = num_blocks_needed(l)
                ELSE Len(block_ids[r]) = num_blocks_needed(n)
  BY <1>2 DEF BlocksMatch
<1> HIDE DEF n, l
<1>4. p \in Int /\ p >= n /\ p >= l /\ (p = n \/ p = l)
  BY <1>1, MaxPair
<1> HIDE DEF p
<1>5. Len(block_ids[r]) = num_blocks_needed(p)
  <2>1. CASE n <= l
    <3>1. p = l
      BY <1>1, <1>4, <2>1
    <3> QED BY <1>3, <2>1, <3>1
  <2>2. CASE ~(n <= l)
    <3>1. p = n
      BY <1>1, <1>4, <2>2
    <3> QED BY <1>3, <2>2, <3>1
  <2> QED BY <2>1, <2>2
<1>6. p <= num_blocks_needed(p) * PageSize /\ (num_blocks_needed(p) - 1) * PageSize < p
  BY <1>4, Division
<1> QED BY <1>5, <1>6 DEF p, n, l

\* From the rows of the requests to the rows of the batch.
LEMMA FitsGiven == CInv => BatchFits
<1> SUFFICES ASSUME CInv, pc = "infer" PROVE BatchFits
  BY DEF BatchFits
<1>0. /\ TypeOK /\ RunningOnce /\ Batches /\ Progress /\ Budgeted /\ SeqsBounded
  BY DEF CInv, IInv
<1> DEFINE b == batch_to_infer
           T == tokens_this_step
<1>1. previous_batch_idx \in Slots /\ b = inflight_batches[previous_batch_idx]
  <2>1. current_batch_idx \in Slots
    BY <1>0, Basics
  <2>2. previous_batch_idx \in Slots
    BY <2>1, SchedulerAssumption DEF previous_batch_idx, Slots
  <2> QED BY <1>0, <2>2 DEF Batches
<1>2. /\ b \in Seq(Requests) /\ NoRepeat(b) /\ IsFiniteSet(ToSet(b))
      /\ \A r \in ToSet(b) : r \in Requests /\ status[r] = "RUNNING"
      /\ \A r : r \in ToSet(b) <=> \E i \in DOMAIN b : b[i] = r
  <2> HIDE DEF b
  <2> QED BY <1>0, <1>1, Basics
<1>3. Len(b) <= MaxNumSeqs
  BY <1>0, <1>1 DEF SeqsBounded
<1>4. \A r \in ToSet(b) : T[r] >= 1
  <2> SUFFICES ASSUME NEW r \in ToSet(b) PROVE T[r] >= 1
    OBVIOUS
  <2>1. r \in Requests /\ status[r] = "RUNNING"
    BY <1>2
  <2>2. Planned(r)
    BY <1>0, <2>1 DEF Progress, Unplanned
  <2> QED BY <2>2 DEF Planned
<1>5. Cardinality(Rows(T, ToSet(b))) <= MaxNumBatchedTokens
  BY <1>0 DEF Budgeted
<1>6. IsFiniteSet(Rows(T, ToSet(b))) /\ Cardinality(Rows(T, ToSet(b))) \in Nat
  <2>1. \A r \in ToSet(b) : T[r] \in Int
    BY <1>0, <1>2 DEF TypeOK
  <2> QED BY <1>2, <2>1, RowsFinite
<1> DEFINE f == [x \in BatchRows(b) |-> <<b[x[1]], x[2]>>]
<1>7. ASSUME NEW x \in BatchRows(b)
      PROVE  /\ x = <<x[1], x[2]>> /\ x[1] \in DOMAIN b /\ x[2] \in 1 .. T[b[x[1]]]
             /\ b[x[1]] \in ToSet(b)
  <2>1. PICK i \in DOMAIN b : x \in {i} \X (1 .. T[b[i]])
    BY <1>7 DEF BatchRows
  <2>2. x = <<x[1], x[2]>> /\ x[1] = i /\ x[2] \in 1 .. T[b[i]]
    BY <2>1
  <2> QED BY <1>2, <2>1, <2>2
<1>8. ASSUME NEW x \in BatchRows(b) PROVE f[x] \in Rows(T, ToSet(b))
  <2>1. f[x] \in {b[x[1]]} \X (1 .. T[b[x[1]]])
    BY <1>7
  <2> QED BY <1>7, <2>1 DEF Rows
<1>9. ASSUME NEW x \in BatchRows(b), NEW y \in BatchRows(b), f[x] = f[y] PROVE x = y
  <2>1. b[x[1]] = b[y[1]] /\ x[2] = y[2]
    BY <1>9
  <2>2. x[1] = y[1]
    BY <1>2, <1>7, <2>1 DEF NoRepeat
  <2> QED BY <1>7, <2>1, <2>2
<1>10. f \in Injection(BatchRows(b), Rows(T, ToSet(b)))
  <2> HIDE DEF b
  <2>1. f \in [BatchRows(b) -> Rows(T, ToSet(b))]
    BY <1>8
  <2> QED BY <1>9, <2>1 DEF Injection, IsInjective
<1>11. /\ IsFiniteSet(BatchRows(b))
       /\ Cardinality(BatchRows(b)) <= Cardinality(Rows(T, ToSet(b)))
  BY <1>6, <1>10, FS_Injection
<1>12. Cardinality(BatchRows(b)) \in Nat
  BY <1>11, FS_CardinalityType
<1>13. Cardinality(BatchRows(b)) <= MaxNumBatchedTokens
  BY <1>5, <1>6, <1>11, <1>12, SchedulerAssumption
<1> QED BY <1>3, <1>4, <1>13 DEF BatchFits

\* What the earlier rows of an update() have finished is still in its hands.
FinishedInHand ==
  pc = "update" =>
    \A i \in DOMAIN batch_to_update :
      i < row /\ status[batch_to_update[i]] = "FINISHED" =>
        \E j \in DOMAIN finished_requests : finished_requests[j] = batch_to_update[i]

LInv == CInv /\ FinishedInHand /\ LostUnanswered

\* What a step that is not the loop's does to the state of update().
LEMMA OtherThreads ==
  ASSUME TypeOK, [Next]_vars, ~GenerationLoop
  PROVE  /\ UNCHANGED <<pc, batch_to_update, row, finished_requests>>
         /\ \A r \in Requests : status'[r] = "FINISHED" => status[r] = "FINISHED"
<1>0. status \in [Requests -> Status]
  BY DEF TypeOK
<1>1. ASSUME NEW q \in Requests, submit_request(q)
      PROVE  /\ UNCHANGED <<pc, batch_to_update, row, finished_requests>>
             /\ \A r \in Requests : status'[r] = "FINISHED" => status[r] = "FINISHED"
  <2>1. /\ UNCHANGED <<pc, batch_to_update, row, finished_requests>>
        /\ \/ status' = [status EXCEPT ![q] = "FAILED"]
           \/ status' = [status EXCEPT ![q] = "PENDING"]
    BY <1>1 DEF submit_request, loop_vars, infer_vars
  <2> QED BY <1>0, <2>1
<1>2. CASE poll_results \/ UNCHANGED vars
  BY <1>2 DEF poll_results, vars, request_vars, loop_vars, infer_vars
<1> QED BY <1>1, <1>2 DEF Next

LEMMA FinishedInHandStep == LInv /\ [Next]_vars => FinishedInHand'
<1> SUFFICES ASSUME LInv, [Next]_vars PROVE FinishedInHand'
  OBVIOUS
<1>0. TypeOK /\ RunningOnce /\ Batches /\ FinishedInHand
  BY DEF LInv, CInv, IInv
<1>a. /\ status \in [Requests -> Status] /\ row \in Nat
      /\ finished_requests \in Seq(Requests) /\ batch_to_update \in Seq(Requests)
      /\ inflight_batches \in [Slots -> Seq(Requests)] /\ current_batch_idx \in Slots
  BY <1>0 DEF TypeOK
<1>b. \A i \in DOMAIN batch_to_update : batch_to_update[i] \in Requests /\ i \in Nat
  BY <1>a
<1>1. CASE ~GenerationLoop
  <2>1. /\ UNCHANGED <<pc, batch_to_update, row, finished_requests>>
        /\ \A r \in Requests : status'[r] = "FINISHED" => status[r] = "FINISHED"
    BY <1>0, <1>1, OtherThreads
  <2> QED BY <1>0, <1>b, <2>1 DEF FinishedInHand
<1>2. CASE UpdateSkip \/ UpdateContinue
  <2>1. /\ pc = "update" /\ row' = row + 1
        /\ UNCHANGED <<status, batch_to_update, finished_requests>>
    BY <1>2 DEF UpdateSkip, UpdateContinue, TakesToken, request_vars
  <2>2. ASSUME row \in DOMAIN batch_to_update
        PROVE  status[batch_to_update[row]] = "RUNNING"
    <3>1. batch_to_update[row] \in ToSet(active_requests)
      BY <1>0, <1>a, <2>1, <2>2 DEF Batches
    <3> QED BY <1>0, <1>a, <3>1 DEF RunningOnce, active_requests, ToSet
  <2>3. ASSUME NEW i \in DOMAIN batch_to_update, i < row + 1
        PROVE  i < row \/ status[batch_to_update[i]] = "RUNNING"
    <3>1. i < row \/ i = row
      BY <1>a, <1>b, <2>3
    <3> QED BY <2>2, <3>1
  <2> QED BY <1>0, <2>1, <2>3 DEF FinishedInHand
<1>3. CASE UpdateFinish
  <2>1. /\ pc = "update" /\ row' = row + 1 /\ batch_to_update' = batch_to_update
        /\ current \in Requests /\ \A q \in Requests : q # current => status'[q] = status[q]
    BY <1>0, <1>3, FinishEffect
  <2>2. finished_requests' = Append(finished_requests, current)
    BY <1>3 DEF UpdateFinish
  <2>3. /\ \A j \in DOMAIN finished_requests :
             j \in DOMAIN finished_requests' /\ finished_requests'[j] = finished_requests[j]
        /\ \E j \in DOMAIN finished_requests' : finished_requests'[j] = current
    BY <1>a, <2>1, <2>2, AppendElements
  <2>4. ASSUME NEW i \in DOMAIN batch_to_update, i < row + 1,
               status'[batch_to_update[i]] = "FINISHED"
        PROVE  \E j \in DOMAIN finished_requests' :
                 finished_requests'[j] = batch_to_update[i]
    <3>1. CASE batch_to_update[i] = current
      BY <2>3, <3>1
    <3>2. CASE batch_to_update[i] # current
      <4>1. i # row
        BY <3>2 DEF current
      <4>2. i < row
        BY <1>a, <1>b, <2>4, <4>1
      <4>3. status[batch_to_update[i]] = "FINISHED"
        BY <1>b, <2>1, <2>4, <3>2
      <4>4. PICK j \in DOMAIN finished_requests : finished_requests[j] = batch_to_update[i]
        BY <1>0, <2>1, <4>2, <4>3 DEF FinishedInHand
      <4> QED BY <2>3, <4>4
    <3> QED BY <3>1, <3>2
  <2> QED BY <2>1, <2>4 DEF FinishedInHand
<1>4. CASE Infer
  <2>1. row' = 1 /\ batch_to_update' = batch_to_update
    BY <1>4 DEF Infer
  <2>2. \A i \in DOMAIN batch_to_update : ~(i < 1)
    BY <1>a
  <2> QED BY <2>1, <2>2 DEF FinishedInHand
<1>5. CASE \/ ScheduleBegin \/ SkipPreempted \/ PlanActive \/ ExtendActive
           \/ PreemptVictim \/ PutVictim \/ RetryExtend \/ PlanDone
           \/ AdmitRequest \/ RejectHead \/ Requeue \/ Dispatch
           \/ UpdateRaise \/ UpdateDone
  <2>1. pc' # "update"
    BY <1>5 DEF ScheduleBegin, SkipPreempted, PlanActive, ExtendActive, Extend,
                PreemptVictim, PutVictim, RetryExtend, PlanDone, AdmitRequest, Admitting,
                RejectHead, Requeue, Dispatch, UpdateRaise, UpdateDone
  <2> QED BY <2>1 DEF FinishedInHand
<1> QED BY <1>1, <1>2, <1>3, <1>4, <1>5 DEF GenerationLoop

LEMMA LostUnansweredStep == LInv /\ [Next]_vars => LostUnanswered'
<1> SUFFICES ASSUME LInv, [Next]_vars PROVE LostUnanswered'
  OBVIOUS
<1>0. TypeOK /\ AnsweredOnce /\ FinishedInHand /\ LostUnanswered
  BY DEF LInv, CInv, IInv
<1>a. /\ status \in [Requests -> Status] /\ polled \subseteq Requests
      /\ result_queue \in Seq(Seq(Requests))
  BY <1>0 DEF TypeOK
<1>1. CASE GenerationLoop /\ ~UpdateRaise
  <2>1. pc' # "dead"
    BY <1>1 DEF GenerationLoop, ScheduleBegin, SkipPreempted, PlanActive, ExtendActive,
                Extend, PreemptVictim, PutVictim, RetryExtend, PlanDone, AdmitRequest,
                Admitting, RejectHead, Requeue, Dispatch, Infer, UpdateSkip,
                UpdateContinue, UpdateFinish, UpdateDone, TakesToken
  <2> QED BY <2>1 DEF LostUnanswered, LostByRaise
<1>2. CASE UpdateRaise
  <2>1. /\ UNCHANGED <<status, result_queue, polled, batch_to_update, row>>
        /\ pc = "update"
    BY <1>2 DEF UpdateRaise, TakesToken, request_vars, queue_vars
  <2>2. ASSUME NEW r \in Requests, LostByRaise(r)'
        PROVE  \E j \in DOMAIN finished_requests : finished_requests[j] = r
    <3>1. PICK i \in DOMAIN batch_to_update :
            i < row /\ batch_to_update[i] = r /\ status[r] = "FINISHED"
      BY <2>1, <2>2 DEF LostByRaise
    <3> QED BY <1>0, <2>1, <3>1 DEF FinishedInHand
  <2> QED BY <1>0, <2>1, <2>2 DEF LostUnanswered, AnsweredOnce
<1>3. CASE ~GenerationLoop
  <2>1. \A r \in Requests : LostByRaise(r)' => LostByRaise(r) /\ status[r] = "FINISHED"
    BY <1>0, <1>3, OtherThreads DEF LostByRaise
  <2>2. ASSUME NEW q \in Requests, submit_request(q) PROVE LostUnanswered'
    <3>1. /\ status[q] = "CREATED" /\ polled' = polled
          /\ result_queue' = result_queue \/ result_queue' = Append(result_queue, <<q>>)
      BY <2>2 DEF submit_request
    <3>2. <<q>> \in Seq(Requests) /\ \A i \in DOMAIN <<q>> : <<q>>[i] = q
      OBVIOUS
    <3>3. \A m \in DOMAIN result_queue' :
             \/ m \in DOMAIN result_queue /\ result_queue'[m] = result_queue[m]
             \/ result_queue'[m] = <<q>>
      <4> DEFINE new == <<q>>
      <4>1. new \in Seq(Requests)
        BY <3>2
      <4> HIDE DEF new
      <4>2. \A m \in DOMAIN Append(result_queue, new) :
               \/ m \in DOMAIN result_queue /\ Append(result_queue, new)[m] = result_queue[m]
               \/ Append(result_queue, new)[m] = new
        BY <1>a, <4>1, AppendElements
      <4> QED BY <3>1, <4>2 DEF new
    <3>4. \A r \in Requests : LostByRaise(r)' => r # q
      BY <2>1, <3>1
    <3> QED BY <1>0, <2>1, <3>1, <3>2, <3>3, <3>4 DEF LostUnanswered
  <2>3. CASE poll_results
    <3>1. /\ result_queue # << >>
          /\ polled' = polled \cup ToSet(Head(result_queue))
          /\ result_queue' = Tail(result_queue)
      BY <2>3 DEF poll_results
    <3>2. /\ 1 \in DOMAIN result_queue /\ Head(result_queue) = result_queue[1]
          /\ \A m \in DOMAIN Tail(result_queue) :
               m + 1 \in DOMAIN result_queue /\ Tail(result_queue)[m] = result_queue[m + 1]
      BY <1>a, <3>1, TailElements
    <3>3. ToSet(Head(result_queue)) = {result_queue[1][i] : i \in DOMAIN result_queue[1]}
      BY <3>2 DEF ToSet
    <3> QED BY <1>0, <2>1, <3>1, <3>2, <3>3 DEF LostUnanswered
  <2>4. CASE UNCHANGED vars
    BY <1>0, <2>1, <2>4 DEF vars, queue_vars, LostUnanswered
  <2> QED BY <1>3, <2>2, <2>3, <2>4 DEF Next
<1> QED BY <1>1, <1>2, <1>3

LEMMA LInvHolds == Spec => []LInv
<1>1. Init => FinishedInHand /\ LostUnanswered
  BY DEF Init, FinishedInHand, LostUnanswered, LostByRaise
<1>2. Init => LInv
  BY <1>1, CInvInit DEF LInv
<1>3. LInv /\ [Next]_vars => LInv'
  BY CInvNext, FinishedInHandStep, LostUnansweredStep DEF LInv
<1> QED BY <1>2, <1>3, PTL DEF Spec

\* No request is lost or duplicated between submit_request and poll_results, for
\* any number of requests, slots and queue places, but for those that an update()
\* whose later row raises takes with it: they were finished by its earlier rows,
\* and they are answered never.
THEOREM RequestsPlacedOnce == Spec => []PlacedOnce
<1>1. LInv => PlacedOnce
  BY PlacesGiven DEF LInv, CInv
<1> QED BY <1>1, LInvHolds, PTL

\* When a batch is sent to infer(), every running request owns exactly the blocks
\* that its positions need: _prepare_gen_ctx never indexes past block_ids, and the
\* retry in _extend_or_preempt never fails.
THEOREM BatchesAreCovered == Spec => []BatchCovered
BY CInvHolds, CoveredGiven, PTL

\* A batch that schedule() returns fits the preallocated input buffers and gives
\* every request in it at least one token, although _plan_tokens_for_request gives a
\* decoding request its token without looking at the budget.
THEOREM BatchesFit == Spec => []BatchFits
BY CInvHolds, FitsGiven, PTL

=============================================================================
