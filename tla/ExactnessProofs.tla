-------------------------- MODULE ExactnessProofs --------------------------
(***************************************************************************)
(* The answers of module Scheduler are exact: every request gets the       *)
(* tokens of its own positions, within its limits, and its answer is never *)
(* written again.                                                          *)
(*                                                                         *)
(* Outputs carry no request ids, so the argument is about order: the       *)
(* pipeline holds one output for every busy slot but one, in the order in  *)
(* which the rotation reaches the slots (InPipe).  Hence the output that   *)
(* update() gets is that of its batch (Matched), sampled from a context    *)
(* that is exact because the requests are planned (Progress, of module     *)
(* SchedulerProofs) and their inputs are their own tokens (TokensExact).   *)
(***************************************************************************)
EXTENDS SchedulerProofs

-----------------------------------------------------------------------------
(* The inductive invariant. *)

\* The slot whose batch is not in the pipeline: the one the loop works on, or,
\* while its batch waits for infer(), the one before the rotation.
Base == IF pc = "infer" THEN previous_batch_idx ELSE current_batch_idx

\* How many rotations after b slot k is reached.
Distance(b, k) == IF k > b THEN k - b ELSE k - b + PPSize

\* o is the output of the batch of slot k, for the positions its requests are at.
OutputFor(o, k) ==
  /\ inflight_batches[k] # << >>
  /\ o.configs = inflight_batches[k]
  /\ Len(o.token_ids) = Len(inflight_batches[k])
  /\ \A i \in DOMAIN inflight_batches[k] :
       o.token_ids[i] = TokenAt(inflight_batches[k][i],
                                num_computed_tokens[inflight_batches[k][i]])

\* s[n] is the slot of the n-th output in the pipeline: every busy slot but the
\* base has its output there, in the order in which the rotation reaches it.
PipeSlots(s) ==
  /\ \A n \in DOMAIN pipe : s[n] # Base /\ OutputFor(pipe[n], s[n])
  /\ \A m, n \in DOMAIN pipe : m < n => Distance(Base, s[m]) < Distance(Base, s[n])
  /\ \A k \in Slots : k # Base /\ inflight_batches[k] # << >> =>
       \E n \in DOMAIN pipe : s[n] = k

\* The outputs in the pipeline are those of the busy slots, in order.
InPipe == pc # "dead" => \E s \in [DOMAIN pipe -> Slots] : PipeSlots(s)

\* update() has the output of the batch it updates, row by row.
Matched ==
  pc = "update" =>
    /\ infer_result.configs = batch_to_update
    /\ Len(infer_result.token_ids) = Len(batch_to_update)
    /\ \A i \in DOMAIN batch_to_update :
         infer_result.token_ids[i] =
           TokenAt(batch_to_update[i], num_computed_tokens[batch_to_update[i]])

\* A request that may still get tokens.
Live == {"CREATED", "PENDING", "RUNNING"}

\* A request that goes on has room for another token.
Limits ==
  \A r \in Requests :
    LET n == Len(generated_tokens[r])
    IN  status[r] \in Live /\ n > 0 =>
          /\ n < MaxNewTokens[r]
          /\ r \in DOMAIN MaxLength => PromptLen[r] + n < MaxLength[r]

\* The log-probabilities are those of the generated tokens.
Scored == \A r \in OutputScores : generated_logprobs[r] = generated_tokens[r]

\* The inductive invariant of the answers.
XInv == CInv /\ TokensExact /\ LimitsRespected /\ Limits /\ Matched /\ InPipe

-----------------------------------------------------------------------------
(* Tokens and positions. *)

\* The request that update() gives a token to has computed all the tokens it has.
LEMMA NextPosition ==
  ASSUME CInv, pc = "update", row \in DOMAIN batch_to_update, ~prefilling(current)
  PROVE  /\ current \in Requests /\ status[current] = "RUNNING"
         /\ num_computed_tokens[current] = NumTokens(current)
<1>0. TypeOK /\ RunningOnce /\ Progress /\ Batches
  BY DEF CInv, IInv
<1>1. row \in Nat /\ batch_to_update \in Seq(Requests) /\ row >= row
  BY <1>0 DEF TypeOK
<1>2. current \in ToSet(active_requests)
  BY <1>0, <1>1 DEF Batches, current
<1>3. current \in Requests /\ status[current] = "RUNNING"
  BY <1>0, <1>2, Basics
<1>4. current \notin Unplanned
  BY <1>1 DEF Unplanned, current
<1>5. Planned(current)
  BY <1>0, <1>3, <1>4 DEF Progress
<1>6. /\ num_computed_tokens[current] \in Int /\ Len(input_ids_list[current]) \in Nat
      /\ NumTokens(current) \in Nat
  BY <1>0, <1>3, Numbers
<1> QED BY <1>3, <1>5, <1>6 DEF Planned, prefilling

\* _prepare_gen_ctx feeds a planned request its own tokens at their positions.
LEMMA ContextExact ==
  ASSUME TypeOK, InputKept, TokensExact, NEW r \in Requests, Planned(r)
  PROVE  exact_context(r)
<1>1. /\ num_computed_tokens[r] \in Int /\ tokens_this_step[r] \in Int
      /\ Len(input_ids_list[r]) \in Nat /\ Len(generated_tokens[r]) \in Nat
      /\ PromptLen[r] \in Nat /\ NumTokens(r) = PromptLen[r] + Len(generated_tokens[r])
  BY Numbers DEF NumTokens
<1>2. /\ input_ids_list[r] \in Seq(Token) /\ generated_tokens[r] \in Seq(Token)
      /\ Len(input_ids_list[r]) >= PromptLen[r]
  BY DEF TypeOK, InputKept
<1>3. /\ \A i \in DOMAIN input_ids_list[r] : input_ids_list[r][i] = TokenAt(r, i - 1)
      /\ \A k \in DOMAIN generated_tokens[r] :
           generated_tokens[r][k] = TokenAt(r, PromptLen[r] + k - 1)
  BY DEF TokensExact
<1> DEFINE start == num_computed_tokens[r] - tokens_this_step[r]
<1>4. CASE start < Len(input_ids_list[r])
  <2>1. num_computed_tokens[r] <= Len(input_ids_list[r]) /\ start >= 0
    BY <1>1, <1>4 DEF Planned
  <2>2. ASSUME NEW p \in start .. (num_computed_tokens[r] - 1)
        PROVE  /\ p + 1 \in DOMAIN input_ids_list[r]
               /\ input_ids_list[r][p + 1] = TokenAt(r, p)
    <3>1. p \in Int /\ p + 1 >= 1 /\ p + 1 <= Len(input_ids_list[r]) /\ (p + 1) - 1 = p
      BY <1>1, <2>1
    <3>2. p + 1 \in DOMAIN input_ids_list[r]
      BY <1>1, <1>2, <3>1
    <3> QED BY <1>3, <3>1, <3>2
  <2> QED BY <1>4, <2>2 DEF exact_context
<1>5. CASE ~(start < Len(input_ids_list[r]))
  <2>1. /\ num_computed_tokens[r] = NumTokens(r) /\ Len(generated_tokens[r]) >= 1
    BY <1>1, <1>2, <1>5 DEF Planned
  <2> DEFINE n == Len(generated_tokens[r])
  <2>2. n \in DOMAIN generated_tokens[r] /\ generated_tokens[r] # << >>
    BY <1>1, <1>2, <2>1
  <2>3. generated_tokens[r][n] = TokenAt(r, PromptLen[r] + n - 1)
    BY <1>3, <2>2
  <2>4. PromptLen[r] + n - 1 = num_computed_tokens[r] - 1
    BY <1>1, <2>1
  <2>5. Last(generated_tokens[r]) = generated_tokens[r][n]
    BY DEF Last
  <2> QED BY <1>5, <2>2, <2>3, <2>4, <2>5 DEF exact_context
<1> QED BY <1>4, <1>5

\* preempt() appends to the input the tokens of the positions that follow it.
LEMMA FoldExact ==
  ASSUME TypeOK, InputKept, TokensExact, NEW r \in Requests,
         Len(input_ids_list[r]) <= NumTokens(r)
  PROVE  \A i \in DOMAIN (input_ids_list[r] \o new_tokens(r)) :
           (input_ids_list[r] \o new_tokens(r))[i] = TokenAt(r, i - 1)
<1>1. /\ input_ids_list[r] \in Seq(Token) /\ generated_tokens[r] \in Seq(Token)
      /\ new_tokens(r) \in Seq(Token)
  BY FoldedInput DEF TypeOK
<1>2. /\ Len(input_ids_list[r]) \in Nat /\ Len(generated_tokens[r]) \in Nat
      /\ PromptLen[r] \in Nat /\ NumTokens(r) = PromptLen[r] + Len(generated_tokens[r])
      /\ Len(input_ids_list[r]) >= PromptLen[r]
  BY Numbers DEF NumTokens, InputKept
<1>3. /\ \A i \in DOMAIN input_ids_list[r] : input_ids_list[r][i] = TokenAt(r, i - 1)
      /\ \A k \in DOMAIN generated_tokens[r] :
           generated_tokens[r][k] = TokenAt(r, PromptLen[r] + k - 1)
  BY DEF TokensExact
<1> DEFINE s == input_ids_list[r]
           g == generated_tokens[r]
           f == already_folded(r)
           t == new_tokens(r)
<1>4. f \in Nat /\ f = Len(s) - PromptLen[r] /\ f <= Len(g)
  BY <1>2 DEF already_folded
<1>5. Len(s \o t) = Len(s) + Len(t) /\ Len(t) \in Nat
      /\ Len(s \o t) = PromptLen[r] + Len(g)
  BY <1>1, <1>2, FoldedLength, ConcatProperties, LenProperties
<1>6. ASSUME NEW j \in 1 .. Len(t) PROVE t[j] = TokenAt(r, Len(s) + j - 1)
  <2>0. Len(t) = Len(g) - f
    BY <1>2, <1>4, <1>5
  <2>a. g \in Seq(Token) /\ Len(g) \in Nat /\ f \in Nat /\ Len(s) \in Nat
        /\ PromptLen[r] \in Nat /\ f = Len(s) - PromptLen[r]
    BY <1>1, <1>2, <1>4
  <2>2. t = SubSeq(g, f + 1, Len(g))
    BY DEF new_tokens
  <2>j. Len(t) \in Nat /\ j \in Nat /\ j >= 1 /\ j <= Len(t)
    BY <1>5
  <2> HIDE DEF f, s, g, t
  <2>b. f + j <= Len(g) /\ f + 1 <= Len(g) /\ f + j >= 1
    BY <2>0, <2>a, <2>j
  <2>d. j + (f + 1) - 1 = f + j /\ j <= Len(g) - (f + 1) + 1
    BY <2>0, <2>a, <2>j
  <2>c. PromptLen[r] + (f + j) - 1 = Len(s) + j - 1
    <3>1. \A p, l \in Nat : \A x, y \in Nat : x = l - p => p + (x + y) - 1 = l + y - 1
      OBVIOUS
    <3> QED BY <2>a, <2>j, <3>1
  <2>1. f + j \in 1 .. Len(g) /\ f + 1 \in 1 .. (Len(g) + 1) /\ f + 1 \in Int
    BY <2>a, <2>b, <2>j
  <2>4. SubSeq(g, f + 1, Len(g))[j] = g[f + j]
    <3> DEFINE m == f + 1
    <3>1. m \in 1 .. (Len(g) + 1) /\ Len(g) \in (m - 1) .. Len(g)
      BY <2>1, <2>a
    <3>2. /\ m \in Int /\ Len(g) \in Int
          /\ j \in 1 .. (Len(g) - m + 1) /\ m + j - 1 = f + j
      BY <2>1, <2>a, <2>d, <2>j
    <3>4. \A i \in m .. Len(g) : g[i] \in Token
      BY <2>a, <3>1
    <3> HIDE DEF m
    <3>3. SubSeq(g, m, Len(g))[j] = g[m + j - 1]
      BY <2>a, <3>2, <3>4, SubSeqProperties
    <3> QED BY <3>2, <3>3 DEF m
  <2>5. f + j \in DOMAIN g
    BY <2>1, <2>a
  <2>6. g[f + j] = TokenAt(r, PromptLen[r] + (f + j) - 1)
    BY <1>3, <2>5 DEF g
  <2> QED BY <2>2, <2>4, <2>6, <2>c
<1>7. ASSUME NEW i \in DOMAIN (s \o t) PROVE (s \o t)[i] = TokenAt(r, i - 1)
  <2>1. i \in 1 .. Len(s \o t) /\ i \in Nat
    <3>1. s \o t \in Seq(Token)
      BY <1>1, ConcatProperties
    <3> QED BY <1>7, <3>1
  <2>2. CASE i <= Len(s)
    <3>1. i \in DOMAIN s
      BY <1>1, <1>2, <2>1, <2>2
    <3>2. (s \o t)[i] = s[i]
      BY <1>1, <1>2, <1>5, <2>1, <2>2, ConcatProperties
    <3> QED BY <1>3, <3>1, <3>2
  <2>3. CASE i > Len(s)
    <3> DEFINE j == i - Len(s)
    <3>1. j \in 1 .. Len(t) /\ Len(s) + j - 1 = i - 1
      BY <1>2, <1>5, <2>1, <2>3
    <3>2. (s \o t)[i] = t[j]
      BY <1>1, <1>2, <1>5, <2>1, <2>3, ConcatProperties
    <3> QED BY <1>6, <3>1, <3>2
  <2> QED BY <1>2, <2>1, <2>2, <2>3
<1> QED BY <1>7

\* What update() does when it takes a token.
LEMMA TakeEffect ==
  ASSUME CInv, Matched, UpdateContinue \/ UpdateFinish
  PROVE  /\ pc = "update" /\ row \in DOMAIN batch_to_update /\ ~prefilling(current)
         /\ current \in Requests /\ status[current] = "RUNNING"
         /\ num_computed_tokens[current] = NumTokens(current)
         /\ Len(generated_tokens'[current]) = Len(generated_tokens[current]) + 1
         /\ \A k \in DOMAIN generated_tokens'[current] :
              \/ /\ k \in DOMAIN generated_tokens[current]
                 /\ generated_tokens'[current][k] = generated_tokens[current][k]
              \/ /\ k = Len(generated_tokens[current]) + 1
                 /\ generated_tokens'[current][k] = TokenAt(current, NumTokens(current))
         /\ \A q \in Requests : q # current => generated_tokens'[q] = generated_tokens[q]
         /\ input_ids_list' = input_ids_list /\ num_computed_tokens' = num_computed_tokens
         /\ \A q \in Requests : q # current => status'[q] = status[q]
<1>0. TypeOK /\ RunningOnce
  BY DEF CInv, IInv
<1>1. /\ pc = "update" /\ row \in DOMAIN batch_to_update /\ ~prefilling(current)
      /\ input_ids_list' = input_ids_list /\ num_computed_tokens' = num_computed_tokens
      /\ generated_tokens' =
           [generated_tokens EXCEPT ![current] = Append(@, infer_result.token_ids[row])]
  BY DEF UpdateContinue, UpdateFinish, TakesToken, row_raises, process_generated_token
<1>2. /\ current \in Requests /\ status[current] = "RUNNING"
      /\ num_computed_tokens[current] = NumTokens(current)
  BY <1>1, NextPosition
<1>3. infer_result.token_ids[row] = TokenAt(current, NumTokens(current))
  BY <1>1, <1>2 DEF Matched, current
<1> DEFINE g == generated_tokens[current]
           e == TokenAt(current, NumTokens(current))
<1>4. generated_tokens \in [Requests -> Seq(Token)] /\ g \in Seq(Token)
  BY <1>0, <1>2 DEF TypeOK
<1>5. NumTokens(current) \in Nat
  BY <1>0, <1>2, Numbers
<1>6. e \in Token
  BY <1>2, <1>5 DEF TokenAt, Token
<1>7. generated_tokens'[current] = Append(g, e)
      /\ \A q \in Requests : q # current => generated_tokens'[q] = generated_tokens[q]
  BY <1>1, <1>2, <1>3, <1>4
<1> HIDE DEF g, e
<1>8. /\ Len(Append(g, e)) = Len(g) + 1
      /\ \A k \in DOMAIN Append(g, e) :
           \/ k \in DOMAIN g /\ Append(g, e)[k] = g[k]
           \/ k = Len(g) + 1 /\ Append(g, e)[k] = e
  BY <1>4, <1>6, AppendProperties
<1>9. \A q \in Requests : q # current => status'[q] = status[q]
  <2>1. CASE UpdateContinue
    BY <2>1 DEF UpdateContinue
  <2>2. CASE UpdateFinish
    BY <1>0, <2>2, FinishEffect
  <2> QED BY <2>1, <2>2
<1> QED BY <1>1, <1>2, <1>7, <1>8, <1>9 DEF g, e

\* Every step keeps the tokens at their positions.
LEMMA TokensExactStep == XInv /\ [Next]_vars => TokensExact'
<1> SUFFICES ASSUME XInv, [Next]_vars PROVE TokensExact'
  OBVIOUS
<1>0. /\ CInv /\ IInv /\ TypeOK /\ InputKept /\ RunningOnce /\ Progress /\ TodoKept
      /\ Matched /\ TokensExact
  BY DEF XInv, CInv, IInv
<1> USE DEF request_vars, output_vars, cache_vars, queue_vars, slot_vars, loop_vars, infer_vars
<1>1. ASSUME UNCHANGED <<input_ids_list, generated_tokens>> PROVE TokensExact'
  BY <1>0, <1>1 DEF TokensExact
<1>2. CASE \/ poll_results \/ (\E r \in Requests : submit_request(r)) \/ UNCHANGED vars
  BY <1>1, <1>2 DEF poll_results, submit_request, vars
<1>3. CASE \/ ScheduleBegin \/ SkipPreempted \/ PlanActive \/ ExtendActive \/ RetryExtend
           \/ PlanDone \/ Dispatch
  BY <1>1, <1>3 DEF ScheduleBegin, SkipPreempted, PlanActive, ExtendActive, RetryExtend,
     Extend, PlanDone, Dispatch
<1>4. CASE PutVictim \/ AdmitRequest \/ RejectHead \/ Requeue
  BY <1>1, <1>4 DEF PutVictim, AdmitRequest, RejectHead, Requeue
<1>5. CASE Infer \/ UpdateSkip \/ UpdateRaise \/ UpdateDone
  BY <1>1, <1>5 DEF Infer, UpdateSkip, UpdateRaise, UpdateDone
<1>6. CASE PreemptVictim
  <2>1. PICK i \in DOMAIN active_requests :
          /\ active_requests[i] \in Requests /\ status[active_requests[i]] = "RUNNING"
          /\ pc = "extend"
          /\ input_ids_list'[active_requests[i]]
               = input_ids_list[active_requests[i]] \o new_tokens(active_requests[i])
          /\ \A q \in Requests : q # active_requests[i] =>
               input_ids_list'[q] = input_ids_list[q]
          /\ generated_tokens' = generated_tokens
    BY <1>0, <1>6, PreemptEffect
  <2>v. PICK v : v = active_requests[i]
    OBVIOUS
  <2>2. Len(input_ids_list[v]) <= NumTokens(v)
    BY <1>0, <2>1, <2>v, ActivePlanned
  <2>3. \A j \in DOMAIN (input_ids_list[v] \o new_tokens(v)) :
          (input_ids_list[v] \o new_tokens(v))[j] = TokenAt(v, j - 1)
    BY <1>0, <2>1, <2>2, <2>v, FoldExact
  <2>4. ASSUME NEW q \in Requests
        PROVE  /\ \A j \in DOMAIN input_ids_list'[q] : input_ids_list'[q][j] = TokenAt(q, j - 1)
               /\ \A k \in DOMAIN generated_tokens'[q] :
                    generated_tokens'[q][k] = TokenAt(q, PromptLen[q] + k - 1)
    <3>1. CASE q = v
      BY <1>0, <2>1, <2>3, <2>v, <3>1 DEF TokensExact
    <3>2. CASE q # v
      BY <1>0, <2>1, <2>v, <3>2 DEF TokensExact
    <3> QED BY <3>1, <3>2
  <2> QED BY <2>4 DEF TokensExact
<1>7. CASE UpdateContinue \/ UpdateFinish
  <2>c. PICK c : c = current
    OBVIOUS
  <2>1. /\ c \in Requests
        /\ \A k \in DOMAIN generated_tokens'[c] :
             \/ /\ k \in DOMAIN generated_tokens[c]
                /\ generated_tokens'[c][k] = generated_tokens[c][k]
             \/ /\ k = Len(generated_tokens[c]) + 1
                /\ generated_tokens'[c][k] = TokenAt(c, NumTokens(c))
        /\ \A q \in Requests : q # c => generated_tokens'[q] = generated_tokens[q]
        /\ input_ids_list' = input_ids_list
    BY <1>0, <1>7, <2>c, TakeEffect
  <2>2. /\ Len(generated_tokens[c]) \in Nat /\ PromptLen[c] \in Nat
    BY <1>0, <2>1, Numbers
  <2>3. PromptLen[c] + (Len(generated_tokens[c]) + 1) - 1 = NumTokens(c)
    BY <2>2 DEF NumTokens
  <2>4. ASSUME NEW k \in DOMAIN generated_tokens'[c]
        PROVE  generated_tokens'[c][k] = TokenAt(c, PromptLen[c] + k - 1)
    BY <1>0, <2>1, <2>3 DEF TokensExact
  <2>5. ASSUME NEW q \in Requests
        PROVE  /\ \A j \in DOMAIN input_ids_list'[q] : input_ids_list'[q][j] = TokenAt(q, j - 1)
               /\ \A k \in DOMAIN generated_tokens'[q] :
                    generated_tokens'[q][k] = TokenAt(q, PromptLen[q] + k - 1)
    <3>1. CASE q = c
      BY <1>0, <2>1, <2>4, <3>1 DEF TokensExact
    <3>2. CASE q # c
      BY <1>0, <2>1, <3>2 DEF TokensExact
    <3> QED BY <3>1, <3>2
  <2> QED BY <2>5 DEF TokensExact
<1> QED BY <1>2, <1>3, <1>4, <1>5, <1>6, <1>7 DEF Next, GenerationLoop

\* Every step keeps the limits.
LEMMA LimitsStep == XInv /\ [Next]_vars => LimitsRespected' /\ Limits'
<1> SUFFICES ASSUME XInv, [Next]_vars PROVE LimitsRespected' /\ Limits'
  OBVIOUS
<1>0. /\ CInv /\ IInv /\ TypeOK /\ InputKept /\ WaitingOnce /\ RunningOnce
      /\ Matched /\ LimitsRespected /\ Limits
  BY DEF XInv, CInv, IInv
<1> USE DEF request_vars, output_vars, cache_vars, queue_vars, slot_vars, loop_vars, infer_vars
<1> DEFINE Answer(r, n) ==
             /\ n <= Max({1, MaxNewTokens[r]})
             /\ r \in DOMAIN MaxLength => n <= Max({1, MaxLength[r] - PromptLen[r]})
           Full(r, n) ==
             \/ n >= MaxNewTokens[r]
             \/ r \in DOMAIN MaxLength /\ n >= MaxLength[r] - PromptLen[r]
           Room(r, n) ==
             /\ n < MaxNewTokens[r]
             /\ r \in DOMAIN MaxLength => PromptLen[r] + n < MaxLength[r]
<1>1. \A r \in Requests :
        /\ Answer(r, Len(generated_tokens[r]))
        /\ status[r] = "FINISHED" /\ r \notin EosRequests => Full(r, Len(generated_tokens[r]))
        /\ status[r] \in Live /\ Len(generated_tokens[r]) > 0 =>
             Room(r, Len(generated_tokens[r]))
  BY <1>0 DEF LimitsRespected, Limits, is_finished
<1>2. ASSUME \A r \in Requests :
        /\ Answer(r, Len(generated_tokens'[r]))
        /\ status'[r] = "FINISHED" /\ r \notin EosRequests => Full(r, Len(generated_tokens'[r]))
        /\ status'[r] \in Live /\ Len(generated_tokens'[r]) > 0 =>
             Room(r, Len(generated_tokens'[r]))
      PROVE  LimitsRespected' /\ Limits'
  BY <1>2 DEF LimitsRespected, Limits, is_finished
<1> HIDE DEF Answer, Full, Room
<1>3. ASSUME generated_tokens' = generated_tokens,
             \A r \in Requests : /\ status'[r] = "FINISHED" => status[r] = "FINISHED"
                                 /\ status'[r] \in Live => status[r] \in Live
      PROVE  LimitsRespected' /\ Limits'
  BY <1>1, <1>2, <1>3
<1>4. ASSUME UNCHANGED <<status, generated_tokens>> PROVE LimitsRespected' /\ Limits'
  BY <1>3, <1>4
<1>5. CASE poll_results \/ UNCHANGED vars
  BY <1>4, <1>5 DEF poll_results, vars
<1>6. CASE \E r \in Requests : submit_request(r)
  <2>1. PICK r \in Requests : submit_request(r)
    BY <1>6
  <2>2. status[r] = "CREATED" /\ generated_tokens' = generated_tokens
        /\ \E s \in {"PENDING", "FAILED"} : status' = [status EXCEPT ![r] = s]
    BY <2>1 DEF submit_request
  <2>3. ASSUME NEW q \in Requests
        PROVE  /\ status'[q] = "FINISHED" => status[q] = "FINISHED"
               /\ status'[q] \in Live => status[q] \in Live
    BY <1>0, <2>2 DEF TypeOK, Live
  <2> QED BY <1>3, <2>2, <2>3
<1>7. CASE \/ ScheduleBegin \/ SkipPreempted \/ PlanActive \/ ExtendActive \/ RetryExtend
           \/ PlanDone \/ Dispatch
  BY <1>4, <1>7 DEF ScheduleBegin, SkipPreempted, PlanActive, ExtendActive, RetryExtend,
     Extend, PlanDone, Dispatch
<1>8. CASE PutVictim \/ RejectHead \/ Requeue
  BY <1>4, <1>8 DEF PutVictim, RejectHead, Requeue
<1>9. CASE Infer \/ UpdateSkip \/ UpdateRaise \/ UpdateDone
  BY <1>4, <1>9 DEF Infer, UpdateSkip, UpdateRaise, UpdateDone
<1>10. CASE AdmitRequest
  <2>h. PICK h : h = Head(request_queue)
    OBVIOUS
  <2>1. /\ h \in Requests /\ status[h] = "PENDING" /\ status'[h] = "RUNNING"
        /\ \A q \in Requests : q # h => status'[q] = status[q]
        /\ generated_tokens' = generated_tokens
    BY <1>0, <1>10, <2>h, AdmitEffect
  <2>2. ASSUME NEW q \in Requests
        PROVE  /\ status'[q] = "FINISHED" => status[q] = "FINISHED"
               /\ status'[q] \in Live => status[q] \in Live
    BY <2>1 DEF Live
  <2> QED BY <1>3, <2>1, <2>2
<1>11. CASE PreemptVictim
  <2>1. PICK i \in DOMAIN active_requests :
          /\ active_requests[i] \in Requests /\ status[active_requests[i]] = "RUNNING"
          /\ status'[active_requests[i]] = "PENDING"
          /\ \A q \in Requests : q # active_requests[i] => status'[q] = status[q]
          /\ generated_tokens' = generated_tokens
    BY <1>0, <1>11, PreemptEffect
  <2>2. ASSUME NEW q \in Requests
        PROVE  /\ status'[q] = "FINISHED" => status[q] = "FINISHED"
               /\ status'[q] \in Live => status[q] \in Live
    BY <2>1 DEF Live
  <2> QED BY <1>3, <2>1, <2>2
<1>12. CASE UpdateContinue \/ UpdateFinish
  <2>c. PICK c : c = current
    OBVIOUS
  <2>1. /\ c \in Requests /\ status[c] = "RUNNING"
        /\ num_computed_tokens[c] = NumTokens(c)
        /\ Len(generated_tokens'[c]) = Len(generated_tokens[c]) + 1
        /\ \A q \in Requests : q # c =>
             generated_tokens'[q] = generated_tokens[q] /\ status'[q] = status[q]
    BY <1>0, <1>12, <2>c, TakeEffect
  <2> DEFINE n == Len(generated_tokens[c])
  <2>2. /\ n \in Nat /\ PromptLen[c] \in Nat /\ MaxNewTokens[c] \in Nat
        /\ c \in DOMAIN MaxLength => MaxLength[c] \in Nat
    BY <1>0, <2>1, Numbers, RequestAssumption
  <2>3. num_computed_tokens[c] = PromptLen[c] + n
    BY <2>1 DEF NumTokens
  <2>4. n > 0 => Room(c, n)
    BY <1>1, <2>1 DEF Live
  <2> HIDE DEF n
  <2>5. Answer(c, n + 1)
    <3>1. n + 1 <= Max({1, MaxNewTokens[c]})
      <4> DEFINE m == MaxNewTokens[c]
      <4>0. m \in Int
        BY <2>2
      <4>1. n = 0 \/ n < m
        BY <2>2, <2>4 DEF Room
      <4> HIDE DEF m
      <4>2. Max({1, m}) \in Int /\ Max({1, m}) >= 1 /\ Max({1, m}) >= m
        BY <4>0, MaxPair
      <4>3. n + 1 <= Max({1, m})
        BY <2>2, <4>0, <4>1, <4>2
      <4> QED BY <4>3 DEF m
    <3>2. ASSUME c \in DOMAIN MaxLength
          PROVE  n + 1 <= Max({1, MaxLength[c] - PromptLen[c]})
      <4> DEFINE left == MaxLength[c] - PromptLen[c]
      <4>0. left \in Int
        BY <2>2, <3>2
      <4>1. n = 0 \/ n < left
        BY <2>2, <2>4, <3>2 DEF Room
      <4> HIDE DEF left
      <4>2. Max({1, left}) \in Int /\ Max({1, left}) >= 1 /\ Max({1, left}) >= left
        BY <4>0, MaxPair
      <4>3. n + 1 <= Max({1, left})
        BY <2>2, <4>0, <4>1, <4>2
      <4> QED BY <4>3 DEF left
    <3> QED BY <3>1, <3>2 DEF Answer
  <2>6. status'[c] = "FINISHED" /\ c \notin EosRequests => Full(c, n + 1)
    <3>1. CASE UpdateContinue
      BY <2>1, <3>1 DEF UpdateContinue
    <3>2. CASE UpdateFinish
      <4> SUFFICES ASSUME c \notin EosRequests PROVE Full(c, n + 1)
        OBVIOUS
      <4>1. PICK eos \in BOOLEAN : FinishesNow(c, eos)
        BY <2>c, <3>2 DEF UpdateFinish
      <4>2. should_finish(c, FALSE, n + 1)
        BY <4>1 DEF FinishesNow, should_finish, n
      <4> QED BY <2>2, <2>3, <4>2 DEF should_finish, Full
    <3> QED BY <1>12, <3>1, <3>2
  <2>7. status'[c] \in Live => Room(c, n + 1)
    <3>1. CASE UpdateFinish
      <4>1. status'[c] = "FINISHED"
        BY <1>0, <2>c, <3>1, FinishEffect
      <4> QED BY <4>1 DEF Live
    <3>2. CASE UpdateContinue
      <4>1. ~should_finish(c, FALSE, n + 1)
        BY <2>c, <3>2 DEF UpdateContinue, FinishesNow, n
      <4> QED BY <2>2, <2>3, <4>1 DEF should_finish, Room
    <3> QED BY <1>12, <3>1, <3>2
  <2>8. ASSUME NEW r \in Requests
        PROVE  /\ Answer(r, Len(generated_tokens'[r]))
               /\ status'[r] = "FINISHED" /\ r \notin EosRequests =>
                    Full(r, Len(generated_tokens'[r]))
               /\ status'[r] \in Live /\ Len(generated_tokens'[r]) > 0 =>
                    Room(r, Len(generated_tokens'[r]))
    <3>1. CASE r = c
      BY <2>1, <2>5, <2>6, <2>7, <3>1 DEF n
    <3>2. CASE r # c
      BY <1>1, <2>1, <3>2
    <3> QED BY <3>1, <3>2
  <2> QED BY <1>2, <2>8
<1> QED BY <1>5, <1>6, <1>7, <1>8, <1>9, <1>10, <1>11, <1>12 DEF Next, GenerationLoop

-----------------------------------------------------------------------------
(* Outputs and slots. *)

\* The slots before and after the rotation.
LEMMA Rotation ==
  ASSUME TypeOK
  PROVE  /\ previous_batch_idx \in Slots /\ current_batch_idx \in Slots
         /\ PPSize = 1 => previous_batch_idx = current_batch_idx
         /\ PPSize > 1 => previous_batch_idx # current_batch_idx
         /\ current_batch_idx =
              IF previous_batch_idx = PPSize - 1 THEN 0 ELSE previous_batch_idx + 1
<1>1. current_batch_idx \in Slots
  BY DEF TypeOK
<1> QED BY <1>1, SchedulerAssumption DEF previous_batch_idx, Slots

\* The rotation brings every other slot one step closer.
LEMMA DistanceFacts ==
  ASSUME NEW b \in Slots, NEW c \in Slots, c = IF b = PPSize - 1 THEN 0 ELSE b + 1
  PROVE  /\ \A k \in Slots : /\ Distance(b, k) \in Int /\ Distance(c, k) \in Int
                             /\ Distance(b, k) >= 1
                             /\ k # b => Distance(b, k) < PPSize
                             /\ k # c => Distance(c, k) = Distance(b, k) - 1
         /\ Distance(b, b) = PPSize /\ Distance(b, c) = 1
BY SchedulerAssumption DEF Distance, Slots

\* The output of a slot's batch is sampled at the positions of its requests.
LEMMA OutputExact ==
  ASSUME CInv, TokensExact, pc = "infer", NEW k \in Slots
  PROVE  LET batch == inflight_batches[k]
             o     == output_of(batch)
         IN  /\ o.configs = batch
             /\ Len(o.token_ids) = Len(batch)
             /\ \A i \in DOMAIN batch :
                  o.token_ids[i] = TokenAt(batch[i], num_computed_tokens[batch[i]])
<1>0. TypeOK /\ InputKept /\ RunningOnce /\ Progress
  BY DEF CInv, IInv
<1> DEFINE batch == inflight_batches[k]
<1>1. batch \in Seq(Requests) /\ \A i \in DOMAIN batch :
        batch[i] \in Requests /\ status[batch[i]] = "RUNNING"
  <2>1. batch \in Seq(Requests) /\ \A r \in ToSet(batch) : r \in Requests /\ status[r] = "RUNNING"
    BY <1>0, Basics
  <2> QED BY <2>1, ToSetFacts
<1> HIDE DEF batch
<1>2. ASSUME NEW i \in DOMAIN batch
      PROVE  sampled(batch[i]) = TokenAt(batch[i], num_computed_tokens[batch[i]])
  <2>1. batch[i] \notin Unplanned
    BY DEF Unplanned
  <2>2. Planned(batch[i])
    BY <1>0, <1>1, <2>1 DEF Progress
  <2>3. exact_context(batch[i])
    BY <1>0, <1>1, <2>2, ContextExact
  <2> QED BY <2>3 DEF sampled
<1> DEFINE ids == [i \in DOMAIN batch |-> sampled(batch[i])]
<1>3. output_of(batch).configs = batch /\ output_of(batch).token_ids = ids
  BY DEF output_of
<1>4. \A i \in DOMAIN batch : ids[i] = sampled(batch[i])
  OBVIOUS
<1>5. DOMAIN ids = 1 .. Len(batch) /\ Len(batch) \in Nat
  BY <1>1
<1>6. Len(ids) = Len(batch)
  BY <1>5
<1> HIDE DEF ids
<1> QED BY <1>2, <1>3, <1>4, <1>6 DEF batch

\* The oldest output is the one of the slot rotated to.
LEMMA HeadOfPipe ==
  ASSUME TypeOK, Batches, pc = "infer", PPSize > 1,
         NEW s \in [DOMAIN pipe -> Slots], PipeSlots(s)
  PROVE  batch_to_update # << >> =>
           /\ pipe # << >> /\ 1 \in DOMAIN pipe /\ s[1] = current_batch_idx
           /\ pipe[1] = Head(pipe) /\ OutputFor(Head(pipe), current_batch_idx)
<1> SUFFICES ASSUME batch_to_update # << >>
             PROVE  /\ pipe # << >> /\ 1 \in DOMAIN pipe /\ s[1] = current_batch_idx
                    /\ pipe[1] = Head(pipe) /\ OutputFor(Head(pipe), current_batch_idx)
  OBVIOUS
<1> DEFINE b == previous_batch_idx
           c == current_batch_idx
<1>1. b \in Slots /\ c \in Slots /\ b # c /\ c = IF b = PPSize - 1 THEN 0 ELSE b + 1
  BY Rotation
<1>2. Base = b
  BY DEF Base
<1>3. inflight_batches[c] # << >>
  BY DEF Batches
<1> HIDE DEF b, c
<1>4. PICK n \in DOMAIN pipe : s[n] = c
  BY <1>1, <1>2, <1>3 DEF PipeSlots
<1>5. pipe \in Seq(InferencerOutput)
  BY DEF TypeOK
<1>6. n \in Nat /\ n >= 1 /\ 1 \in DOMAIN pipe /\ pipe # << >> /\ pipe[1] = Head(pipe)
  BY <1>4, <1>5
<1>7. ASSUME 1 < n PROVE FALSE
  <2>1. Distance(b, s[1]) < Distance(b, c)
    BY <1>2, <1>4, <1>6, <1>7 DEF PipeSlots
  <2>2. s[1] \in Slots
    BY <1>6
  <2>3. Distance(b, c) = 1 /\ Distance(b, s[1]) >= 1 /\ Distance(b, s[1]) \in Int
    BY <1>1, <2>2, DistanceFacts
  <2> QED BY <2>1, <2>3
<1>8. n = 1
  BY <1>6, <1>7
<1>9. OutputFor(pipe[1], c)
  BY <1>4, <1>8 DEF PipeSlots
<1> QED BY <1>4, <1>6, <1>8, <1>9 DEF c

\* What the invariant says of the oldest output.
LEMMA AlignedGiven == XInv => OutputsAligned
<1> SUFFICES ASSUME XInv, pc = "infer", PPSize > 1, batch_to_update # << >>
             PROVE  /\ pipe # << >>
                    /\ Head(pipe).configs = batch_to_update
                    /\ \A i \in DOMAIN batch_to_update :
                         Head(pipe).token_ids[i] =
                           TokenAt(batch_to_update[i], num_computed_tokens[batch_to_update[i]])
  BY DEF OutputsAligned
<1>0. TypeOK /\ Batches /\ InPipe
  BY DEF XInv, CInv, IInv
<1>1. PICK s \in [DOMAIN pipe -> Slots] : PipeSlots(s)
  BY <1>0 DEF InPipe
<1>2. pipe # << >> /\ OutputFor(Head(pipe), current_batch_idx)
  BY <1>0, <1>1, HeadOfPipe
<1>3. batch_to_update = inflight_batches[current_batch_idx]
  BY <1>0 DEF Batches
<1> QED BY <1>2, <1>3 DEF OutputFor

\* Every step keeps the output and its batch together.
LEMMA MatchedStep == XInv /\ [Next]_vars => Matched'
<1> SUFFICES ASSUME XInv, [Next]_vars PROVE Matched'
  OBVIOUS
<1>0. /\ CInv /\ TypeOK /\ RunningOnce /\ Batches /\ Matched /\ InPipe /\ TokensExact
  BY DEF XInv, CInv, IInv
<1> USE DEF request_vars, output_vars, cache_vars, queue_vars, slot_vars, loop_vars, infer_vars
<1>1. ASSUME UNCHANGED <<pc, infer_result, batch_to_update, num_computed_tokens>>
      PROVE  Matched'
  BY <1>0, <1>1 DEF Matched
<1>2. pc' # "update" => Matched'
  BY DEF Matched
<1>3. CASE \/ poll_results \/ (\E r \in Requests : submit_request(r)) \/ UNCHANGED vars
  BY <1>1, <1>3 DEF poll_results, submit_request, vars
<1>4. CASE \/ ScheduleBegin \/ SkipPreempted \/ PlanActive \/ ExtendActive \/ RetryExtend
           \/ PlanDone \/ Dispatch
  BY <1>2, <1>4 DEF ScheduleBegin, SkipPreempted, PlanActive, ExtendActive, RetryExtend,
     Extend, PlanDone, Dispatch
<1>5. CASE \/ PreemptVictim \/ PutVictim \/ AdmitRequest \/ RejectHead \/ Requeue
           \/ UpdateRaise \/ UpdateDone
  BY <1>2, <1>5 DEF PreemptVictim, PutVictim, AdmitRequest, RejectHead, Requeue,
     UpdateRaise, UpdateDone, Admitting
<1>6. CASE UpdateSkip \/ UpdateContinue \/ UpdateFinish
  BY <1>1, <1>6 DEF UpdateSkip, UpdateContinue, UpdateFinish, TakesToken
<1>7. CASE Infer
  <2>1. /\ pc = "infer" /\ batch_to_update' = batch_to_update
        /\ num_computed_tokens' = num_computed_tokens
    BY <1>7 DEF Infer
  <2>2. /\ batch_to_infer = inflight_batches[previous_batch_idx]
        /\ batch_to_update = inflight_batches[current_batch_idx]
    BY <1>0, <2>1 DEF Batches
  <2>3. CASE PPSize = 1
    <3>1. current_batch_idx \in Slots /\ batch_to_infer = inflight_batches[current_batch_idx]
      BY <1>0, <2>2, <2>3, Rotation
    <3>2. infer_result' = output_of(inflight_batches[current_batch_idx])
      BY <1>7, <2>3, <3>1 DEF Infer
    <3>3. /\ infer_result'.configs = batch_to_update
          /\ Len(infer_result'.token_ids) = Len(batch_to_update)
          /\ \A i \in DOMAIN batch_to_update :
               infer_result'.token_ids[i] =
                 TokenAt(batch_to_update[i], num_computed_tokens[batch_to_update[i]])
      BY <1>0, <2>1, <2>2, <3>1, <3>2, OutputExact
    <3> QED BY <2>1, <3>3 DEF Matched
  <2>4. CASE PPSize # 1 /\ batch_to_update # << >>
    <3>1. PPSize > 1
      BY <2>4, SchedulerAssumption
    <3>2. PICK s \in [DOMAIN pipe -> Slots] : PipeSlots(s)
      BY <1>0, <2>1 DEF InPipe
    <3>3. OutputFor(Head(pipe), current_batch_idx)
      BY <1>0, <2>1, <2>4, <3>1, <3>2, HeadOfPipe
    <3>4. infer_result' = Head(pipe)
      BY <1>7, <2>4 DEF Infer
    <3> QED BY <2>1, <2>2, <3>3, <3>4 DEF Matched, OutputFor
  <2>5. CASE PPSize # 1 /\ batch_to_update = << >>
    BY <1>2, <1>7, <2>5 DEF Infer
  <2> QED BY <2>3, <2>4, <2>5
<1> QED BY <1>3, <1>4, <1>5, <1>6, <1>7 DEF Next, GenerationLoop

\* A step that leaves the pipeline and the other slots alone keeps their order.
LEMMA PipeKept ==
  ASSUME InPipe, pc # "dead", pipe' = pipe, Base' = Base,
         \A k \in Slots : k # Base =>
           /\ inflight_batches'[k] = inflight_batches[k]
           /\ \A i \in DOMAIN inflight_batches[k] :
                num_computed_tokens'[inflight_batches[k][i]]
                  = num_computed_tokens[inflight_batches[k][i]]
  PROVE  InPipe'
<1>1. PICK s \in [DOMAIN pipe -> Slots] : PipeSlots(s)
  BY DEF InPipe
<1>2. ASSUME NEW n \in DOMAIN pipe PROVE OutputFor(pipe[n], s[n])'
  <2>1. s[n] \in Slots /\ s[n] # Base /\ OutputFor(pipe[n], s[n])
    BY <1>1 DEF PipeSlots
  <2> QED BY <2>1 DEF OutputFor
<1>3. PipeSlots(s)'
  BY <1>1, <1>2 DEF PipeSlots
<1> QED BY <1>1, <1>3 DEF InPipe

\* So does a step on one request of the current slot.
LEMMA OthersKept ==
  ASSUME TypeOK, RunningOnce, InPipe, pc # "dead", pipe' = pipe,
         pc # "infer", pc' # "infer", current_batch_idx' = current_batch_idx,
         \A k \in Slots : k # current_batch_idx => inflight_batches'[k] = inflight_batches[k],
         NEW r, \A k \in Slots : k # current_batch_idx => r \notin ToSet(inflight_batches[k]),
         \A q \in Requests : q # r => num_computed_tokens'[q] = num_computed_tokens[q]
  PROVE  InPipe'
<1>1. Base = current_batch_idx /\ Base' = Base
  BY DEF Base
<1>2. ASSUME NEW k \in Slots, k # Base, NEW i \in DOMAIN inflight_batches[k]
      PROVE  num_computed_tokens'[inflight_batches[k][i]]
               = num_computed_tokens[inflight_batches[k][i]]
  <2>1. inflight_batches[k] \in Seq(Requests)
    BY DEF TypeOK
  <2>2. inflight_batches[k][i] \in ToSet(inflight_batches[k]) /\ inflight_batches[k][i] \in Requests
    BY <1>2, <2>1, ToSetFacts
  <2> QED BY <1>1, <1>2, <2>2
<1> QED BY <1>1, <1>2, PipeKept

\* infer() takes the oldest output and appends the newest.
LEMMA InferKeepsPipe ==
  ASSUME CInv, TokensExact, InPipe, Infer
  PROVE  InPipe'
<1>0. TypeOK /\ RunningOnce /\ Batches
  BY DEF CInv, IInv
<1>1. /\ pc = "infer" /\ pc' # "infer" /\ current_batch_idx' = current_batch_idx
      /\ inflight_batches' = inflight_batches /\ num_computed_tokens' = num_computed_tokens
  BY DEF Infer, slot_vars, request_vars
<1>b. PICK b : b = previous_batch_idx
  OBVIOUS
<1>c. PICK c : c = current_batch_idx
  OBVIOUS
<1>2. /\ b \in Slots /\ c \in Slots /\ c = IF b = PPSize - 1 THEN 0 ELSE b + 1
      /\ PPSize > 1 => b # c
  BY <1>0, <1>b, <1>c, Rotation
<1>3. Base = b /\ Base' = c
  BY <1>1, <1>b, <1>c DEF Base
<1>4. batch_to_infer = inflight_batches[b] /\ batch_to_update = inflight_batches[c]
  BY <1>0, <1>1, <1>b, <1>c DEF Batches
<1>5. PICK s \in [DOMAIN pipe -> Slots] : PipeSlots(s)
  BY <1>1 DEF InPipe
<1>6. pipe \in Seq(InferencerOutput)
  BY <1>0 DEF TypeOK
<1>7. ASSUME NEW o, NEW k PROVE OutputFor(o, k)' <=> OutputFor(o, k)
  BY <1>1 DEF OutputFor
<1>8. CASE PPSize = 1
  <2>1. pipe' = pipe
    BY <1>8 DEF Infer
  <2>2. \A k \in Slots : k = b /\ k = c
    BY <1>2, <1>8 DEF Slots
  <2>3. \A n \in DOMAIN pipe : FALSE
    BY <1>3, <1>5, <2>2 DEF PipeSlots
  <2>4. PipeSlots(s)'
    BY <1>3, <2>1, <2>2, <2>3 DEF PipeSlots
  <2> QED BY <1>5, <2>1, <2>4 DEF InPipe
<1>9. CASE PPSize # 1
  <2>1. PPSize > 1 /\ b # c
    BY <1>2, <1>9, SchedulerAssumption
  <2>2. batch_to_update # << >> =>
          /\ pipe # << >> /\ 1 \in DOMAIN pipe /\ s[1] = c /\ pipe[1] = Head(pipe)
    BY <1>0, <1>1, <1>5, <1>c, <2>1, HeadOfPipe
  <2> DEFINE tl == IF batch_to_update # << >> THEN Tail(pipe) ELSE pipe
             ad == IF batch_to_infer # << >> THEN <<output_of(batch_to_infer)>> ELSE << >>
             d == IF batch_to_update # << >> THEN 1 ELSE 0
  <2>3. pipe' = tl \o ad
    BY <1>9 DEF Infer
  <2>4. /\ tl \in Seq(InferencerOutput) /\ d \in Nat /\ Len(pipe) \in Nat /\ Len(pipe) >= d
        /\ Len(tl) = Len(pipe) - d /\ Len(tl) \in Nat
        /\ \A n \in 1 .. Len(tl) : n + d \in DOMAIN pipe /\ tl[n] = pipe[n + d]
    <3>1. CASE batch_to_update = << >>
      BY <1>6, <3>1
    <3>2. CASE batch_to_update # << >>
      <4>0. pipe # << >>
        BY <2>2, <3>2
      <4> DEFINE q == Tail(pipe)
      <4>1. tl = q /\ d = 1
        BY <3>2
      <4>2. /\ q \in Seq(InferencerOutput) /\ Len(q) = Len(pipe) - 1
            /\ Len(pipe) \in Nat /\ Len(pipe) >= 1
            /\ \A n \in 1 .. Len(q) : q[n] = pipe[n + 1]
        BY <1>6, <4>0, HeadTailProperties
      <4> HIDE DEF q
      <4>3. Len(q) \in Nat /\ \A n \in 1 .. Len(q) : n + 1 \in DOMAIN pipe
        BY <1>6, <4>2
      <4> QED BY <4>1, <4>2, <4>3
    <3> QED BY <3>1, <3>2
  <2>5. batch_to_infer # << >> => ad \in Seq(InferencerOutput) /\ Len(ad) = 1
                                  /\ ad[1] = output_of(batch_to_infer)
    <3>1. batch_to_infer \in Seq(Requests)
      BY <1>0 DEF TypeOK
    <3>2. output_of(batch_to_infer) \in InferencerOutput
      BY <1>0, <3>1, OutputType
    <3> QED BY <3>2
  <2>6. batch_to_infer = << >> => ad = << >>
    OBVIOUS
  <2> DEFINE more == IF batch_to_infer # << >> THEN 1 ELSE 0
             m == Len(tl)
  <2>7. /\ DOMAIN pipe' = 1 .. (m + more) /\ m \in Nat /\ more \in Nat
        /\ \A n \in 1 .. m : pipe'[n] = tl[n]
        /\ batch_to_infer # << >> => m + 1 \in DOMAIN pipe'
                                     /\ pipe'[m + 1] = output_of(batch_to_infer)
        /\ \A n \in 1 .. (m + more) : n <= m \/ (n = m + 1 /\ batch_to_infer # << >>)
    <3>1. CASE batch_to_infer = << >>
      <4> HIDE DEF tl, ad
      <4>1. pipe' = tl
        BY <2>3, <2>4, <2>6, <3>1, ConcatEmptySeq
      <4> QED BY <2>4, <3>1, <4>1
    <3>2. CASE batch_to_infer # << >>
      <4> HIDE DEF tl, ad
      <4>0. /\ tl \o ad \in Seq(InferencerOutput) /\ Len(tl \o ad) = Len(tl) + Len(ad)
            /\ \A n \in 1 .. Len(tl) + Len(ad) :
                 (tl \o ad)[n] = IF n <= Len(tl) THEN tl[n] ELSE ad[n - Len(tl)]
        BY <2>4, <2>5, <3>2, ConcatProperties
      <4>1. /\ pipe' \in Seq(InferencerOutput) /\ Len(pipe') = Len(tl) + 1
            /\ \A n \in 1 .. Len(tl) + 1 :
                 pipe'[n] = IF n <= Len(tl) THEN tl[n] ELSE ad[n - Len(tl)]
        BY <2>3, <2>5, <3>2, <4>0
      <4>2. Len(tl) \in Nat /\ more = 1 /\ (Len(tl) + 1) - Len(tl) = 1
        BY <2>4, <3>2
      <4>3. \A n \in 1 .. Len(tl) : pipe'[n] = tl[n]
        BY <4>1, <4>2
      <4>4. pipe'[Len(tl) + 1] = ad[1]
        BY <4>1, <4>2
      <4>5. DOMAIN pipe' = 1 .. (Len(tl) + 1)
        BY <4>1
      <4>6. \A n \in 1 .. (Len(tl) + 1) : n <= Len(tl) \/ n = Len(tl) + 1
        BY <4>2
      <4>7. Len(tl) + 1 \in 1 .. (Len(tl) + 1)
        BY <4>2
      <4> QED BY <2>5, <3>2, <4>2, <4>3, <4>4, <4>5, <4>6, <4>7
    <3> QED BY <3>1, <3>2
  <2> HIDE DEF tl, ad, m, more
  <2>8. \A n \in 1 .. m : n + d \in DOMAIN pipe /\ pipe'[n] = pipe[n + d] /\ n \in Nat
    BY <2>4, <2>7 DEF m
  <2>t. PICK t : t = [n \in DOMAIN pipe' |-> IF n <= m THEN s[n + d] ELSE b]
    OBVIOUS
  <2>9. /\ \A n \in 1 .. m : n \in DOMAIN pipe' /\ t[n] = s[n + d]
        /\ batch_to_infer # << >> => t[m + 1] = b
    <3>1. \A n \in 1 .. m : n \in DOMAIN pipe'
      BY <2>7
    <3>2. m + 1 \in DOMAIN pipe' => ~(m + 1 <= m)
      BY <2>7
    <3> QED BY <2>7, <2>t, <3>1, <3>2
  <2>10. t \in [DOMAIN pipe' -> Slots]
    <3>1. ASSUME NEW n \in DOMAIN pipe' PROVE (IF n <= m THEN s[n + d] ELSE b) \in Slots
      <4>1. n \in 1 .. m \/ ~(n <= m)
        BY <2>7
      <4> QED BY <1>2, <1>5, <2>8, <4>1
    <3> QED BY <2>t, <3>1
  <2>11. \A n \in 1 .. m : s[n + d] \in Slots /\ s[n + d] # b /\ OutputFor(pipe[n + d], s[n + d])
    BY <1>3, <1>5, <2>8 DEF PipeSlots
  <2>12. ASSUME NEW n \in 1 .. m PROVE s[n + d] # c
    <3>1. CASE batch_to_update = << >>
      BY <1>4, <2>11, <3>1 DEF OutputFor
    <3>2. CASE batch_to_update # << >>
      <4>1. 1 < n + d /\ n + d \in DOMAIN pipe /\ 1 \in DOMAIN pipe /\ s[1] = c
        BY <2>2, <2>8, <3>2
      <4>2. Distance(b, c) < Distance(b, s[n + d])
        BY <1>3, <1>5, <4>1 DEF PipeSlots
      <4>3. Distance(b, c) \in Int
        BY <1>2, DistanceFacts
      <4> QED BY <4>2, <4>3
    <3> QED BY <3>1, <3>2
  <2>13. ASSUME NEW n \in DOMAIN pipe' PROVE t[n] # c /\ OutputFor(pipe'[n], t[n])
    <3>1. CASE n \in 1 .. m
      BY <2>8, <2>9, <2>11, <2>12, <3>1
    <3>2. CASE n = m + 1 /\ batch_to_infer # << >>
      <4>1. t[n] = b /\ pipe'[n] = output_of(inflight_batches[b])
        BY <1>4, <2>7, <2>9, <3>2
      <4>2. OutputFor(output_of(inflight_batches[b]), b)
        BY <1>1, <1>2, <1>4, <3>2, OutputExact DEF OutputFor
      <4> QED BY <2>1, <4>1, <4>2
    <3> QED BY <2>7, <3>1, <3>2
  <2>f. \A k \in Slots : /\ Distance(b, k) \in Int
                         /\ k # b => Distance(b, k) < PPSize
                         /\ k # c => Distance(c, k) = Distance(b, k) - 1
    BY <1>2, DistanceFacts
  <2>14. ASSUME NEW l \in DOMAIN pipe', NEW n \in DOMAIN pipe', l < n
         PROVE  Distance(c, t[l]) < Distance(c, t[n])
    <3>1. l \in 1 .. m
      BY <2>7, <2>14
    <3>2. /\ t[l] = s[l + d] /\ s[l + d] \in Slots /\ s[l + d] # b /\ s[l + d] # c
      BY <2>9, <2>11, <2>12, <3>1
    <3>3. /\ Distance(c, t[l]) = Distance(b, t[l]) - 1 /\ Distance(b, t[l]) < PPSize
          /\ Distance(b, t[l]) \in Int
      BY <2>f, <3>2
    <3>4. CASE n \in 1 .. m
      <4>1. /\ t[n] = s[n + d] /\ s[n + d] \in Slots /\ s[n + d] # c
        BY <2>9, <2>11, <2>12, <3>4
      <4>2. Distance(c, t[n]) = Distance(b, t[n]) - 1 /\ Distance(b, t[n]) \in Int
        BY <2>f, <4>1
      <4>3. l + d \in DOMAIN pipe /\ n + d \in DOMAIN pipe /\ l + d < n + d
        BY <2>4, <2>8, <2>14, <3>1, <3>4
      <4>4. Distance(b, t[l]) < Distance(b, t[n])
        BY <1>3, <1>5, <3>2, <4>1, <4>3 DEF PipeSlots
      <4> QED BY <3>3, <4>2, <4>4
    <3>5. CASE n = m + 1 /\ batch_to_infer # << >>
      <4>1. t[n] = b
        BY <2>9, <3>5
      <4>2. Distance(c, b) = PPSize - 1
        <5>1. Distance(b, b) = PPSize /\ Distance(c, b) = Distance(b, b) - 1
          BY <1>2, <2>1, DistanceFacts
        <5> QED BY <5>1
      <4>3. Distance(b, t[l]) - 1 < PPSize - 1
        BY <3>3, SchedulerAssumption
      <4> QED BY <3>3, <4>1, <4>2, <4>3
    <3> QED BY <2>7, <3>4, <3>5
  <2>15. ASSUME NEW k \in Slots, k # c, inflight_batches[k] # << >>
         PROVE  \E n \in DOMAIN pipe' : t[n] = k
    <3>1. CASE k = b
      BY <1>4, <2>7, <2>9, <2>15, <3>1
    <3>2. CASE k # b
      <4>1. PICK n \in DOMAIN pipe : s[n] = k
        BY <1>3, <1>5, <2>15, <3>2 DEF PipeSlots
      <4>2. n \in 1 .. Len(pipe) /\ Len(pipe) \in Nat
        BY <1>6
      <4>3. n - d \in 1 .. m /\ (n - d) + d = n
        <5>1. CASE batch_to_update = << >>
          BY <2>4, <4>2, <5>1 DEF m
        <5>2. CASE batch_to_update # << >>
          <6>1. n # 1
            BY <2>2, <2>15, <4>1, <5>2
          <6> QED BY <2>4, <4>2, <5>2, <6>1 DEF m
        <5> QED BY <5>1, <5>2
      <4>4. t[n - d] = k /\ n - d \in DOMAIN pipe'
        BY <2>9, <4>1, <4>3
      <4> QED BY <4>4
    <3> QED BY <3>1, <3>2
  <2>16. PipeSlots(t)'
    <3>1. ASSUME NEW n \in DOMAIN pipe' PROVE OutputFor(pipe[n], t[n])'
      <4>o. PICK o : o = pipe'[n]
        OBVIOUS
      <4>1. OutputFor(o, t[n])
        BY <2>13, <4>o
      <4> QED BY <1>1, <4>1, <4>o DEF OutputFor
    <3> QED BY <1>1, <1>3, <2>13, <2>14, <2>15, <3>1 DEF PipeSlots
  <2> QED BY <2>10, <2>16 DEF InPipe
<1> QED BY <1>8, <1>9

\* Every step keeps the outputs in the order of the slots.
LEMMA InPipeStep == XInv /\ [Next]_vars => InPipe'
<1> SUFFICES ASSUME XInv, [Next]_vars PROVE InPipe'
  OBVIOUS
<1>0. /\ CInv /\ TypeOK /\ InputKept /\ WaitingOnce /\ RunningOnce /\ TodoKept /\ Batches
      /\ InPipe /\ TokensExact
  BY DEF XInv, CInv, IInv
<1> USE DEF request_vars, output_vars, cache_vars, queue_vars, slot_vars, loop_vars, infer_vars
<1>d. pc' = "dead" => InPipe'
  BY DEF InPipe
<1>1. ASSUME UNCHANGED <<pc, pipe, current_batch_idx, inflight_batches, num_computed_tokens>>
      PROVE  InPipe'
  <2>1. Base' = Base
    BY <1>1 DEF Base, previous_batch_idx
  <2> QED BY <1>0, <1>1, <1>d, <2>1, PipeKept
<1>2. ASSUME pc \notin {"infer", "dead"}, pc' # "infer",
             UNCHANGED <<pipe, current_batch_idx, inflight_batches, num_computed_tokens>>
      PROVE  InPipe'
  <2>1. Base' = Base
    BY <1>2 DEF Base
  <2> QED BY <1>0, <1>2, <2>1, PipeKept
<1>3. CASE \/ poll_results \/ (\E r \in Requests : submit_request(r)) \/ UNCHANGED vars
  BY <1>1, <1>3 DEF poll_results, submit_request, vars
<1>4. CASE \/ ScheduleBegin \/ SkipPreempted \/ ExtendActive \/ RetryExtend \/ PlanDone
  BY <1>2, <1>4 DEF ScheduleBegin, SkipPreempted, ExtendActive, RetryExtend, Extend, PlanDone
<1>5. CASE PutVictim \/ RejectHead \/ Requeue
  BY <1>2, <1>5 DEF PutVictim, RejectHead, Requeue, Admitting
<1>6. CASE UpdateSkip \/ UpdateContinue \/ UpdateRaise \/ UpdateDone
  BY <1>2, <1>6 DEF UpdateSkip, UpdateContinue, UpdateRaise, UpdateDone, TakesToken
<1>7. CASE PlanActive
  <2>h. PICK h : h = Head(todo)
    OBVIOUS
  <2>1. /\ pc = "plan" /\ pc' = "extend" /\ h \in ToSet(active_requests)
        /\ \A q \in Requests : q # h => num_computed_tokens'[q] = num_computed_tokens[q]
    BY <1>0, <1>7, <2>h, PlanEffect
  <2>2. UNCHANGED <<pipe, current_batch_idx, inflight_batches>>
    BY <1>7 DEF PlanActive
  <2>3. current_batch_idx \in Slots /\ inflight_batches \in [Slots -> Seq(Requests)]
    BY <1>0 DEF TypeOK
  <2>4. ASSUME NEW k \in Slots, k # current_batch_idx PROVE h \notin ToSet(inflight_batches[k])
    <3>1. SUFFICES ASSUME h \in ToSet(inflight_batches[k]) PROVE FALSE
      OBVIOUS
    <3>2. PICK i \in DOMAIN inflight_batches[k] : inflight_batches[k][i] = h
      BY <2>3, <3>1, ToSetFacts
    <3>3. PICK j \in DOMAIN inflight_batches[current_batch_idx] :
            inflight_batches[current_batch_idx][j] = h
      BY <2>1, <2>3, ToSetFacts DEF active_requests
    <3> QED BY <1>0, <2>3, <2>4, <3>2, <3>3 DEF RunningOnce
  <2> QED BY <1>0, <2>1, <2>2, <2>4, OthersKept
<1>8. CASE PreemptVictim
  <2>1. PICK i \in DOMAIN active_requests :
          /\ pc = "extend" /\ pc' = "put_victim" /\ current_batch_idx' = current_batch_idx
          /\ \A q \in Requests : q # active_requests[i] =>
               num_computed_tokens'[q] = num_computed_tokens[q]
          /\ \A k \in Slots : k # current_batch_idx =>
               /\ inflight_batches'[k] = inflight_batches[k]
               /\ active_requests[i] \notin ToSet(inflight_batches[k])
    BY <1>0, <1>8, PreemptEffect
  <2>v. PICK v : v = active_requests[i]
    OBVIOUS
  <2>2. pipe' = pipe
    BY <1>8 DEF PreemptVictim
  <2> QED BY <1>0, <2>1, <2>2, <2>v, OthersKept
<1>9. CASE AdmitRequest
  <2>h. PICK h : h = Head(request_queue)
    OBVIOUS
  <2>1. /\ pc = "admit" /\ pc' = "admit" /\ current_batch_idx' = current_batch_idx
        /\ \A q \in Requests : q # h => num_computed_tokens'[q] = num_computed_tokens[q]
        /\ \A k \in Slots : k # current_batch_idx => inflight_batches'[k] = inflight_batches[k]
        /\ \A k \in Slots : h \notin ToSet(inflight_batches[k])
    BY <1>0, <1>9, <2>h, AdmitEffect
  <2>2. pipe' = pipe
    BY <1>9 DEF AdmitRequest
  <2> QED BY <1>0, <2>1, <2>2, OthersKept
<1>10. CASE UpdateFinish
  <2>c. PICK c : c = current
    OBVIOUS
  <2>1. /\ pc = "update" /\ pc' = "update" /\ current_batch_idx' = current_batch_idx
        /\ num_computed_tokens' = num_computed_tokens
        /\ \A k \in Slots : k # current_batch_idx =>
             /\ inflight_batches'[k] = inflight_batches[k]
             /\ c \notin ToSet(inflight_batches[k])
    BY <1>0, <1>10, <2>c, FinishEffect
  <2>2. pipe' = pipe
    BY <1>10 DEF UpdateFinish
  <2> QED BY <1>0, <2>1, <2>2, OthersKept
<1>11. CASE Dispatch
  <2>b. PICK b : b = current_batch_idx
    OBVIOUS
  <2>c. PICK c : c = next_batch_idx
    OBVIOUS
  <2>1. b \in Slots /\ active_requests = inflight_batches[b]
    BY <1>0, <2>b, Basics
  <2>2. c = IF b = PPSize - 1 THEN 0 ELSE b + 1
    BY <2>1, <2>b, <2>c, SchedulerAssumption DEF next_batch_idx, Slots
  <2>3. c \in Slots
    BY <2>1, <2>2, SchedulerAssumption DEF Slots
  <2>4. /\ get_snapshot(inflight_batches[b]) = inflight_batches[b]
        /\ get_snapshot(inflight_batches[c]) = inflight_batches[c]
    BY <1>0, <2>1, <2>3, SnapshotIsSlot
  <2>5. /\ pc \notin {"infer", "dead"} /\ current_batch_idx' = c
        /\ UNCHANGED <<pipe, inflight_batches, num_computed_tokens>>
        /\ pc' = IF inflight_batches[b] = << >> /\ inflight_batches[c] = << >>
                 THEN "schedule" ELSE "infer"
    BY <1>11, <2>1, <2>4, <2>c DEF Dispatch, Admitting
  <2>6. Base = b
    BY <2>5, <2>b DEF Base
  <2>7. CASE pc' = "infer"
    <3>1. previous_batch_idx' = b
      BY <2>1, <2>2, <2>5, SchedulerAssumption DEF previous_batch_idx, Slots
    <3>2. Base' = Base
      BY <2>6, <2>7, <3>1 DEF Base
    <3> QED BY <1>0, <2>5, <3>2, PipeKept
  <2>8. CASE pc' = "schedule"
    <3>1. inflight_batches[b] = << >> /\ inflight_batches[c] = << >>
      BY <2>5, <2>8
    <3>2. Base' = c
      BY <2>5, <2>8 DEF Base
    <3>3. PICK s \in [DOMAIN pipe -> Slots] : PipeSlots(s)
      BY <1>0, <2>5 DEF InPipe
    <3>4. ASSUME NEW n \in DOMAIN pipe
          PROVE  /\ s[n] \in Slots /\ s[n] # c /\ OutputFor(pipe[n], s[n])
      BY <3>1, <3>3 DEF PipeSlots, OutputFor
    <3>5. ASSUME NEW n \in DOMAIN pipe PROVE OutputFor(pipe[n], s[n])'
      BY <2>5, <3>4 DEF OutputFor
    <3>6. \A k \in Slots : /\ Distance(b, k) \in Int
                           /\ k # c => Distance(c, k) = Distance(b, k) - 1
      BY <2>1, <2>2, <2>3, DistanceFacts
    <3>7. ASSUME NEW m \in DOMAIN pipe, NEW n \in DOMAIN pipe, m < n
          PROVE  Distance(c, s[m]) < Distance(c, s[n])
      <4>1. Distance(b, s[m]) < Distance(b, s[n])
        BY <2>6, <3>3, <3>7 DEF PipeSlots
      <4>2. /\ Distance(c, s[m]) = Distance(b, s[m]) - 1 /\ Distance(b, s[m]) \in Int
            /\ Distance(c, s[n]) = Distance(b, s[n]) - 1 /\ Distance(b, s[n]) \in Int
        BY <3>4, <3>6
      <4> QED BY <4>1, <4>2
    <3>8. ASSUME NEW k \in Slots, k # c, inflight_batches[k] # << >>
          PROVE  \E n \in DOMAIN pipe : s[n] = k
      BY <2>6, <3>1, <3>3, <3>8 DEF PipeSlots
    <3>9. PipeSlots(s)'
      BY <2>5, <3>2, <3>4, <3>5, <3>7, <3>8 DEF PipeSlots
    <3> QED BY <2>5, <3>3, <3>9 DEF InPipe
  <2> QED BY <2>5, <2>7, <2>8
<1>12. CASE Infer
  BY <1>0, <1>12, InferKeepsPipe
<1> QED BY <1>3, <1>4, <1>5, <1>6, <1>7, <1>8, <1>9, <1>10, <1>11, <1>12
        DEF Next, GenerationLoop

-----------------------------------------------------------------------------
(* The invariant, and what follows from it. *)

\* The invariant holds initially.
LEMMA XInvInit == Init => XInv
<1> SUFFICES ASSUME Init PROVE XInv
  OBVIOUS
<1>1. CInv
  BY CInvInit
<1>2. \A r \in Requests : /\ generated_tokens[r] = << >>
                          /\ input_ids_list[r] = [i \in 1..PromptLen[r] |-> TokenAt(r, i - 1)]
  BY DEF Init, RequestInit
<1>3. TokensExact
  <2>1. ASSUME NEW r \in Requests
        PROVE  /\ \A i \in DOMAIN input_ids_list[r] : input_ids_list[r][i] = TokenAt(r, i - 1)
               /\ \A k \in DOMAIN generated_tokens[r] :
                    generated_tokens[r][k] = TokenAt(r, PromptLen[r] + k - 1)
    <3> DEFINE f == [i \in 1..PromptLen[r] |-> TokenAt(r, i - 1)]
    <3>1. input_ids_list[r] = f /\ generated_tokens[r] = << >>
      BY <1>2
    <3>2. \A i \in DOMAIN f : f[i] = TokenAt(r, i - 1)
      OBVIOUS
    <3> HIDE DEF f
    <3> QED BY <3>1, <3>2
  <2> QED BY <2>1 DEF TokensExact
<1>4. \A r \in Requests : Len(generated_tokens[r]) = 0 /\ status[r] = "CREATED"
  BY <1>2 DEF Init, RequestInit
<1>5. Limits
  BY <1>4 DEF Limits
<1>6. LimitsRespected
  <2>1. ASSUME NEW r \in Requests
        PROVE  /\ 0 <= Max({1, MaxNewTokens[r]})
               /\ r \in DOMAIN MaxLength => 0 <= Max({1, MaxLength[r] - PromptLen[r]})
    <3>1. /\ MaxNewTokens[r] \in Nat /\ PromptLen[r] \in Nat
          /\ r \in DOMAIN MaxLength => MaxLength[r] \in Nat
      BY RequestAssumption
    <3>2. ASSUME NEW x \in Int PROVE 0 <= Max({1, x})
      <4>1. Max({1, x}) \in Int /\ Max({1, x}) >= 1
        BY MaxPair
      <4> QED BY <4>1
    <3>3. r \in DOMAIN MaxLength => MaxLength[r] - PromptLen[r] \in Int
      BY <3>1
    <3>4. MaxNewTokens[r] \in Int
      BY <3>1
    <3> QED BY <3>2, <3>3, <3>4
  <2> QED BY <1>4, <2>1 DEF LimitsRespected, is_finished
<1>7. Matched
  BY DEF Init, Matched
<1>8. InPipe
  <2>1. pipe = << >> /\ DOMAIN pipe = {} /\ \A k \in Slots : inflight_batches[k] = << >>
    BY DEF Init
  <2>2. PICK s : s = [n \in DOMAIN pipe |-> 0]
    OBVIOUS
  <2>3. s \in [DOMAIN pipe -> Slots]
    BY <2>1, <2>2
  <2>4. PipeSlots(s)
    BY <2>1 DEF PipeSlots
  <2> QED BY <2>3, <2>4 DEF InPipe
<1> QED BY <1>1, <1>3, <1>5, <1>6, <1>7, <1>8 DEF XInv

\* The invariant is inductive.
LEMMA XInvNext == XInv /\ [Next]_vars => XInv'
BY CInvNext, TokensExactStep, LimitsStep, MatchedStep, InPipeStep DEF XInv

\* The invariant holds in every reachable state.
LEMMA XInvHolds == Spec => []XInv
BY XInvInit, XInvNext, PTL DEF Spec

\* The k-th generated token of a request is the one sampled at its own position
\* PromptLen + k - 1, whatever schedule() batches with it, however often preempt()
\* folds its tokens into its input, and for any depth of the pipeline.
THEOREM TokensAreExact == Spec => []TokensExact
<1>1. XInv => TokensExact
  BY DEF XInv
<1> QED BY <1>1, XInvHolds, PTL

\* The output that rank 0 receives when infer() is called is there, and it is the
\* output of the slot that schedule() has rotated to, row by row.
THEOREM OutputsAreAligned == Spec => []OutputsAligned
BY AlignedGiven, XInvHolds, PTL

\* should_finish keeps every answer within max_new_tokens and max_length, and ends
\* it no sooner unless the request has an EOS token.
THEOREM LimitsAreRespected == Spec => []LimitsRespected
<1>1. XInv => LimitsRespected
  BY DEF XInv
<1> QED BY <1>1, XInvHolds, PTL

-----------------------------------------------------------------------------
(* Scores. *)

\* When every request asks for scores the i-th score belongs to the i-th row.
LEMMA ScoreRowIsRow ==
  ASSUME CInv, Matched, pc = "update", OutputScores = Requests,
         row \in DOMAIN batch_to_update, NEW j \in ScoreRows(row)
  PROVE  j = row
<1>0. TypeOK
  BY DEF CInv, IInv
<1>1. /\ batch_to_update \in Seq(Requests) /\ infer_result.configs = batch_to_update
      /\ Len(infer_result.token_ids) = Len(batch_to_update)
      /\ infer_result.token_ids \in Seq(Token)
  BY <1>0 DEF TypeOK, Matched, InferencerOutput
<1>2. /\ j \in DOMAIN infer_result.token_ids
      /\ Cardinality({k \in 1..j : infer_result.configs[k] \in OutputScores}) = row
  BY DEF ScoreRows, ith_scored_row
<1>3. j \in Nat /\ j >= 1 /\ j <= Len(batch_to_update)
  BY <1>1, <1>2
<1>4. ASSUME NEW k \in 1..j PROVE infer_result.configs[k] \in OutputScores
  <2>1. k \in DOMAIN batch_to_update
    BY <1>1, <1>3
  <2>2. batch_to_update[k] \in Requests
    BY <1>1, <2>1
  <2> QED BY <1>1, <2>2
<1>5. {k \in 1..j : infer_result.configs[k] \in OutputScores} = 1..j
  BY <1>4
<1>6. Cardinality(1..j) = j
  <2>1. 1 \in Int /\ j \in Int
    BY <1>3
  <2>2. Cardinality(1..j) = IF 1 > j THEN 0 ELSE j - 1 + 1
    BY <2>1, FS_Interval
  <2> QED BY <1>3, <2>2
<1> QED BY <1>2, <1>5, <1>6

\* When all or none ask for scores, every step keeps scores and tokens together.
LEMMA ScoredStep ==
  ASSUME OutputScores \in {{}, Requests}
  PROVE  XInv /\ Scored /\ [Next]_vars => Scored'
<1> SUFFICES ASSUME XInv, Scored, [Next]_vars, NEW q \in OutputScores
             PROVE  generated_logprobs'[q] = generated_tokens'[q]
  BY DEF Scored
<1>0. /\ CInv /\ TypeOK /\ InputKept /\ RunningOnce /\ Matched
  BY DEF XInv, CInv, IInv
<1> USE DEF request_vars, output_vars, cache_vars, queue_vars, slot_vars, loop_vars, infer_vars
<1>1. OutputScores = Requests /\ q \in Requests
  OBVIOUS
<1>2. ASSUME UNCHANGED <<generated_logprobs, generated_tokens>>
      PROVE  generated_logprobs'[q] = generated_tokens'[q]
  BY <1>2 DEF Scored
<1>3. CASE \/ poll_results \/ (\E r \in Requests : submit_request(r)) \/ UNCHANGED vars
  BY <1>2, <1>3 DEF poll_results, submit_request, vars
<1>4. CASE \/ ScheduleBegin \/ SkipPreempted \/ PlanActive \/ ExtendActive \/ RetryExtend
           \/ PlanDone \/ Dispatch
  BY <1>2, <1>4 DEF ScheduleBegin, SkipPreempted, PlanActive, ExtendActive, RetryExtend,
     Extend, PlanDone, Dispatch
<1>5. CASE \/ PreemptVictim \/ PutVictim \/ AdmitRequest \/ RejectHead \/ Requeue
  BY <1>2, <1>5 DEF PreemptVictim, preempt_request, preempt, PutVictim, AdmitRequest,
     RejectHead, Requeue
<1>6. CASE Infer \/ UpdateSkip \/ UpdateRaise \/ UpdateDone
  BY <1>2, <1>6 DEF Infer, UpdateSkip, UpdateRaise, UpdateDone
<1>7. CASE UpdateContinue \/ UpdateFinish
  <2>c. PICK c : c = current
    OBVIOUS
  <2>1. /\ pc = "update" /\ row \in DOMAIN batch_to_update /\ c \in Requests
    BY <1>0, <1>7, <2>c, TakeEffect
  <2>2. process_generated_token(c)
    BY <1>7, <2>c DEF UpdateContinue, UpdateFinish
  <2>3. PICK j \in ScoreRows(row) :
          generated_logprobs' =
            [generated_logprobs EXCEPT ![c] = Append(@, infer_result.token_ids[j])]
    BY <1>1, <2>1, <2>2 DEF process_generated_token
  <2>4. j = row
    BY <1>0, <1>1, <2>1, <2>3, ScoreRowIsRow
  <2>5. generated_tokens' =
          [generated_tokens EXCEPT ![c] = Append(@, infer_result.token_ids[row])]
    BY <2>2 DEF process_generated_token
  <2>6. /\ generated_logprobs \in [Requests -> Seq(Token)]
        /\ generated_tokens \in [Requests -> Seq(Token)]
    BY <1>0 DEF TypeOK
  <2>7. CASE q = c
    BY <1>1, <2>3, <2>4, <2>5, <2>6, <2>7 DEF Scored
  <2>8. CASE q # c
    BY <1>1, <2>3, <2>5, <2>6, <2>8 DEF Scored
  <2> QED BY <2>7, <2>8
<1> QED BY <1>3, <1>4, <1>5, <1>6, <1>7 DEF Next, GenerationLoop

\* When all requests ask for scores, or none does, an answer carries the
\* log-probabilities of its own tokens.  (When only some do, _select_tokens and
\* update() disagree on the rows: see the run on mixed scores.)
THEOREM ScoresAreExact ==
  ASSUME OutputScores \in {{}, Requests}
  PROVE  Spec => []ScoresExact
<1>1. Init => XInv /\ Scored
  <2>1. Init => Scored
    BY RequestAssumption DEF Init, RequestInit, Scored
  <2> QED BY <2>1, XInvInit
<1>2. XInv /\ Scored /\ [Next]_vars => (XInv /\ Scored)'
  BY XInvNext, ScoredStep
<1>3. XInv /\ Scored => ScoresExact
  BY DEF Scored, ScoresExact
<1> QED BY <1>1, <1>2, <1>3, PTL DEF Spec

-----------------------------------------------------------------------------
(* Answers. *)

\* What the result thread can see is finished or failed.
LEMMA HandedOutIsDone ==
  ASSUME IInv, NEW r \in HandedOut
  PROVE  r \in Requests /\ status[r] \in Done
<1>0. TypeOK /\ AnsweredOnce
  BY DEF IInv
<1>1. CASE r \in polled
  BY <1>0, <1>1 DEF TypeOK, AnsweredOnce
<1>2. CASE \E m \in DOMAIN result_queue : r \in ToSet(result_queue[m])
  <2>1. PICK m \in DOMAIN result_queue : r \in ToSet(result_queue[m])
    BY <1>2
  <2>2. result_queue[m] \in Seq(Requests)
    BY <1>0 DEF TypeOK
  <2>3. r \in Requests /\ \E i \in DOMAIN result_queue[m] : result_queue[m][i] = r
    BY <2>1, <2>2, ToSetFacts
  <2> QED BY <1>0, <2>3 DEF AnsweredOnce
<1> QED BY <1>1, <1>2 DEF HandedOut

\* No step writes to a request that is done.
LEMMA DoneIsKept ==
  ASSUME XInv, [Next]_vars, NEW q \in Requests, status[q] \in Done
  PROVE  /\ status'[q] = status[q]
         /\ generated_tokens'[q] = generated_tokens[q]
         /\ generated_logprobs'[q] = generated_logprobs[q]
<1>0. /\ CInv /\ TypeOK /\ InputKept /\ WaitingOnce /\ RunningOnce /\ Matched
  BY DEF XInv, CInv, IInv
<1> USE DEF request_vars, output_vars, cache_vars, queue_vars, slot_vars, loop_vars, infer_vars
<1>s. status[q] # "CREATED" /\ status[q] # "PENDING" /\ status[q] # "RUNNING"
  BY DEF Done
<1>1. CASE poll_results \/ UNCHANGED vars
  BY <1>1 DEF poll_results, vars
<1>2. CASE \E r \in Requests : submit_request(r)
  <2>1. PICK r \in Requests : submit_request(r)
    BY <1>2
  <2>2. /\ status[r] = "CREATED" /\ UNCHANGED <<generated_tokens, generated_logprobs>>
        /\ \E s \in {"PENDING", "FAILED"} : status' = [status EXCEPT ![r] = s]
    BY <2>1 DEF submit_request
  <2> QED BY <1>0, <1>s, <2>2 DEF TypeOK
<1>3. CASE \/ ScheduleBegin \/ SkipPreempted \/ PlanActive \/ ExtendActive \/ RetryExtend
           \/ PlanDone \/ Dispatch
  BY <1>3 DEF ScheduleBegin, SkipPreempted, PlanActive, ExtendActive, RetryExtend,
     Extend, PlanDone, Dispatch
<1>4. CASE PutVictim \/ RejectHead \/ Requeue \/ Infer \/ UpdateSkip \/ UpdateRaise \/ UpdateDone
  BY <1>4 DEF PutVictim, RejectHead, Requeue, Infer, UpdateSkip, UpdateRaise, UpdateDone
<1>5. CASE AdmitRequest
  <2>h. PICK h : h = Head(request_queue)
    OBVIOUS
  <2>1. /\ h \in Requests /\ status[h] = "PENDING"
        /\ \A p \in Requests : p # h => status'[p] = status[p]
    BY <1>0, <1>5, <2>h, AdmitEffect
  <2>2. UNCHANGED <<generated_tokens, generated_logprobs>>
    BY <1>5 DEF AdmitRequest
  <2> QED BY <1>s, <2>1, <2>2
<1>6. CASE PreemptVictim
  <2>1. PICK i \in DOMAIN active_requests :
          /\ active_requests[i] \in Requests /\ status[active_requests[i]] = "RUNNING"
          /\ \A p \in Requests : p # active_requests[i] => status'[p] = status[p]
    BY <1>0, <1>6, PreemptEffect
  <2>2. UNCHANGED <<generated_tokens, generated_logprobs>>
    BY <1>6 DEF PreemptVictim, preempt_request, preempt
  <2> QED BY <1>s, <2>1, <2>2
<1>7. CASE UpdateContinue \/ UpdateFinish
  <2>c. PICK c : c = current
    OBVIOUS
  <2>1. /\ c \in Requests /\ status[c] = "RUNNING"
        /\ \A p \in Requests : p # c => /\ generated_tokens'[p] = generated_tokens[p]
                                        /\ status'[p] = status[p]
    BY <1>0, <1>7, <2>c, TakeEffect
  <2>2. process_generated_token(c)
    BY <1>7, <2>c DEF UpdateContinue, UpdateFinish
  <2>3. \/ generated_logprobs' = generated_logprobs
        \/ \E x : generated_logprobs' = [generated_logprobs EXCEPT ![c] = x]
    BY <2>2 DEF process_generated_token
  <2>4. generated_logprobs \in [Requests -> Seq(Token)]
    BY <1>0 DEF TypeOK
  <2>5. q # c
    BY <1>s, <2>1
  <2>6. generated_logprobs'[q] = generated_logprobs[q]
    BY <2>3, <2>4, <2>5
  <2> QED BY <2>1, <2>5, <2>6
<1> QED BY <1>1, <1>2, <1>3, <1>4, <1>5, <1>6, <1>7 DEF Next, GenerationLoop

\* Once a request is in the result queue the generation loop never writes to it
\* again, so poll_results may hand it out without a lock.
THEOREM AnswersAreFinal == Spec => AnswerFinal
<1>1. XInv /\ [Next]_vars =>
        [\A r \in HandedOut :
           /\ status'[r] = status[r]
           /\ generated_tokens'[r] = generated_tokens[r]
           /\ generated_logprobs'[r] = generated_logprobs[r]]_vars
  <2> SUFFICES ASSUME XInv, [Next]_vars, NEW r \in HandedOut
               PROVE  /\ status'[r] = status[r]
                      /\ generated_tokens'[r] = generated_tokens[r]
                      /\ generated_logprobs'[r] = generated_logprobs[r]
    OBVIOUS
  <2>1. r \in Requests /\ status[r] \in Done
    BY HandedOutIsDone DEF XInv, CInv
  <2> QED BY <2>1, DoneIsKept
<1> QED BY <1>1, XInvHolds, PTL DEF Spec, AnswerFinal

=============================================================================
