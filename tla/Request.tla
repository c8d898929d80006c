------------------------------ MODULE Request ------------------------------
(***************************************************************************)
(* The scheduling state of inference requests: class InferenceRequest of   *)
(* vexact/core/request.py.  A field of the class is a function on          *)
(* Requests, a method an action (or a predicate) on one request.           *)
(*                                                                         *)
(* A token is named by the request and the position it belongs to, so a    *)
(* token that is attributed to another request, folded twice, dropped or   *)
(* fed at another position is told apart from the right one.               *)
(***************************************************************************)
EXTENDS Integers, Sequences, SequencesExt

CONSTANTS
  Requests,        \* the requests that may be submitted
  PromptLen,       \* len(input_ids_list) at construction (_original_prompt_len)
  MaxNewTokens,    \* generation_config.max_new_tokens
  MaxLength,       \* generation_config.max_length, for the requests that set it
  EosRequests,     \* requests whose generation_config sets eos_token_id
  OutputLogits,    \* requests with generation_config.output_logits
  OutputScores     \* requests with generation_config.output_scores

ASSUME RequestAssumption ==
  /\ IsFiniteSet(Requests)
  /\ PromptLen \in [Requests -> Nat \ {0}]
  /\ MaxNewTokens \in [Requests -> Nat]
  /\ DOMAIN MaxLength \subseteq Requests
  /\ \A r \in DOMAIN MaxLength : MaxLength[r] \in Nat
  /\ EosRequests \subseteq Requests
  /\ OutputLogits \subseteq Requests
  /\ OutputScores \subseteq Requests

VARIABLES
  status, input_ids_list, generated_tokens, generated_logprobs,
  num_computed_tokens, tokens_this_step, block_ids

output_vars == <<generated_tokens, generated_logprobs>>

request_vars == <<status, input_ids_list, output_vars, num_computed_tokens,
                  tokens_this_step, block_ids>>

\* RequestStatus; CREATED is a request that its client has not submitted yet.
Status == {"CREATED", "PENDING", "RUNNING", "FINISHED", "FAILED"}

\* pos = -1 is whatever the model samples from a context that is not the
\* request's own token sequence.
Token == [req : Requests, pos : Int]

TokenAt(r, p) == [req |-> r, pos |-> p]

RequestInit ==
  /\ status = [r \in Requests |-> "CREATED"]
  /\ input_ids_list = [r \in Requests |-> [i \in 1..PromptLen[r] |-> TokenAt(r, i - 1)]]
  /\ generated_tokens = [r \in Requests |-> << >>]
  /\ generated_logprobs = [r \in Requests |-> << >>]
  /\ num_computed_tokens = [r \in Requests |-> 0]
  /\ tokens_this_step = [r \in Requests |-> 0]
  /\ block_ids = [r \in Requests |-> << >>]

is_finished(r) == status[r] = "FINISHED"

\* Mutant: max_new_tokens is compared before the new token is counted.
should_finish_late(r, eos, num_generated) ==
  \/ eos
  \/ r \in DOMAIN MaxLength /\ num_computed_tokens[r] + 1 >= MaxLength[r]
  \/ num_generated > MaxNewTokens[r]

\* Evaluated after the sampled token has been appended to generated_tokens,
\* here num_generated of them; eos tells whether it is the EOS token.
should_finish(r, eos, num_generated) ==
  \/ eos
  \/ r \in DOMAIN MaxLength /\ num_computed_tokens[r] + 1 >= MaxLength[r]
  \/ num_generated >= MaxNewTokens[r]

\* preempt() folds into input_ids_list the generated tokens it does not hold yet.
already_folded(r) == Len(input_ids_list[r]) - PromptLen[r]

\* Mutant: every preemption folds all generated tokens again.
refolded_tokens(r) == generated_tokens[r]

new_tokens(r) ==
  SubSeq(generated_tokens[r], already_folded(r) + 1, Len(generated_tokens[r]))

\* Mutant: the log-probabilities are reset like the scheduling state.
preempt_drops_scores(r) ==
  /\ input_ids_list' = [input_ids_list EXCEPT ![r] = @ \o new_tokens(r)]
  /\ block_ids' = [block_ids EXCEPT ![r] = << >>]
  /\ num_computed_tokens' = [num_computed_tokens EXCEPT ![r] = 0]
  /\ tokens_this_step' = [tokens_this_step EXCEPT ![r] = 0]
  /\ status' = [status EXCEPT ![r] = "PENDING"]
  /\ generated_logprobs' = [generated_logprobs EXCEPT ![r] = << >>]
  /\ UNCHANGED generated_tokens

preempt(r) ==
  /\ input_ids_list' = [input_ids_list EXCEPT ![r] = @ \o new_tokens(r)]
  /\ block_ids' = [block_ids EXCEPT ![r] = << >>]
  /\ num_computed_tokens' = [num_computed_tokens EXCEPT ![r] = 0]
  /\ tokens_this_step' = [tokens_this_step EXCEPT ![r] = 0]
  /\ status' = [status EXCEPT ![r] = "PENDING"]
  /\ UNCHANGED output_vars

=============================================================================
