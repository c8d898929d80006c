---------------------------- MODULE MCScheduler ----------------------------
(***************************************************************************)
(* Small instances of Scheduler: the values of its constant functions.  The *)
(* cfg files choose the sizes of cache, batch, queue and pipeline.          *)
(***************************************************************************)
EXTENDS Scheduler

CONSTANTS a, b, c

\* Prompts of three, two and one tokens.
MCPromptLen == [r \in Requests |-> CASE r = a -> 3 [] r = b -> 2 [] OTHER -> 1]

MCMaxNewTokens == [r \in Requests |-> 4]

\* Three new tokens, for the runs whose state graph is large.
MCThreeNewTokens == [r \in Requests |-> 3]

\* Only a sets max_length, and reaches it before its max_new_tokens.
MCMaxLength == [r \in {a} |-> 6]

=============================================================================
