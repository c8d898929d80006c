---------------------------- MODULE ModelShards ----------------------------
(***************************************************************************)
(* The model as the ranks of a pipeline hold it: the layer ranges of       *)
(* get_pp_indices, the modules ModelCreator._apply_pp keeps, the weights   *)
(* load_weights puts into them, and the forward pass of one rank           *)
(* (vexact/inferencer/model_loader.py, vexact/models/).                    *)
(*                                                                         *)
(* A weight of the checkpoint is <<"embed">>, <<"norm">>, <<"lm_head">>,   *)
(* <<"layer", l>> for what layer l has besides its experts, or a part      *)
(* <<"gate", l, e>>, <<"up", l, e>>, <<"down", l, e>> of expert e.  A rank *)
(* stores gate and up of all experts as the two halves of one parameter    *)
(* gate_up_proj.  What a rank computes is the sequence of the weights it   *)
(* applies to its input, so that two computations are the same when they   *)
(* are equal.                                                              *)
(***************************************************************************)
EXTENDS Integers, Sequences, FiniteSets, FiniteSetsExt, SequencesExt

CONSTANT Experts   \* the expert indices of every layer

\* A configuration is a record with the fields pp_size, num_hidden_layers,
\* tie_word_embeddings and checkpoint, the naming scheme of the weights:
\* "separate" (a HuggingFace checkpoint), "fused" (gate and up of an expert in
\* one tensor) or "stacked" (the tensors of all experts in one).

layers_of(c) == 0 .. (c.num_hidden_layers - 1)

expert_weights(l) == {"gate", "up", "down"} \X {l} \X Experts

\* gate_up_proj[e, half, :] and down_proj[e] of Qwen3MoeExperts and
\* PatchDeepseekV3NaiveMoe.
expert_places(l) ==
  ({"gate_up_proj"} \X {l} \X Experts \X {1, 2}) \cup ({"down_proj"} \X {l} \X Experts)

all_places(c) ==
  {<<"embed">>, <<"norm">>, <<"lm_head">>}
  \cup {<<"layer", l>> : l \in layers_of(c)}
  \cup UNION {expert_places(l) : l \in layers_of(c)}

Uninitialized == <<"uninitialized">>

-----------------------------------------------------------------------------
(* Who holds which layers. *)

\* Mutant: the remaining layers are counted from the wrong end of the range.
partition_short(c, i) ==
  LET remaining_layers == c.num_hidden_layers % c.pp_size
  IN  (c.num_hidden_layers \div c.pp_size)
      + (IF c.pp_size - i \in 2 .. remaining_layers THEN 1 ELSE 0)

\* partitions[i]; partitions[-2], partitions[-3], ... take one more layer each.
partition(c, i) ==
  LET remaining_layers == c.num_hidden_layers % c.pp_size
  IN  (c.num_hidden_layers \div c.pp_size)
      + (IF c.pp_size - i \in 2 .. (remaining_layers + 1) THEN 1 ELSE 0)

\* The layers start_layer .. end_layer - 1 of a rank.
get_pp_indices(c, r) ==
  LET start_layer == MapThenSumSet(LAMBDA i : partition(c, i), 0 .. (r - 1))
  IN  start_layer .. (start_layer + partition(c, r) - 1)

\* The places in the modules that are not replaced by a PPMissingLayer.  With
\* one rank nothing is replaced.
_apply_pp(c, r) ==
  LET last == r = c.pp_size - 1
  IN  IF c.pp_size = 1 THEN all_places(c)
      ELSE {w \in all_places(c) :
              CASE w = <<"embed">> -> r = 0 \/ (c.tie_word_embeddings /\ last)
                [] w \in {<<"norm">>, <<"lm_head">>} -> last
                [] OTHER -> w[2] \in get_pp_indices(c, r)}

-----------------------------------------------------------------------------
(* Loading. *)

\* The tensors of a checkpoint, by name.  A tied lm_head is not saved.
checkpoint_names(c) ==
  {<<"embed">>, <<"norm">>} \cup {<<"layer", l>> : l \in layers_of(c)}
  \cup (IF c.tie_word_embeddings THEN {} ELSE {<<"lm_head">>})
  \cup CASE c.checkpoint = "separate" -> UNION {expert_weights(l) : l \in layers_of(c)}
         [] c.checkpoint = "fused" -> {"gate_up", "down"} \X layers_of(c) \X Experts
         [] c.checkpoint = "stacked" -> {"gate_up", "down"} \X layers_of(c)

\* What a tensor of the checkpoint contains.
contents(name) ==
  LET experts == IF Len(name) = 3 THEN {name[3]} ELSE Experts
  IN  CASE name[1] = "gate_up" -> {"gate", "up"} \X {name[2]} \X experts
        [] name[1] = "down"    -> {"down"} \X {name[2]} \X experts
        [] OTHER               -> {name}

\* The slice that a weight is copied to.  A tensor that holds gate and up has
\* them in this order too, whether it is one expert's or all experts'.
target(w) ==
  CASE w[1] = "gate" -> <<"gate_up_proj", w[2], w[3], 1>>
    [] w[1] = "up"   -> <<"gate_up_proj", w[2], w[3], 2>>
    [] w[1] = "down" -> <<"down_proj", w[2], w[3]>>
    [] OTHER         -> w

\* The value of every parameter of a rank when the iterator is exhausted.  A
\* name that is not in the rank's parameters, and an expert of a block that the
\* rank does not have, are skipped.
copied(c, r) ==
  [place \in _apply_pp(c, r) |->
     LET loaded == {w \in UNION {contents(n) : n \in checkpoint_names(c)} :
                      target(w) = place}
     IN  IF loaded = {} THEN Uninitialized ELSE CHOOSE w \in loaded : TRUE]

\* Then the tied keys take the embedding of the rank, or of the checkpoint.
load_weights(c, r) ==
  LET params == copied(c, r)
      tied == c.tie_word_embeddings /\ <<"lm_head">> \in DOMAIN params
  IN  IF ~tied THEN params
      ELSE [params EXCEPT ![<<"lm_head">>] =
              IF <<"embed">> \in DOMAIN params THEN params[<<"embed">>]
              ELSE <<"embed">>]

-----------------------------------------------------------------------------
(* Running. *)

\* A layer of the rank applies its own weights, chunk(2) of gate_up_proj being
\* gate and up; a PPMissingLayer applies nothing and returns its argument.
layer(params, l) ==
  IF <<"layer", l>> \notin DOMAIN params THEN << >>
  ELSE <<<<params[<<"layer", l>>],
           [e \in Experts |-> [gate |-> params[<<"gate_up_proj", l, e, 1>>],
                               up   |-> params[<<"gate_up_proj", l, e, 2>>],
                               down |-> params[<<"down_proj", l, e>>]]]>>>>

module(params, name) ==
  IF <<name>> \in DOMAIN params THEN <<params[<<name>>]>> ELSE << >>

\* Rank 0 embeds the input ids; the others start from intermediate_tensors.
embed(params, r) == IF r = 0 THEN module(params, "embed") ELSE << >>

\* TransformersForCausalLM.forward; with one rank, the model's own forward.
forward(c, r) ==
  LET params == load_weights(c, r)
  IN  embed(params, r)
      \o FlattenSeq([l \in 1 .. c.num_hidden_layers |-> layer(params, l - 1)])
      \o module(params, "norm")
      \o (IF r = c.pp_size - 1 THEN module(params, "lm_head") ELSE << >>)

-----------------------------------------------------------------------------

\* The reference: the forward pass of the whole model with the weights of the
\* checkpoint, a tied lm_head being the embedding.
WholeForward(c) ==
  <<<<"embed">>>>
  \o [l \in 1 .. c.num_hidden_layers |->
        <<<<"layer", l - 1>>, [e \in Experts |-> [gate |-> <<"gate", l - 1, e>>,
                                                  up   |-> <<"up", l - 1, e>>,
                                                  down |-> <<"down", l - 1, e>>]]>>]
  \o <<<<"norm">>, IF c.tie_word_embeddings THEN <<"embed">> ELSE <<"lm_head">>>>

=============================================================================
