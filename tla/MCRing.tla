------------------------------- MODULE MCRing -------------------------------
(* Rings of one to three ranks, with layers that divide evenly or do not.   *)
EXTENDS Ring

Config(p, l, tied, format, rendezvous) ==
  [pp_size |-> p, num_hidden_layers |-> l, tie_word_embeddings |-> tied,
   checkpoint |-> format, rendezvous |-> rendezvous]

\* Every naming scheme of the weights, tied and not, and layer counts with
\* every remainder; the long runs of three ranks with one split for each kind
\* of send.
MCConfigs ==
  {Config(p, l, t, f, z) : p \in 1 .. 2, l \in {2, 3}, t \in BOOLEAN,
                           f \in {"separate", "fused", "stacked"}, z \in BOOLEAN}
  \cup {Config(3, 4, FALSE, "separate", FALSE), Config(3, 5, TRUE, "fused", TRUE)}

=============================================================================
