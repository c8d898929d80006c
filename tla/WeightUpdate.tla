---------------------------- MODULE WeightUpdate ----------------------------
(***************************************************************************)
(* What the weight transfer promises the model that is updated, whatever   *)
(* buckets and chunks the tensors travel in: tensors are loaded in the     *)
(* sender's order, each whole and with its own bytes, and receive_weights  *)
(* returns only when every one of them is loaded.                          *)
(***************************************************************************)
EXTENDS Integers, Sequences

VARIABLES tensors,   \* what the sender's generator yields
          loaded,    \* what has been copied into the model's parameters
          returned   \* receive_weights has returned without an error

Init == loaded = << >> /\ returned = FALSE

\* Some more of the tensors are loaded, and the last of them ends the update.
Load == /\ ~returned
        /\ \E n \in Len(loaded) .. Len(tensors) : loaded' = SubSeq(tensors, 1, n)
        /\ returned' \in BOOLEAN
        /\ returned' => loaded' = tensors
        /\ UNCHANGED tensors

Spec == Init /\ [][Load]_<<tensors, loaded, returned>>

=============================================================================
