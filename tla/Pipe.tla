------------------------------- MODULE Pipe -------------------------------
(***************************************************************************)
(* What Scheduler and DriverWorker assume of the inferencer: a FIFO of     *)
(* batches of a fixed depth.  Outputs carry no names, so the n-th output   *)
(* must be that of the n-th batch.                                         *)
(***************************************************************************)
EXTENDS Naturals, Sequences

VARIABLES depth,    \* the number of batches that may be in flight
          issued,   \* how many batches have been handed over
          answered  \* the batches whose outputs were returned, oldest first

vars == <<depth, issued, answered>>

Init == depth \in Nat \ {0} /\ issued = 0 /\ answered = << >>

Issue ==
  /\ issued - Len(answered) < depth
  /\ issued' = issued + 1
  /\ UNCHANGED <<depth, answered>>

Answer ==
  /\ Len(answered) < issued
  /\ answered' = Append(answered, Len(answered) + 1)
  /\ UNCHANGED <<depth, issued>>

Next == Issue \/ Answer

\* Every batch that was handed over is eventually answered.
Spec == Init /\ [][Next]_vars /\ WF_vars(Answer)

=============================================================================
