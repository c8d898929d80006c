----------------------------- MODULE MCServing -----------------------------
(* Two ranks, and three calls with ids of their own or two that share one.  *)
EXTENDS Serving

CONSTANTS c1, c2, c3

MCOwnIds == [c \in {c1, c2, c3} |-> c]

MCSameId == [c \in {c1, c2} |-> c1]

MCUses ==
  {[timeouts |-> TRUE, trained |-> FALSE, free_cache_engine |-> FALSE],
   [timeouts |-> FALSE, trained |-> TRUE, free_cache_engine |-> FALSE],
   [timeouts |-> FALSE, trained |-> TRUE, free_cache_engine |-> TRUE]}

MCPatient == {[timeouts |-> FALSE, trained |-> FALSE, free_cache_engine |-> FALSE]}

=============================================================================
