--------------------------- MODULE KVCacheManager ---------------------------
(***************************************************************************)
(* The block allocator of the paged KV cache: class KVCacheManager of      *)
(* vexact/batch_invariant_ops/kv_cache_context.py.  Blocks are numbered,   *)
(* each holds PageSize token positions, and the manager only knows which   *)
(* blocks are free and which are allocated: who owns a block is recorded   *)
(* in the request (block_ids), so the two can disagree.                    *)
(***************************************************************************)
EXTENDS Integers, FiniteSets

CONSTANTS MaxCacheBlocks,   \* cache_config.max_cache_blocks
          PageSize          \* cache_config.page_size

ASSUME CacheAssumption == /\ MaxCacheBlocks \in Nat
                          /\ PageSize \in Nat \ {0}

VARIABLES free_blocks_set, allocated_blocks

cache_vars == <<free_blocks_set, allocated_blocks>>

Blocks == 0 .. (MaxCacheBlocks - 1)

\* Mutant: one block more than the cache has.
CacheInitOffByOne == /\ free_blocks_set = 0 .. MaxCacheBlocks
                     /\ allocated_blocks = {}

CacheInit == /\ free_blocks_set = Blocks
             /\ allocated_blocks = {}

num_blocks_needed(num_tokens) == (num_tokens + PageSize - 1) \div PageSize

\* The loop over min(free_blocks_set): the n lowest free blocks, in ascending
\* order.  A set with one element, or with none when fewer than n are free.
LowestFree(n) ==
  { s \in [1..n -> free_blocks_set] :
      /\ \A i, j \in 1..n : i < j => s[i] < s[j]
      /\ \A b \in free_blocks_set : (\A i \in 1..n : s[i] # b)
                                      => \A i \in 1..n : s[i] < b }

\* What allocate_blocks may return: the list of new blocks, or nothing at all
\* (Python's None) when the cache cannot cover total_tokens.
allocate_blocks(total_tokens, num_current_blocks) ==
  LET delta == num_blocks_needed(total_tokens) - num_current_blocks
  IN  IF delta <= 0 THEN { << >> }
      ELSE IF Cardinality(free_blocks_set) < delta THEN {}
      ELSE LowestFree(delta)

\* The effect of a successful allocation on the manager.
TakeBlocks(new) ==
  /\ free_blocks_set' = free_blocks_set \ {new[i] : i \in DOMAIN new}
  /\ allocated_blocks' = allocated_blocks \cup {new[i] : i \in DOMAIN new}

\* Mutant: the last block of the list is never given back.
free_blocks_but_last(ids) ==
  LET released == {ids[i] : i \in DOMAIN ids \ {Cardinality(DOMAIN ids)}}
                    \cap allocated_blocks
  IN  /\ allocated_blocks' = allocated_blocks \ released
      /\ free_blocks_set' = free_blocks_set \cup released

\* free_blocks ignores ids that are not allocated.
free_blocks(ids) ==
  LET released == {ids[i] : i \in DOMAIN ids} \cap allocated_blocks
  IN  /\ allocated_blocks' = allocated_blocks \ released
      /\ free_blocks_set' = free_blocks_set \cup released

=============================================================================
