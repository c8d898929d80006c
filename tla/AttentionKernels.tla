--------------------------- MODULE AttentionKernels ---------------------------
(***************************************************************************)
(* Attention: the Triton kernels for packed sequences (forward and         *)
(* backward) and for the paged KV cache, the store into that cache, the    *)
(* mask of flex attention, and the per-step metadata (eager or padded into *)
(* the static buffers of a CUDA graph) those kernels read.                 *)
(*                                                                         *)
(* Memory maps cells <<tensor, indices ...>> to terms.  A token is         *)
(* <<request, position>>.  The result for a query is the query, the KV     *)
(* head, and the tiles of keys folded into its online softmax, in order:   *)
(* a tile in which every key is masked adds exp2(-1e6 - m) = 0 and leaves  *)
(* the running maximum alone, so it is dropped; a lane that is read as 0   *)
(* but not masked is Zero, and would count.                                *)
(***************************************************************************)
EXTENDS Tiles, Sequences, FiniteSets, SequencesExt

CONSTANTS PageSize, MaxBlocksPerReq, MaxBlocks,
          MaxNumSeqs, MaxNumBatchedTokens
ASSUME CacheAssumption ==
  /\ PageSize \in Nat \ {0}
  /\ {MaxBlocksPerReq, MaxBlocks, MaxNumSeqs, MaxNumBatchedTokens} \subseteq Nat

Zero    == <<"zero">>
Garbage == <<"garbage">>
Pad     == <<"pad">>

\* a cell never stored holds whatever torch.empty left there
Load(mem, cell) == IF cell \in DOMAIN mem THEN mem[cell] ELSE Garbage

Before(lens, s) == FoldLeft(LAMBDA a, b : a + b, 0, SubSeq(lens, 1, s))
kv_head_of(l, q_head) == q_head \div (l.hq \div l.hk)

\* the lanes in S, in ascending order
Ascending(S) == [i \in 1 .. Cardinality(S) |-> CHOOSE x \in S : Cardinality({y \in S : y < x}) = i - 1]

\* a tile in which every lane is masked leaves the running sums alone
NonEmpty(tiles) ==
  LET kept == Ascending({i \in DOMAIN tiles : tiles[i] # <<>>})
  IN  [i \in DOMAIN kept |-> tiles[kept[i]]]

-----------------------------------------------------------------------------
\* Mutant: a token does not attend to itself.
CausalMaskStrict(offs_m, n) == offs_m > n

\* offs_m[:, None] >= offs_n[None, :]
CausalMask(offs_m, n) == offs_m >= n

\* Mutant: positions of a chunk counted from the chunk's start.
QAbsLocal(l, s, m) == m

\* position in its sequence of query row m of the chunk
QAbs(l, s, m) == m + (l.kv_lens[s + 1] - l.q_lens[s + 1])

\* the lanes of one tile of keys, as far as the mask lets them count
KeyTile(l, start_n, masked, offs_m, key) ==
  LET ns == Ascending({n \in start_n .. start_n + l.bn - 1 : ~masked \/ CausalMask(offs_m, n)})
  IN  [i \in DOMAIN ns |-> key[ns[i]]]

(* The two loops of a forward kernel for the row at absolute position      *)
(* offs_m: whole tiles strictly below the row's block, unmasked, then the  *)
(* tiles of the block itself under the causal mask.                        *)
OnlineSoftmax(l, start_m, offs_m, key) ==
  LET below == [i \in 1 .. Cdiv(start_m * l.bm, l.bn) |-> KeyTile(l, (i - 1) * l.bn, FALSE, offs_m, key)]
      diag  == [i \in 1 .. Cdiv(l.bm, l.bn) |-> KeyTile(l, start_m * l.bm + (i - 1) * l.bn, TRUE, offs_m, key)]
  IN  NonEmpty(below \o diag)
KeyLanes(l, start_m) == 0 .. start_m * l.bm + Cdiv(l.bm, l.bn) * l.bn - 1

\* keys and values of a packed sequence, read as zero beyond its end
PackedKeys(l, pid, mem) ==
  LET k_start == Before(l.kv_lens, pid[1])
  IN  [n \in KeyLanes(l, pid[2]) |->
         IF n < l.kv_lens[pid[1] + 1]
           THEN << Load(mem, <<"k", k_start + n>>), Load(mem, <<"v", k_start + n>>) >> ELSE Zero]

\* _varlen_attn_fwd_block_kernel: program <<seq_id, start_m, q_head>>
_varlen_attn_fwd_block_kernel(l, pid, mem) ==
  LET q_start == Before(l.q_lens, pid[1])
      q_len   == l.q_lens[pid[1] + 1]
      kv_len  == l.kv_lens[pid[1] + 1]
      q_abs_start == kv_len - q_len
      valid_q == {m \in Lanes(pid[2], l.bm) : q_abs_start <= m /\ m < kv_len}
      Row(m) == q_start + (m - q_abs_start)
  IN  IF pid[2] * l.bm >= kv_len \/ (pid[2] + 1) * l.bm <= q_abs_start THEN {}
      ELSE { << <<o, Row(m), pid[3]>>,
                << Load(mem, <<"q", Row(m)>>), kv_head_of(l, pid[3]),
                   OnlineSoftmax(l, pid[2], m, PackedKeys(l, pid, mem)) >> >> :
             o \in {"out", "lse"}, m \in valid_q }

\* _varlen_attn_bwd_dq_kernel: rows by index in the chunk, all tiles of keys
_varlen_attn_bwd_dq_kernel(l, pid, mem) ==
  LET q_start == Before(l.q_lens, pid[1])
      k_start == Before(l.kv_lens, pid[1])
      q_len   == l.q_lens[pid[1] + 1]
      kv_len  == l.kv_lens[pid[1] + 1]
      Tile(m, t) == LET ns == Ascending({n \in Lanes(t, l.bn) : n < kv_len /\ QAbs(l, pid[1], m) >= n})
                    IN  [i \in DOMAIN ns |-> Load(mem, <<"k", k_start + ns[i]>>)]
      Fold(m) == NonEmpty([t \in 1 .. Cdiv(kv_len, l.bn) |-> Tile(m, t - 1)])
  IN  IF pid[2] * l.bm >= q_len THEN {}
      ELSE { << <<"dq", q_start + m, pid[3]>>,
                << Load(mem, <<"q", q_start + m>>), Load(mem, <<"lse", q_start + m, pid[3]>>),
                   kv_head_of(l, pid[3]), Fold(m) >> >> : m \in {x \in Lanes(pid[2], l.bm) : x < q_len} }

(* _varlen_attn_bwd_dkv_kernel: one block of keys of one KV head; loops    *)
(* over the query heads of its group, then over tiles of query rows.       *)
_varlen_attn_bwd_dkv_kernel(l, pid, mem) ==
  LET groups  == l.hq \div l.hk
      q_start == Before(l.q_lens, pid[1])
      k_start == Before(l.kv_lens, pid[1])
      q_len   == l.q_lens[pid[1] + 1]
      kv_len  == l.kv_lens[pid[1] + 1]
      Tile(n, h, t) ==
        LET ms == Ascending({m \in Lanes(t, l.bm) : m < q_len /\ QAbs(l, pid[1], m) >= n})
        IN  [i \in DOMAIN ms |-> << Load(mem, <<"q", q_start + ms[i]>>), h,
                                    Load(mem, <<"lse", q_start + ms[i], h>>)[1] >>]
      Tiles(n, h) == [t \in 1 .. Cdiv(q_len, l.bm) |-> Tile(n, h, t - 1)]
      Fold(n) == FlattenSeq([g \in 1 .. groups |-> NonEmpty(Tiles(n, pid[3] * groups + g - 1))])
      ns == {n \in Lanes(pid[2], l.bn) : n < kv_len}
  IN  IF pid[2] * l.bn >= kv_len THEN {}
      ELSE { << <<d, k_start + n, pid[3]>>, <<Load(mem, <<"k", k_start + n>>), Fold(n)>> >> :
             d \in {"dk", "dv"}, n \in ns }

-----------------------------------------------------------------------------
(* _store_cache_kernel: one token per program; slot -1 marks a row that    *)
(* must not be stored (padding of a CUDA graph).                           *)
_store_cache_kernel(l, pid, mem) ==
  LET slot == Load(mem, <<"slot", pid[1]>>)
  IN  IF slot = -1 THEN {} ELSE {<< <<l.cache, slot>>, Load(mem, <<"tok", pid[1]>>) >>}

(* _paged_attn_fwd_block_kernel: as the packed kernel, with the keys found *)
(* through the page table of the sequence.                                 *)
_paged_attn_fwd_block_kernel(l, pid, mem) ==
  LET q_start == Load(mem, <<"qsl", pid[1]>>)
      q_len   == Load(mem, <<"qsl", pid[1] + 1>>) - q_start
      kv_len  == Load(mem, <<"ctx", pid[1]>>)
      q_abs_start == kv_len - q_len
      valid_q == {m \in Lanes(pid[2], l.bm) : q_abs_start <= m /\ m < kv_len}
      physical_page(n) == Load(mem, <<"bt", pid[1], n \div PageSize>>)
      Slot(n) == physical_page(n) * PageSize + (n - (n \div PageSize) * PageSize)
      key == [n \in KeyLanes(l, pid[2]) |->
                IF n < kv_len /\ physical_page(n) >= 0
                  THEN << Load(mem, <<"kc", Slot(n)>>), Load(mem, <<"vc", Slot(n)>>) >>
                  ELSE Zero]
      Row(m) == q_start + (m - q_abs_start)
  IN  IF pid[2] * l.bm >= kv_len \/ (pid[2] + 1) * l.bm <= q_abs_start THEN {}
      ELSE { << <<"out", Row(m), pid[3]>>,
                << Load(mem, <<"tok", Row(m)>>), kv_head_of(l, pid[3]),
                   OnlineSoftmax(l, pid[2], m, key) >> >> : m \in valid_q }

\* Mutant: the table starts at 0 instead of -1.
physical_to_logical_zeros(mem, s, b) ==
  LET js == {j \in 0 .. MaxBlocksPerReq - 1 : Load(mem, <<"bt", s, j>>) = b}
  IN  IF js = {} THEN 0 ELSE CHOOSE j \in js : \A i \in js : i <= j

\* the page table inverted: logical block of sequence s in physical block b, or -1
physical_to_logical(mem, s, b) ==
  LET js == {j \in 0 .. MaxBlocksPerReq - 1 : Load(mem, <<"bt", s, j>>) = b}
  IN  IF js = {} THEN -1 ELSE CHOOSE j \in js : \A i \in js : i <= j

(* _prepare_paged_kv: flex attention sees the whole cache as one row of    *)
(* physical slots; its mask turns a slot back into a logical position of   *)
(* the sequence of the query.  The kernel itself is torch's; it visits the *)
(* slots in physical order.                                                *)
_prepare_paged_kv(l, mem) ==
  LET Seqs == 0 .. l.num_seqs - 1
      qsl(s) == Load(mem, <<"qsl", s>>)
      ctx(s) == Load(mem, <<"ctx", s>>)
      seq_id(q) == IF l.num_seqs > 1
                     THEN CHOOSE s \in Seqs : qsl(s) <= q /\ q < qsl(s + 1) ELSE 0
      abs_q(q) == IF l.num_seqs > 1
                    THEN (ctx(seq_id(q)) - (qsl(seq_id(q) + 1) - qsl(seq_id(q)))) + (q - qsl(seq_id(q)))
                    ELSE (ctx(0) - l.num_tokens) + q
      ok(q, slot) ==
        LET logical_block == physical_to_logical(mem, seq_id(q), slot \div PageSize)
            logical_kv_idx == logical_block * PageSize + (slot % PageSize)
        IN  logical_block >= 0 /\ logical_kv_idx <= abs_q(q) /\ logical_kv_idx < ctx(seq_id(q))
      Visited(q) == Ascending({slot \in 0 .. MaxBlocks * PageSize - 1 : ok(q, slot)})
  IN  { << <<"flex", q>>, << Load(mem, <<"tok", q>>),
                             [i \in DOMAIN Visited(q) |->
                                << Load(mem, <<"kc", Visited(q)[i]>>), Load(mem, <<"vc", Visited(q)[i]>>) >>] >> >> :
        q \in 0 .. l.num_tokens - 1 }

-----------------------------------------------------------------------------
(* Metadata of a step.  A request of a batch is [req, start, n, blocks]:   *)
(* tokens start .. start + n - 1, in the cache blocks listed.              *)
QLens(batch) == [i \in DOMAIN batch |-> batch[i].n]
Total(batch) == Before(QLens(batch), Len(batch))
TokenAt(batch, row) ==
  LET i == CHOOSE j \in DOMAIN batch :
             Before(QLens(batch), j - 1) <= row /\ row < Before(QLens(batch), j)
  IN  << batch[i], batch[i].start + (row - Before(QLens(batch), i - 1)) >>

\* the cache slot of position pos of an entry of a batch
SlotOf(e, pos) == e.blocks[(pos \div PageSize) + 1] * PageSize + (pos % PageSize)

(* _prepare_gen_ctx: slots, context lengths, block tables padded with -1   *)
(* and query offsets of the packed batch.                                  *)
_prepare_gen_ctx(batch) ==
  LET Rows == 0 .. Total(batch) - 1
      Seqs == 0 .. Len(batch) - 1
  IN  { << <<"slot", r>>, SlotOf(TokenAt(batch, r)[1], TokenAt(batch, r)[2]) >> : r \in Rows }
      \cup { << <<"tok", r>>, << TokenAt(batch, r)[1].req, TokenAt(batch, r)[2] >> >> : r \in Rows }
      \cup { << <<"ctx", s>>, batch[s + 1].start + batch[s + 1].n >> : s \in Seqs }
      \cup { << <<"bt", s, j>>, IF j < Len(batch[s + 1].blocks) THEN batch[s + 1].blocks[j + 1] ELSE -1 >> :
             s \in Seqs, j \in 0 .. MaxBlocksPerReq - 1 }
      \cup { << <<"qsl", s>>, Before(QLens(batch), s) >> : s \in 0 .. Len(batch) }

\* a store that overrides an earlier one of the same program
Over(first, second) == second \cup {s \in first : \A t \in second : t[1] # s[1]}

\* Mutant: the slots of the previous batch are left in place.
ResetBuffersButSlots(desc) ==
  { << <<"tok", r>>, Pad >> : r \in 0 .. desc.num_tokens - 1 }
  \cup { << <<"ctx", s>>, 0 >> : s \in 0 .. MaxNumSeqs - 1 }
  \cup { << <<"bt", s, j>>, -1 >> : s \in 0 .. MaxNumSeqs - 1, j \in 0 .. MaxBlocksPerReq - 1 }
  \cup { << <<"qsl", s>>, 0 >> : s \in 0 .. MaxNumSeqs }

\* inputs zeroed up to the captured size, metadata over the whole buffers
ResetBuffers(desc) ==
  { << <<"slot", r>>, -1 >> : r \in 0 .. MaxNumBatchedTokens - 1 }
  \cup { << <<"tok", r>>, Pad >> : r \in 0 .. desc.num_tokens - 1 }
  \cup { << <<"ctx", s>>, 0 >> : s \in 0 .. MaxNumSeqs - 1 }
  \cup { << <<"bt", s, j>>, -1 >> : s \in 0 .. MaxNumSeqs - 1, j \in 0 .. MaxBlocksPerReq - 1 }
  \cup { << <<"qsl", s>>, 0 >> : s \in 0 .. MaxNumSeqs }

(* _prepare_input_buffers_from_gen_ctx: the same into static buffers, every *)
(* buffer reset first and the rows beyond the batch made zero-length       *)
(* requests that end at the real token count.                              *)
_prepare_input_buffers_from_gen_ctx(batch, desc) ==
  LET padded == { << <<"bt", s, j>>, 0 >> : s \in Len(batch) .. desc.num_seqs - 1,
                                            j \in 0 .. MaxBlocksPerReq - 1 }
                \cup { << <<"qsl", s>>, Total(batch) >> : s \in Len(batch) + 1 .. desc.num_seqs }
  IN  Over(Over(ResetBuffers(desc), _prepare_gen_ctx(batch)), padded)

\* build_capture_sizes: powers of two, the last at or above the maximum
build_capture_sizes(max_size) ==
  {s \in {2 ^ i : i \in 0 .. max_size} : s < 2 * max_size}

\* CudaGraphManager.dispatch: the smallest captured shape that covers the batch
dispatch(num_seqs, num_tokens) ==
  LET descs == { [num_tokens |-> s, num_seqs |-> IF s < MaxNumSeqs THEN s ELSE MaxNumSeqs] :
                 s \in build_capture_sizes(MaxNumBatchedTokens) }
      fits == {d \in descs : d.num_seqs >= num_seqs /\ d.num_tokens >= num_tokens}
  IN  CHOOSE d \in fits : \A e \in fits : d.num_tokens <= e.num_tokens

-----------------------------------------------------------------------------
\* Mutant: the grid leaves out a partial last tile of the table.
PagedForwardFloor(num_seqs, num_tokens, tile) ==
  << [kernel |-> "store", cache |-> "kc", grid |-> {<<i>> : i \in 0 .. num_tokens - 1}],
     [kernel |-> "store", cache |-> "vc", grid |-> {<<i>> : i \in 0 .. num_tokens - 1}],
     [kernel |-> "paged", hq |-> 1, hk |-> 1, bm |-> tile[1], bn |-> tile[2],
      grid |-> (0 .. num_seqs - 1) \X (0 .. ((MaxBlocksPerReq * PageSize) \div tile[1]) - 1) \X {0}] >>

(* flash_attention_forward with a paged context: store the new keys and    *)
(* values, then attend; the grid spans the whole page table, since the     *)
(* lengths are on the device.                                              *)
PagedForward(num_seqs, num_tokens, tile) ==
  << [kernel |-> "store", cache |-> "kc", grid |-> {<<i>> : i \in 0 .. num_tokens - 1}],
     [kernel |-> "store", cache |-> "vc", grid |-> {<<i>> : i \in 0 .. num_tokens - 1}],
     [kernel |-> "paged", hq |-> 1, hk |-> 1, bm |-> tile[1], bn |-> tile[2],
      grid |-> (0 .. num_seqs - 1) \X (0 .. Cdiv(MaxBlocksPerReq * PageSize, tile[1]) - 1) \X {0}] >>

\* One step of the inferencer: eager, through a CUDA graph, or with flex attention
EagerStep(batch, tile) ==
  << [kernel |-> "prepare", batch |-> batch, grid |-> {<<0>>}] >>
  \o PagedForward(Len(batch), Total(batch), tile)
GraphStep(batch, tile) ==
  LET desc == dispatch(Len(batch), Total(batch))
  IN  << [kernel |-> "prepare_graph", batch |-> batch, desc |-> desc, grid |-> {<<0>>}] >>
      \o PagedForward(desc.num_seqs, desc.num_tokens, tile)
FlexStep(batch) ==
  << [kernel |-> "prepare", batch |-> batch, grid |-> {<<0>>}] >>
  \o SubSeq(PagedForward(Len(batch), Total(batch), <<1, 1>>), 1, 2)
  \o << [kernel |-> "flex", num_seqs |-> Len(batch), num_tokens |-> Total(batch), grid |-> {<<0>>}] >>

(* _NonpagedFlashAttentionVarlen.forward and backward: packed sequences    *)
(* with a prefix of cached keys in front of the queries (none in training).*)
Longest(lens) == CHOOSE n \in {lens[i] : i \in DOMAIN lens} : \A i \in DOMAIN lens : lens[i] <= n
PackedLaunch(kernel, q_lens, kv_lens, hq, hk, tile, tiles, heads) ==
  [kernel |-> kernel, q_lens |-> q_lens, kv_lens |-> kv_lens, hq |-> hq, hk |-> hk,
   bm |-> tile[1], bn |-> tile[2],
   grid |-> (0 .. Len(q_lens) - 1) \X (0 .. tiles - 1) \X (0 .. heads - 1)]
NonpagedForward(q_lens, kv_lens, hq, hk, tile) ==
  PackedLaunch("varlen", q_lens, kv_lens, hq, hk, tile, Cdiv(Longest(kv_lens), tile[1]), hq)
NonpagedBackward(q_lens, kv_lens, hq, hk, tile) ==
  << PackedLaunch("dq", q_lens, kv_lens, hq, hk, tile, Cdiv(Longest(q_lens), tile[1]), hq),
     PackedLaunch("dkv", q_lens, kv_lens, hq, hk, tile, Cdiv(Longest(kv_lens), tile[2]), hk) >>

==============================================================================
