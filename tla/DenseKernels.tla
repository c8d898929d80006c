----------------------------- MODULE DenseKernels -----------------------------
(***************************************************************************)
(* The dense batch-invariant kernels.  A kernel is the set of stores one   *)
(* program of its grid makes: pairs <<cell, value>>, where a value is the  *)
(* term that program computes, the order of every reduction included       *)
(* (floating-point addition does not associate).  A reduction over lanes   *)
(* of one tile is one unit, so a row reduction is a sequence of tiles; a   *)
(* dot product chains the accumulator through the k lanes, so it is a flat *)
(* sequence.  Lanes masked out load 0 and leave the accumulator alone.     *)
(***************************************************************************)
EXTENDS Tiles, Sequences, FiniteSets, SequencesExt

CONSTANTS NUM_SMS,       \* programs of a persistent launch
          MatmulTiles,   \* <<BLOCK_SIZE_M, BLOCK_SIZE_N, BLOCK_SIZE_K>> candidates
          GROUP_SIZE_M,  \* row tiles per group
          RowBlock,      \* BLOCK_SIZE of the row reductions
          BmmLadder,     \* block sizes of M and N triton_bmm chooses from, ascending
          BmmLadderK     \* ... and of K: its ladder stops one step earlier

ASSUME DenseAssumption ==
  /\ NUM_SMS \in Nat \ {0} /\ GROUP_SIZE_M \in Nat \ {0} /\ RowBlock \in Nat \ {0}
  /\ \A cfg \in MatmulTiles : \A i \in 1 .. 3 : cfg[i] \in Nat \ {0}
  /\ BmmLadder \in Seq(Nat \ {0}) /\ BmmLadder # << >>
  /\ BmmLadderK \in Seq(Nat \ {0}) /\ BmmLadderK # << >>

-----------------------------------------------------------------------------
(* matmul_kernel_persistent: program pid takes tiles pid, pid + NUM_SMS,   *)
(* ...; a second counter tile_id_c, one stride behind, names the tile that *)
(* is stored.  Columns beyond N are read from column 0, rows beyond M are  *)
(* zero; neither is stored.                                                *)
matmul_kernel_persistent(l, pid) ==
  LET num_pid_m == Cdiv(l.M, l.cfg[1])
      num_pid_n == Cdiv(l.N, l.cfg[2])
      Tile(t) == get_pid_mn(t, num_pid_m, num_pid_n, GROUP_SIZE_M)
      Iters == {i \in 0 .. num_pid_m * num_pid_n : pid + i * NUM_SMS < num_pid_m * num_pid_n}
      tile_id(i)   == pid + i * NUM_SMS
      tile_id_c(i) == (pid - NUM_SMS) + (i + 1) * NUM_SMS
      Col(n) == IF n < l.N THEN n ELSE 0
      Acc(i, a, b) == << Tile(tile_id(i))[1] * l.cfg[1] + a,
                         Col(Tile(tile_id(i))[2] * l.cfg[2] + b),
                         FlattenSeq(Chunks(l.K, l.cfg[3])) >>
      Cm(i, a) == Tile(tile_id_c(i))[1] * l.cfg[1] + a
      Cn(i, b) == Tile(tile_id_c(i))[2] * l.cfg[2] + b
      Bias(n) == IF l.bias THEN <<n>> ELSE <<>>
  IN  { << <<"c", Cm(x[1], x[2]), Cn(x[1], x[3])>>,
           Acc(x[1], x[2], x[3]) \o Bias(Cn(x[1], x[3])) >> :
        x \in {y \in Iters \X (0 .. l.cfg[1] - 1) \X (0 .. l.cfg[2] - 1) :
                 Cm(y[1], y[2]) < l.M /\ Cn(y[1], y[3]) < l.N} }

(* _bf16_matmul_config: the first candidate of a cost ranking that fits    *)
(* the shared memory.  The ranking depends on M and on the device; what    *)
(* matters is that any candidate may be taken for any shape.               *)
Bf16MatmulConfigs == MatmulTiles

\* matmul_persistent: a 1-D grid, at most one program per SM
matmul_persistent(M, N, K, bias) ==
  { [kernel |-> "matmul", M |-> M, N |-> N, K |-> K, bias |-> bias, cfg |-> cfg,
     grid |-> {<<p>> : p \in {q \in 0 .. NUM_SMS - 1 :
                                q < Cdiv(M, cfg[1]) * Cdiv(N, cfg[2])}}] :
    cfg \in Bf16MatmulConfigs }

-----------------------------------------------------------------------------
(* _bmm_kernel: one (batch, tile) per program; lanes beyond M or N are     *)
(* clamped to index 0 for the address and masked out of the store.         *)
_bmm_kernel(l, pid) ==
  LET num_pid_n == Cdiv(l.N, l.bn)
      M(a) == (pid[2] \div num_pid_n) * l.bm + a
      N(b) == (pid[2] % num_pid_n) * l.bn + b
      Clamp(x, n) == IF x < n THEN x ELSE 0
      Valid == {x \in (0 .. l.bm - 1) \X (0 .. l.bn - 1) : M(x[1]) < l.M /\ N(x[2]) < l.N}
  IN  IF pid[1] >= l.B \/ pid[2] \div num_pid_n >= Cdiv(l.M, l.bm) THEN {}
      ELSE { << <<"bmm", pid[1], Clamp(M(x[1]), l.M), Clamp(N(x[2]), l.N)>>,
                << pid[1], M(x[1]), N(x[2]), FlattenSeq(Chunks(l.K, l.bk)) >> >> : x \in Valid }

\* the ladders of triton_bmm: the first block size that covers n, else the last
BmmBlock(ladder, n) ==
  LET i == SelectInSeq(ladder, LAMBDA b : n <= b)
  IN  IF i = 0 THEN Last(ladder) ELSE ladder[i]

triton_bmm(B, M, N, K) ==
  [kernel |-> "bmm", B |-> B, M |-> M, N |-> N, K |-> K,
   bm |-> BmmBlock(BmmLadder, M), bn |-> BmmBlock(BmmLadder, N), bk |-> BmmBlock(BmmLadderK, K),
   grid |-> (0 .. B - 1) \X (0 .. Cdiv(M, BmmBlock(BmmLadder, M)) * Cdiv(N, BmmBlock(BmmLadder, N)) - 1)]

-----------------------------------------------------------------------------
(* _log_softmax_kernel: one row per program; a maximum and a sum over the  *)
(* tiles of the row, then one store per column.                            *)
_log_softmax_kernel(l, pid) ==
  LET max_val == << "max", Chunks(l.n_cols, RowBlock) >>
      sum_exp == << "sum", max_val, Chunks(l.n_cols, RowBlock) >>
  IN  { << <<"logp", pid[1], col>>, <<pid[1], col, max_val, sum_exp>> >> :
        col \in UNION {{j \in Lanes(i, RowBlock) : j < l.n_cols} :
                         i \in 0 .. Cdiv(l.n_cols, RowBlock) - 1} }

log_softmax(n_rows, n_cols) ==
  [kernel |-> "log_softmax", n_rows |-> n_rows, n_cols |-> n_cols,
   grid |-> {<<r>> : r \in 0 .. n_rows - 1}]

(* _rms_norm_kernel: the sum of squares of a row, tile by tile, then every *)
(* column scaled by it and by its own weight.                              *)
_rms_norm_kernel(l, pid) ==
  LET sum_sq == Chunks(l.n_cols, RowBlock)
  IN  { << <<"rms", pid[1], col>>, <<pid[1], col, sum_sq>> >> :
        col \in UNION {{j \in Lanes(i, RowBlock) : j < l.n_cols} :
                         i \in 0 .. Cdiv(l.n_cols, RowBlock) - 1} }

_rms_norm_forward(n_rows, n_cols) ==
  [kernel |-> "rms_norm", n_rows |-> n_rows, n_cols |-> n_cols,
   grid |-> {<<r>> : r \in 0 .. n_rows - 1}]

(* mean_kernel: one output element of the (M, N, K) view per program, the  *)
(* element found by dividing the program id.                               *)
mean_kernel(l, pid) ==
  LET m_idx == pid[1] \div l.K
      k_idx == pid[1] % l.K
  IN  IF m_idx >= l.M \/ k_idx >= l.K THEN {}
      ELSE {<< <<"mean", m_idx, k_idx>>, <<m_idx, k_idx, Chunks(l.N, RowBlock)>> >>}

mean_launch(M, N, K) ==
  [kernel |-> "mean", M |-> M, N |-> N, K |-> K, grid |-> {<<p>> : p \in 0 .. M * K - 1}]

\* mean_dim: the axes before and after the reduced one, flattened
mean_dim(shape, dim) ==
  LET d == IF dim < 0 THEN dim + Len(shape) ELSE dim
      Product(s) == FoldLeft(LAMBDA a, b : a * b, 1, s)
      M == Product(SubSeq(shape, 1, d))
      K == Product(SubSeq(shape, d + 2, Len(shape)))
  IN  mean_launch(M, shape[d + 1], K)

==============================================================================
