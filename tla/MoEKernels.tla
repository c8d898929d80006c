------------------------------ MODULE MoEKernels ------------------------------
(***************************************************************************)
(* The fused mixture-of-experts layer: expert histogram, dispatch of       *)
(* tokens to expert-sorted rows, grouped GEMMs over those rows and the     *)
(* gather back, forward and backward, and the variant for newer devices    *)
(* built on an external GEMM.  Cells and terms as in the other kernels; a  *)
(* launch l has T tokens, topk experts per token, E experts.               *)
(***************************************************************************)
EXTENDS AttentionKernels

CONSTANTS HistBlock, IndexBlock,  \* BLOCK_SIZE of the histogram and of the index kernel
          HiddenBlock,            \* BLOCK_N of scatter and gather
          GroupTile,              \* <<BLOCK_M, BLOCK_N, BLOCK_K, GROUP>> of the grouped GEMMs
          H, I                    \* hidden size, expert intermediate size

ASSUME MoEAssumption ==
  /\ HistBlock \in Nat \ {0} /\ IndexBlock \in Nat \ {0} /\ HiddenBlock \in Nat \ {0}
  /\ \A i \in 1 .. 4 : GroupTile[i] \in Nat \ {0}
  /\ H \in Nat /\ I \in Nat

\* triton.next_power_of_2: the number from n on that has no odd divisor but 1
PowerOf2(p) == \A d \in 2 .. p : p % d = 0 => d % 2 = 0
next_power_of_2(n) == CHOOSE p \in n .. 2 * n - 1 : PowerOf2(p)

Flat(l) == 0 .. l.T * l.topk - 1
ExpertOf(l, mem, f) == Load(mem, <<"eidx", f \div l.topk, f % l.topk>>)

-----------------------------------------------------------------------------
(* _expert_histogram_kernel: what one program adds atomically.  Lanes      *)
(* beyond the input fall in the last, unused bin of a power-of-two table.  *)
_expert_histogram_kernel(l, pid, mem) ==
  LET NUM_BINS_LAST_UNUSED == next_power_of_2(l.E + 1)
      data(f) == IF f \in Flat(l) THEN ExpertOf(l, mem, f) ELSE NUM_BINS_LAST_UNUSED - 1
  IN  { << <<"hist", e>>, Cardinality({f \in Lanes(pid[1], HistBlock) : data(f) = e}) >> : e \in 0 .. l.E - 1 }

(* _moe_index_compute_kernel, step `expert' of a program: reserve the last *)
(* free slots of the expert with one atomic subtraction and number the     *)
(* program's tokens of that expert into them.                              *)
IndexLanes(l, pid, expert, mem) ==
  {f \in Lanes(pid[1], IndexBlock) \cap Flat(l) : ExpertOf(l, mem, f) = expert}
_moe_index_compute_add(l, pid, expert, mem) ==
  {<< <<"cumcopy", expert>>, -Cardinality(IndexLanes(l, pid, expert, mem)) >>}
\* Mutant: the old value of the counter is taken for the new one.
_moe_index_compute_old(l, pid, expert, mem) ==
  LET mine == IndexLanes(l, pid, expert, mem)
  IN  { << <<"sidx", f \div l.topk, f % l.topk>>,
           Load(mem, <<"cumcopy", expert>>) + Cardinality({g \in mine : g <= f}) - 1 >> : f \in mine }
_moe_index_compute_kernel(l, pid, expert, mem) ==
  LET mine == IndexLanes(l, pid, expert, mem)
      slots_to_reserve == Cardinality(mine)
      slot(f) == Load(mem, <<"cumcopy", expert>>) - slots_to_reserve
                 + Cardinality({g \in mine : g <= f}) - 1
  IN  { << <<"sidx", f \div l.topk, f % l.topk>>, slot(f) >> : f \in mine }

\* Mutant: ties are not broken by position.
ScatterIndexTied(l, mem) ==
  { << <<"sidx", f \div l.topk, f % l.topk>>,
       Cardinality({g \in Flat(l) : ExpertOf(l, mem, g) < ExpertOf(l, mem, f)}) >> : f \in Flat(l) }

\* flat.argsort(stable=True).argsort(): the row of each (token, k) among expert-sorted rows
ScatterIndex(l, mem) ==
  { << <<"sidx", f \div l.topk, f % l.topk>>,
       Cardinality({g \in Flat(l) : \/ ExpertOf(l, mem, g) < ExpertOf(l, mem, f)
                                    \/ ExpertOf(l, mem, g) = ExpertOf(l, mem, f) /\ g < f}) >> : f \in Flat(l) }

\* torch.cumsum of the histogram
CumSum(l, mem, name) ==
  { << <<name, e>>, FoldLeft(LAMBDA a, b : a + b, 0, [i \in 1 .. e + 1 |-> Load(mem, <<"hist", i - 1>>)]) >> :
    e \in 0 .. l.E - 1 }

(* _build_moe_indices: the same dispatch for the external GEMM, with the   *)
(* token of every sorted row (A_idx) in place of scattered rows.           *)
_build_moe_indices(l, mem) ==
  ScatterIndex(l, mem)
  \cup { << <<"aidx", s[2]>>, s[1][2] >> : s \in ScatterIndex(l, mem) }

-----------------------------------------------------------------------------
Columns(pid, n) == {j \in Lanes(pid[2], HiddenBlock) : j < n}
Sidx(mem, t, i) == Load(mem, <<"sidx", t, i>>)

\* _moe_scatter_kernel: token row to each of its topk rows
_moe_scatter_kernel(l, pid, mem) ==
  { << <<l.o, Sidx(mem, pid[1], i), n>>, Load(mem, <<l.x, pid[1], n>>) >> :
    i \in 0 .. l.topk - 1, n \in Columns(pid, H) }

\* _moe_gather_kernel: the topk rows of a token summed in the order of the router
_moe_gather_kernel(l, pid, mem) ==
  { << <<l.y, pid[1], n>>, [i \in 1 .. l.topk |-> Load(mem, <<l.x, Sidx(mem, pid[1], i - 1), n>>)] >> :
    n \in Columns(pid, H) }

GroupStart(mem, g) == IF g > 0 THEN Load(mem, <<"cum", g - 1>>) ELSE 0
GroupSize(mem, g)  == Load(mem, <<"cum", g>>) - GroupStart(mem, g)

(* group_gemm_same_nk_kernel: program <<tile, expert>>; rows of the expert *)
(* times its weight.  Row addresses wrap around inside the expert's rows;  *)
(* the store is masked.                                                    *)
GroupLanes(tile, m, n) ==
  {x \in Lanes(tile[1], GroupTile[1]) \X Lanes(tile[2], GroupTile[2]) : x[1] < m /\ x[2] < n}
GroupRow(l, mem, g, m) ==
  LET ks == FlattenSeq(Chunks(l.K, GroupTile[3]))
  IN  [i \in DOMAIN ks |-> Load(mem, <<l.a, GroupStart(mem, g) + (m % GroupSize(mem, g)), ks[i]>>)]
group_gemm_same_nk_kernel(l, pid, mem) ==
  LET tile == get_pid_mn(pid[1], Cdiv(l.max_M, GroupTile[1]), Cdiv(l.N, GroupTile[2]), GroupTile[4])
      g == pid[2]
      m_size == GroupSize(mem, g)
  IN  IF tile[1] * GroupTile[1] >= m_size THEN {}
      ELSE { << <<l.c, GroupStart(mem, g) + x[1], x[2]>>,
                << l.b, g, x[2] % l.N, GroupRow(l, mem, g, x[1]) >> >> : x \in GroupLanes(tile, m_size, l.N) }

(* group_gemm_same_mn_kernel: the weight gradient of one expert, its rows  *)
(* reduced in blocks; an expert without rows gets zeros.                   *)
GroupReduced(l, mem, g, m, n) ==
  LET rs == Chunks(GroupSize(mem, g), GroupTile[3])
  IN  IF GroupSize(mem, g) = 0 THEN <<>>
      ELSE [t \in DOMAIN rs |->
              [i \in DOMAIN rs[t] |-> << Load(mem, <<l.a, GroupStart(mem, g) + rs[t][i], m>>),
                                        Load(mem, <<l.b, GroupStart(mem, g) + rs[t][i], n>>) >>]]
group_gemm_same_mn_kernel(l, pid, mem) ==
  LET tile == get_pid_mn(pid[1], Cdiv(l.M, GroupTile[1]), Cdiv(l.N, GroupTile[2]), GroupTile[4])
  IN  { << <<l.c, pid[2], x[1], x[2]>>, GroupReduced(l, mem, pid[2], x[1], x[2]) >> :
        x \in GroupLanes(tile, l.M, l.N) }

(* gemm of the quack library: rows grouped by cu_seqlens_m, row r of A     *)
(* being A_idx[r] when an index is given.                                  *)
quack_group(l, mem, r) == CHOOSE g \in 0 .. l.E - 1 : GroupStart(mem, g) <= r /\ r < Load(mem, <<"cum", g>>)
quack_row(l, mem, r) ==
  [i \in 1 .. l.K |-> Load(mem, <<l.a, IF l.idx THEN Load(mem, <<"aidx", r>>) ELSE r, i - 1>>)]
quack_gemm(l, mem) ==
  { << <<l.c, r, n>>, << l.b, quack_group(l, mem, r), n, quack_row(l, mem, r) >> >> :
    r \in Flat(l), n \in 0 .. l.N - 1 }

\* its form with cu_seqlens_k: the rows of each expert are the reduced dimension
quack_reduced(l, mem, g, m, n) ==
  [i \in 1 .. GroupSize(mem, g) |-> << Load(mem, <<l.a, GroupStart(mem, g) + i - 1, m>>),
                                      Load(mem, <<l.b, GroupStart(mem, g) + i - 1, n>>) >>]
quack_gemm_k(l, mem) ==
  { << <<l.c, g, m, n>>, << quack_reduced(l, mem, g, m, n) >> >> :
    g \in 0 .. l.E - 1, m \in 0 .. l.M - 1, n \in 0 .. l.N - 1 }

(* The elementwise steps between the GEMMs: SiLU, product and the gate of  *)
(* the row (step 5 to 8-2), and their gradients (steps 8-2 to 5).          *)
\* Mutant: the gates are left in the order of the tokens.
UnscatteredGate(l, mem, r) == Load(mem, <<"gate", r \div l.topk, r % l.topk>>)
ScatteredGate(l, mem, r) ==
  LET f == CHOOSE x \in Flat(l) : Sidx(mem, x \div l.topk, x % l.topk) = r
  IN  Load(mem, <<"gate", f \div l.topk, f % l.topk>>)
Activation(l, mem) ==
  { << <<"wact", r, j>>, << "act", Load(mem, <<"fc1_1", r, j>>), Load(mem, <<"fc1_2", r, j>>),
                            ScatteredGate(l, mem, r) >> >> : r \in Flat(l), j \in 0 .. I - 1 }
RowGrad(l, mem, d) ==
  { << <<d, r, j>>, << d, Load(mem, <<"g_wact", r, j>>), Load(mem, <<"fc1_1", r, j>>),
                       Load(mem, <<"fc1_2", r, j>>), ScatteredGate(l, mem, r) >> >> :
    r \in Flat(l), j \in 0 .. I - 1 }
GateGrad(l, mem) ==
  { << <<"g_gate", f \div l.topk, f % l.topk>>,
       [j \in 1 .. I |-> [x \in {"fc1_1", "fc1_2", "g_wact"} |->
                            Load(mem, <<x, Sidx(mem, f \div l.topk, f % l.topk), j - 1>>)]] >> : f \in Flat(l) }
ActivationGrad(l, mem) == RowGrad(l, mem, "g_fc1_1") \cup RowGrad(l, mem, "g_fc1_2") \cup GateGrad(l, mem)
GradSum(l, mem) ==
  { << <<"g_scat", r, n>>, << Load(mem, <<"g_scat1", r, n>>), Load(mem, <<"g_scat2", r, n>>) >> >> :
    r \in Flat(l), n \in 0 .. H - 1 }

-----------------------------------------------------------------------------
\* Launches; s is the shape [T, topk, E]
RowGrid(s) == (0 .. s.T - 1) \X (0 .. Cdiv(H, HiddenBlock) - 1)
moe_scatter(s, x, o) ==
  [kernel |-> "scatter", T |-> s.T, topk |-> s.topk, E |-> s.E, x |-> x, o |-> o, grid |-> RowGrid(s)]
moe_gather(s, x, y) ==
  [kernel |-> "gather", T |-> s.T, topk |-> s.topk, E |-> s.E, x |-> x, y |-> y, grid |-> RowGrid(s)]
expert_histogram(s) ==
  [kernel |-> "histogram", T |-> s.T, topk |-> s.topk, E |-> s.E,
   grid |-> {<<p>> : p \in 0 .. Cdiv(s.T * s.topk, HistBlock) - 1}]
\* Mutant: a partial last tile of rows is not launched.
group_gemm_same_nk_floor(s, a, b, c, max_M, N, K) ==
  [kernel |-> "gemm_nk", T |-> s.T, topk |-> s.topk, E |-> s.E,
   a |-> a, b |-> b, c |-> c, max_M |-> max_M, N |-> N, K |-> K,
   grid |-> (0 .. (max_M \div GroupTile[1]) * Cdiv(N, GroupTile[2]) - 1) \X (0 .. s.E - 1)]
group_gemm_same_nk(s, a, b, c, max_M, N, K) ==
  [kernel |-> "gemm_nk", T |-> s.T, topk |-> s.topk, E |-> s.E,
   a |-> a, b |-> b, c |-> c, max_M |-> max_M, N |-> N, K |-> K,
   grid |-> (0 .. Cdiv(max_M, GroupTile[1]) * Cdiv(N, GroupTile[2]) - 1) \X (0 .. s.E - 1)]
group_gemm_same_mn(s, a, b, c, M, N) ==
  [kernel |-> "gemm_mn", T |-> s.T, topk |-> s.topk, E |-> s.E,
   a |-> a, b |-> b, c |-> c, M |-> M, N |-> N,
   grid |-> (0 .. Cdiv(M, GroupTile[1]) * Cdiv(N, GroupTile[2]) - 1) \X (0 .. s.E - 1)]
gemm(s, a, b, c, N, K, idx) ==
  [kernel |-> "quack", T |-> s.T, topk |-> s.topk, E |-> s.E,
   a |-> a, b |-> b, c |-> c, N |-> N, K |-> K, idx |-> idx, grid |-> {<<0>>}]
gemm_k(s, a, b, c, M, N) ==
  [kernel |-> "quack_k", T |-> s.T, topk |-> s.topk, E |-> s.E,
   a |-> a, b |-> b, c |-> c, M |-> M, N |-> N, grid |-> {<<0>>}]
Torch(s, op) == [kernel |-> op, T |-> s.T, topk |-> s.topk, E |-> s.E, grid |-> {<<0>>}]

\* FusedMoeExpertFunction.forward
FusedForward(s) ==
  << expert_histogram(s), Torch(s, "argsort"), moe_scatter(s, "x", "scat"), Torch(s, "cumsum"),
     group_gemm_same_nk(s, "scat", "W1_1", "fc1_1", s.T * s.topk, I, H),
     group_gemm_same_nk(s, "scat", "W1_2", "fc1_2", s.T * s.topk, I, H),
     Torch(s, "activation"),
     group_gemm_same_nk(s, "wact", "W2", "fc2", s.T * s.topk, H, I),
     moe_gather(s, "fc2", "moe") >>

(* FusedMoeExpertFunction.backward: the data gradients are launched for at *)
(* most T rows per expert, one per token.                                  *)
FusedBackward(s) ==
  << moe_scatter(s, "gout", "g_fc2"),
     group_gemm_same_nk(s, "g_fc2", "W2t", "g_wact", s.T, I, H),
     group_gemm_same_mn(s, "g_fc2", "wact", "g_W2", H, I),
     Torch(s, "activation_grad"),
     group_gemm_same_nk(s, "g_fc1_2", "W1_2t", "g_scat2", s.T, H, I),
     group_gemm_same_mn(s, "g_fc1_2", "scat", "g_W1_2", I, H),
     group_gemm_same_nk(s, "g_fc1_1", "W1_1t", "g_scat1", s.T, H, I),
     group_gemm_same_mn(s, "g_fc1_1", "scat", "g_W1_1", I, H),
     Torch(s, "grad_sum"),
     moe_gather(s, "g_scat", "g_x") >>

\* QuackFusedMoeExpertFunction.forward and backward
QuackForward(s) ==
  << Torch(s, "build_indices"), expert_histogram(s), Torch(s, "cumsum"),
     gemm(s, "x", "W1_1", "fc1_1", I, H, TRUE), gemm(s, "x", "W1_2", "fc1_2", I, H, TRUE),
     Torch(s, "activation"), gemm(s, "wact", "W2", "fc2", H, I, FALSE),
     moe_gather(s, "fc2", "moe") >>
QuackBackward(s) ==
  << moe_scatter(s, "gout", "g_fc2"), gemm(s, "g_fc2", "W2t", "g_wact", I, H, FALSE),
     gemm_k(s, "g_fc2", "wact", "g_W2", H, I),
     Torch(s, "activation_grad"),
     gemm(s, "g_fc1_2", "W1_2t", "g_scat2", H, I, FALSE), gemm(s, "g_fc1_1", "W1_1t", "g_scat1", H, I, FALSE),
     moe_scatter(s, "x", "scat"),
     gemm_k(s, "g_fc1_2", "scat", "g_W1_2", I, H), gemm_k(s, "g_fc1_1", "scat", "g_W1_1", I, H),
     Torch(s, "grad_sum"), moe_gather(s, "g_scat", "g_x") >>

\* moe_index_compute, after the histogram and its cumsum
moe_index_compute(s) ==
  << expert_histogram(s), Torch(s, "cumsum"), Torch(s, "clone"),
     [kernel |-> "index", T |-> s.T, topk |-> s.topk, E |-> s.E,
      grid |-> {<<p>> : p \in 0 .. Cdiv(s.T * s.topk, IndexBlock) - 1}] >>

==============================================================================
