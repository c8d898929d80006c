----------------------------- MODULE KernelStream -----------------------------
(***************************************************************************)
(* A device stream: kernels run one after the other, the programs of one   *)
(* kernel in any order and interleaved.  A job is what a host function     *)
(* enqueues: its launches and the input tensors.  What a program stores    *)
(* becomes visible to later kernels; atomic additions take effect at once. *)
(*                                                                         *)
(* The promise under test is the one the project is named for: whatever    *)
(* the order of the programs, the tile shapes, the other rows of the       *)
(* batch, the chunks a prompt is split into, the cache blocks it is given  *)
(* and the padding of a CUDA graph, each result cell is stored and holds   *)
(* the same term, the one a row computed alone would hold.                 *)
(***************************************************************************)
EXTENDS DenseKernels, MoEKernels

CONSTANT Jobs      \* set of [launches, mem]

DenseKernelNames == {"matmul", "bmm", "log_softmax", "rms_norm", "mean"}

(* A launch of a dense kernel is one its host function makes.              *)
DenseLaunch(l) ==
  CASE l.kernel = "matmul" ->
         {l.M, l.N, l.K} \subseteq Nat /\ l \in matmul_persistent(l.M, l.N, l.K, l.bias)
    [] l.kernel = "bmm" ->
         {l.B, l.M, l.N, l.K} \subseteq Nat /\ l = triton_bmm(l.B, l.M, l.N, l.K)
    [] l.kernel = "log_softmax" ->
         {l.n_rows, l.n_cols} \subseteq Nat /\ l = log_softmax(l.n_rows, l.n_cols)
    [] l.kernel = "rms_norm" ->
         {l.n_rows, l.n_cols} \subseteq Nat /\ l = _rms_norm_forward(l.n_rows, l.n_cols)
    [] l.kernel = "mean" ->
         {l.M, l.N, l.K} \subseteq Nat /\ l = mean_launch(l.M, l.N, l.K)
    [] OTHER -> TRUE

(* A mixture-of-experts job is a layer of FusedMoeExpertFunction or of     *)
(* QuackFusedMoeExpertFunction, or moe_index_compute alone.  Its inputs    *)
(* are the router's topk distinct experts of each token, the gates, the    *)
(* hidden rows and the incoming gradient, and a histogram of zeros; an     *)
(* input element is the term of its own cell.                              *)
MoEKernelNames == {"histogram", "index", "argsort", "build_indices", "cumsum", "clone", "scatter", "gather",
                   "gemm_nk", "gemm_mn", "quack", "quack_k", "activation", "activation_grad", "grad_sum"}
ShapeOf(j) == [T |-> j.launches[1].T, topk |-> j.launches[1].topk, E |-> j.launches[1].E]
MoEInputs(s, m) ==
  /\ \A f \in Flat(s) : /\ ExpertOf(s, m, f) \in 0 .. s.E - 1
                         /\ \A g \in Flat(s) : g # f /\ g \div s.topk = f \div s.topk =>
                              ExpertOf(s, m, g) # ExpertOf(s, m, f)
  /\ \A e \in 0 .. s.E - 1 : <<"hist", e>> \in DOMAIN m /\ m[<<"hist", e>>] = 0
  /\ \A t \in 0 .. s.T - 1 :
       /\ \A n \in 0 .. H - 1, x \in {"x", "gout"} : Load(m, <<x, t, n>>) = <<x, t, n>>
       /\ \A k \in 0 .. s.topk - 1 : Load(m, <<"gate", t, k>>) = <<"gate", t, k>>
  /\ <<"sidx", 0, 0>> \notin DOMAIN m
MoEJob(j) ==
  LET s == ShapeOf(j)
  IN  /\ s.T \in Nat /\ s.topk \in Nat \ {0} /\ s.E \in Nat
      /\ j.launches \in { FusedForward(s) \o FusedBackward(s), QuackForward(s) \o QuackBackward(s),
                          moe_index_compute(s) }
      /\ MoEInputs(s, j.mem)

(* A job of packed attention is a pass of _NonpagedFlashAttentionVarlen    *)
(* and its backward: tiles of keys divide tiles of queries, heads come in  *)
(* groups, and the queries are the last tokens of their sequence.          *)
PackedKernelNames == {"varlen", "dq", "dkv"}
PackedInputs(q, kv, m) ==
  \A s \in DOMAIN q :
    /\ \A i \in 0 .. q[s] - 1 : Load(m, <<"q", Before(q, s - 1) + i>>) = <<s, kv[s] - q[s] + i>>
    /\ \A n \in 0 .. kv[s] - 1, x \in {"k", "v"} : Load(m, <<x, Before(kv, s - 1) + n>>) = <<s, n>>
PackedJob(j) ==
  LET f == j.launches[1]
      b == j.launches[2]
  IN  /\ f.q_lens \in Seq(Nat) /\ f.kv_lens \in Seq(Nat) /\ Len(f.q_lens) = Len(f.kv_lens)
      /\ \A s \in DOMAIN f.q_lens : f.q_lens[s] <= f.kv_lens[s]
      /\ {f.hq, f.hk, f.bm, f.bn, b.bm, b.bn} \subseteq Nat \ {0}
      /\ f.hq % f.hk = 0 /\ f.bm % f.bn = 0
      /\ j.launches = << NonpagedForward(f.q_lens, f.kv_lens, f.hq, f.hk, <<f.bm, f.bn>>) >>
                       \o NonpagedBackward(f.q_lens, f.kv_lens, f.hq, f.hk, <<b.bm, b.bn>>)
      /\ PackedInputs(f.q_lens, f.kv_lens, j.mem)

(* A job of paged attention is a history of inferencer steps, each four    *)
(* launches: prepare, store keys, store values, attend.  An entry of a     *)
(* batch has blocks for its positions, entries share none, and the keys    *)
(* before its chunk were stored by earlier steps and not overwritten since *)
(* (BatchCovered, BlocksConserved and BatchFits of the scheduler); a graph *)
(* step found a captured shape.                                            *)
PagedKernelNames == {"prepare", "prepare_graph", "store", "paged", "flex"}
BatchOf(j, i) == j.launches[4 * i - 3].batch
Stores(batch, slot, req, pos) ==
  \E s \in DOMAIN batch : /\ batch[s].req = req /\ pos \in batch[s].start .. batch[s].start + batch[s].n - 1
                          /\ SlotOf(batch[s], pos) = slot
Takes(batch, slot) ==
  \E s \in DOMAIN batch : \E pos \in batch[s].start .. batch[s].start + batch[s].n - 1 : SlotOf(batch[s], pos) = slot
ValidBatch(batch) ==
  /\ Len(batch) \in Nat /\ DOMAIN batch = 1 .. Len(batch)
  /\ \A s \in DOMAIN batch :
       LET e == batch[s]
       IN  /\ e.start \in Nat /\ e.n \in Nat /\ e.start + e.n <= Len(e.blocks) * PageSize
           /\ e.blocks \in Seq(0 .. MaxBlocks - 1) /\ Len(e.blocks) <= MaxBlocksPerReq
           /\ \A i, k \in DOMAIN e.blocks : e.blocks[i] = e.blocks[k] => i = k
           /\ \A t \in DOMAIN batch \ {s} : \A i \in DOMAIN e.blocks, k \in DOMAIN batch[t].blocks :
                e.blocks[i] # batch[t].blocks[k]
PagedStep(step) ==
  LET batch == step[1].batch
      tile  == <<step[4].bm, step[4].bn>>
      desc  == step[1].desc
  IN  \/ step[4].kernel = "flex" /\ step = FlexStep(batch)
      \/ /\ step[4].kernel = "paged" /\ {tile[1], tile[2]} \subseteq Nat \ {0} /\ tile[1] % tile[2] = 0
         /\ \/ step[1].kernel = "prepare" /\ step = EagerStep(batch, tile)
            \/ /\ step[1].kernel = "prepare_graph" /\ step = GraphStep(batch, tile)
               /\ desc.num_seqs \in Len(batch) .. MaxNumSeqs
               /\ desc.num_tokens \in Total(batch) .. MaxNumBatchedTokens
PagedJob(j) ==
  LET N == Len(j.launches) \div 4
  IN  /\ Len(j.launches) = 4 * N
      /\ \A i \in 1 .. N :
           /\ PagedStep([x \in 1 .. 4 |-> j.launches[4 * i - 4 + x]]) /\ ValidBatch(BatchOf(j, i))
           /\ \A s \in DOMAIN BatchOf(j, i) :
                LET e == BatchOf(j, i)[s]
                IN  \A pos \in 0 .. e.start - 1 :
                      \E k \in 1 .. i - 1 :
                        /\ Stores(BatchOf(j, k), SlotOf(e, pos), e.req, pos)
                        /\ \A m \in k + 1 .. i - 1 : ~Takes(BatchOf(j, m), SlotOf(e, pos))

(* The kernels of the four families, all that a job launches.              *)
KernelNames == DenseKernelNames \cup MoEKernelNames \cup PackedKernelNames \cup PagedKernelNames

ASSUME JobsAssumption ==
  \A j \in Jobs :
    /\ Len(j.launches) \in Nat /\ DOMAIN j.launches = 1 .. Len(j.launches)
    /\ j.mem = [c \in DOMAIN j.mem |-> j.mem[c]]
    /\ \A i \in DOMAIN j.launches : j.launches[i].kernel \in KernelNames /\ DenseLaunch(j.launches[i])
    /\ (\E i \in DOMAIN j.launches : j.launches[i].kernel \in MoEKernelNames) => MoEJob(j)
    /\ (\E i \in DOMAIN j.launches : j.launches[i].kernel \in PackedKernelNames) => PackedJob(j)
    /\ (\E i \in DOMAIN j.launches : j.launches[i].kernel \in PagedKernelNames) => PagedJob(j)

VARIABLES job,     \* the job enqueued
          at,      \* index of the running launch
          pc,      \* steps done by each program of its grid
          stores,  \* <<cell, term>> pairs stored so far by the running launch
          mem      \* device memory as the running launch reads it
vars == <<job, at, pc, stores, mem>>

Launch(i) == job.launches[i]

\* what one step of a program stores, given the memory it reads
Stored(l, pid, step, m) ==
  CASE l.kernel = "matmul"      -> matmul_kernel_persistent(l, pid[1])
    [] l.kernel = "bmm"         -> _bmm_kernel(l, pid)
    [] l.kernel = "log_softmax" -> _log_softmax_kernel(l, pid)
    [] l.kernel = "rms_norm"    -> _rms_norm_kernel(l, pid)
    [] l.kernel = "mean"        -> mean_kernel(l, pid)
    [] l.kernel = "varlen"      -> _varlen_attn_fwd_block_kernel(l, pid, m)
    [] l.kernel = "dq"          -> _varlen_attn_bwd_dq_kernel(l, pid, m)
    [] l.kernel = "dkv"         -> _varlen_attn_bwd_dkv_kernel(l, pid, m)
    [] l.kernel = "prepare"     -> _prepare_gen_ctx(l.batch)
    [] l.kernel = "prepare_graph" -> _prepare_input_buffers_from_gen_ctx(l.batch, l.desc)
    [] l.kernel = "store"       -> _store_cache_kernel(l, pid, m)
    [] l.kernel = "paged"       -> _paged_attn_fwd_block_kernel(l, pid, m)
    [] l.kernel = "flex"        -> _prepare_paged_kv(l, m)
    [] l.kernel = "histogram"   -> {}
    [] l.kernel = "index"       -> _moe_index_compute_kernel(l, pid, step, m)
    [] l.kernel = "argsort"     -> ScatterIndex(l, m)
    [] l.kernel = "build_indices" -> _build_moe_indices(l, m)
    [] l.kernel = "cumsum"      -> CumSum(l, m, "cum")
    [] l.kernel = "clone"       -> CumSum(l, m, "cumcopy")
    [] l.kernel = "scatter"     -> _moe_scatter_kernel(l, pid, m)
    [] l.kernel = "gather"      -> _moe_gather_kernel(l, pid, m)
    [] l.kernel = "gemm_nk"     -> group_gemm_same_nk_kernel(l, pid, m)
    [] l.kernel = "gemm_mn"     -> group_gemm_same_mn_kernel(l, pid, m)
    [] l.kernel = "quack"       -> quack_gemm(l, m)
    [] l.kernel = "quack_k"     -> quack_gemm_k(l, m)
    [] l.kernel = "activation"  -> Activation(l, m)
    [] l.kernel = "activation_grad" -> ActivationGrad(l, m)
    [] l.kernel = "grad_sum"    -> GradSum(l, m)

\* what one step of a program adds atomically
Added(l, pid, step, m) ==
  CASE l.kernel = "histogram" -> _expert_histogram_kernel(l, pid, m)
    [] l.kernel = "index"     -> _moe_index_compute_add(l, pid, step, m)
    [] OTHER -> {}

Steps(l) == IF l.kernel = "index" THEN l.E ELSE 1
Idle(j, i) == IF i > Len(j.launches) THEN <<>> ELSE [p \in j.launches[i].grid |-> 0]

\* memory after the stores S have become visible
Write(S, m) ==
  LET cells == {s[1] : s \in S}
  IN  [c \in cells \cup DOMAIN m |->
         IF c \in cells THEN (CHOOSE s \in S : s[1] = c)[2] ELSE m[c]]

\* memory after the atomic additions A
AtomicAdd(A, m) ==
  [c \in DOMAIN m |-> IF \E a \in A : a[1] = c THEN m[c] + (CHOOSE a \in A : a[1] = c)[2] ELSE m[c]]

Init == /\ job \in Jobs
        /\ at = 1
        /\ pc = Idle(job, 1)
        /\ stores = {}
        /\ mem = job.mem

RunProgram(p) ==
  LET l == Launch(at)
  IN  /\ pc[p] < Steps(l)
      /\ pc' = [pc EXCEPT ![p] = @ + 1]
      /\ stores' = stores \cup Stored(l, p, pc[p], mem)
      /\ mem' = AtomicAdd(Added(l, p, pc[p], mem), mem)
      /\ UNCHANGED <<job, at>>

FinishLaunch ==
  /\ \A p \in Launch(at).grid : pc[p] = Steps(Launch(at))
  /\ mem' = Write(stores, mem)
  /\ stores' = {}
  /\ at' = at + 1
  /\ pc' = Idle(job, at + 1)
  /\ UNCHANGED job

Next == at <= Len(job.launches) /\ ((\E p \in Launch(at).grid : RunProgram(p)) \/ FinishLaunch)
Spec == Init /\ [][Next]_vars

-----------------------------------------------------------------------------
\* The launch that has just finished, and the batch of the step it belongs to
Just(kernels) == at > 1 /\ stores = {} /\ Launch(at - 1).kernel \in kernels
Done == Launch(at - 1)
Preparing(i) == Launch(i).kernel \in {"prepare", "prepare_graph"}
Batch == Launch(CHOOSE i \in 1 .. at - 1 :
                  Preparing(i) /\ \A j \in i + 1 .. at - 1 : ~Preparing(j)).batch
Upto(n) == [i \in 1 .. n |-> i - 1]

(* Programs of one launch never store two different terms in one cell: the *)
(* tiles a persistent or grouped grid gives its programs do not overlap,   *)
(* masked lanes stay masked, and no two tokens share a cache slot or an    *)
(* expert row.                                                             *)
WrittenOnce == \A s, t \in stores : s[1] = t[1] => s = t

(* The dense kernels compute every element, each from its own row (and     *)
(* column), whatever the tile shape, the number of rows and the device: a  *)
(* matrix product adds in ascending k, a row reduction covers exactly its  *)
(* row, all of it, once, in ascending order.                               *)
DenseExact ==
  /\ Just({"matmul"}) =>
       \A m \in 0 .. Done.M - 1, n \in 0 .. Done.N - 1 :
         Load(mem, <<"c", m, n>>) = <<m, n, Upto(Done.K)>> \o (IF Done.bias THEN <<n>> ELSE <<>>)
  /\ Just({"bmm"}) =>
       \A b \in 0 .. Done.B - 1, m \in 0 .. Done.M - 1, n \in 0 .. Done.N - 1 :
         Load(mem, <<"bmm", b, m, n>>) = <<b, m, n, Upto(Done.K)>>
  /\ Just({"log_softmax"}) =>
       \A r \in 0 .. Done.n_rows - 1, c \in 0 .. Done.n_cols - 1 :
         LET v == Load(mem, <<"logp", r, c>>)
         IN  /\ v[1] = r /\ v[2] = c
             /\ FlattenSeq(v[3][2]) = Upto(Done.n_cols)
             /\ v[4][2] = v[3] /\ FlattenSeq(v[4][3]) = Upto(Done.n_cols)
  /\ Just({"rms_norm"}) =>
       \A r \in 0 .. Done.n_rows - 1, c \in 0 .. Done.n_cols - 1 :
         LET v == Load(mem, <<"rms", r, c>>)
         IN  v[1] = r /\ v[2] = c /\ FlattenSeq(v[3]) = Upto(Done.n_cols)
  /\ Just({"mean"}) =>
       \A m \in 0 .. Done.M - 1, k \in 0 .. Done.K - 1 :
         LET v == Load(mem, <<"mean", m, k>>)
         IN  v[1] = m /\ v[2] = k /\ FlattenSeq(v[3]) = Upto(Done.N)

\* keys 0 .. pos of a request, in tiles of bn: what one row alone would fold
Alone(req, pos, bn) ==
  [t \in 1 .. Cdiv(pos + 1, bn) |->
     [i \in 1 .. IF t * bn <= pos + 1 THEN bn ELSE pos + 1 - (t - 1) * bn |->
        << <<req, (t - 1) * bn + i - 1>>, <<req, (t - 1) * bn + i - 1>> >>]]

(* The paged kernel gives every token of the batch the fold of its own     *)
(* request's keys 0 .. position, whatever chunk the token came in, what    *)
(* else is in the batch, which blocks the cache gave the request, and      *)
(* whether the batch was padded into CUDA-graph buffers that still hold a  *)
(* larger batch.                                                           *)
PagedExact ==
  Just({"paged"}) =>
    \A row \in 0 .. Total(Batch) - 1 :
      LET t == TokenAt(Batch, row)
      IN  Load(mem, <<"out", row, 0>>) = << <<t[1].req, t[2]>>, 0, Alone(t[1].req, t[2], Done.bn) >>

(* The packed kernel folds the same keys in the same tiles, so scores of a *)
(* whole sequence in training equal those of paged decoding.               *)
PackedExact ==
  Just({"varlen"}) =>
    \A s \in DOMAIN Done.q_lens : \A j \in 0 .. Done.q_lens[s] - 1, h \in 0 .. Done.hq - 1 :
      LET pos == Done.kv_lens[s] - Done.q_lens[s] + j
      IN  Load(mem, <<"out", Before(Done.q_lens, s - 1) + j, h>>)
            = << <<s, pos>>, h \div (Done.hq \div Done.hk), Alone(s, pos, Done.bn) >>

(* The backward kernels give each query the gradient over exactly the keys *)
(* it attended to, with its own log-sum-exp, and each key the gradient of  *)
(* exactly the queries, of every head of its group, that attended to it.   *)
GradExact ==
  /\ Just({"dq"}) =>
       \A s \in DOMAIN Done.q_lens : \A j \in 0 .. Done.q_lens[s] - 1, h \in 0 .. Done.hq - 1 :
         LET pos == Done.kv_lens[s] - Done.q_lens[s] + j
             v == Load(mem, <<"dq", Before(Done.q_lens, s - 1) + j, h>>)
         IN  /\ v[1] = <<s, pos>> /\ v[2][1] = <<s, pos>> /\ v[2][2] = v[3]
             /\ FlattenSeq(v[4]) = [i \in 1 .. pos + 1 |-> <<s, i - 1>>]
  /\ Just({"dkv"}) =>
       \A s \in DOMAIN Done.kv_lens : \A n \in 0 .. Done.kv_lens[s] - 1, h \in 0 .. Done.hk - 1 :
         LET first == Done.kv_lens[s] - Done.q_lens[s]
             from == IF n > first THEN n ELSE first
             G == Done.hq \div Done.hk
             OfHead(g) == [i \in 1 .. Done.kv_lens[s] - from |->
                           << <<s, from + i - 1>>, h * G + g - 1, <<s, from + i - 1>> >>]
         IN  \A d \in {"dk", "dv"} :
               LET v == Load(mem, <<d, Before(Done.kv_lens, s - 1) + n, h>>)
               IN  v[1] = <<s, n>> /\ FlattenSeq(v[2]) = FlattenSeq([g \in 1 .. G |-> OfHead(g)])

(* Flex attention over physical slots attends each query to each of its    *)
(* own request's keys 0 .. position exactly once, and to nothing else.     *)
(* (The order is that of the physical slots.)                              *)
FlexExact ==
  Just({"flex"}) =>
    \A row \in 0 .. Total(Batch) - 1 :
      LET t == TokenAt(Batch, row)
          v == Load(mem, <<"flex", row>>)
      IN  /\ v[1] = <<t[1].req, t[2]>>
          /\ Len(v[2]) = t[2] + 1
          /\ ToSet(v[2]) = {<< <<t[1].req, p>>, <<t[1].req, p>> >> : p \in 0 .. t[2]}

(* Every key and value stored stays in the slot its request was given for  *)
(* it until a later batch is given that slot: no padded row, and no other  *)
(* request, overwrites it.                                                 *)
CacheKept ==
  Just({"store", "paged", "flex"}) =>
    \A i \in 1 .. at - 1 : Preparing(i) /\ i + 2 < at =>
      \A row \in 0 .. Total(Launch(i).batch) - 1 :
        LET t == TokenAt(Launch(i).batch, row)
            slot == SlotOf(t[1], t[2])
        IN  (\A k \in i + 1 .. at - 1 : Preparing(k) => ~Takes(Launch(k).batch, slot)) =>
              /\ Load(mem, <<"kc", slot>>) = <<t[1].req, t[2]>>
              /\ Load(mem, <<"vc", slot>>) = <<t[1].req, t[2]>>

-----------------------------------------------------------------------------
(* Dispatch: the rows of expert e are exactly hist[e] many, they lie       *)
(* between the cumulative counts of e - 1 and e, and no two (token, k)     *)
(* pairs share a row.  moe_index_compute reaches this by atomic            *)
(* reservations in any order, the argsort in one fixed order.              *)
DispatchSorted ==
  Just({"index", "cumsum"}) /\ <<"sidx", 0, 0>> \in DOMAIN mem =>
    /\ \A e \in 0 .. Done.E - 1 :
         Load(mem, <<"hist", e>>) = Cardinality({f \in Flat(Done) : ExpertOf(Done, mem, f) = e})
    /\ {Sidx(mem, f \div Done.topk, f % Done.topk) : f \in Flat(Done)} = Flat(Done)
    /\ \A f \in Flat(Done) :
         LET e == ExpertOf(Done, mem, f)
             r == Sidx(mem, f \div Done.topk, f % Done.topk)
         IN  GroupStart(mem, e) <= r /\ r < Load(mem, <<"cum", e>>)

XRow(t) == [n \in 1 .. H |-> <<"x", t, n - 1>>]
GRow(t) == [n \in 1 .. H |-> <<"gout", t, n - 1>>]
Fc1(w, e, t, j) == <<w, e, j, XRow(t)>>
Act(e, t, k, j) == <<"act", Fc1("W1_1", e, t, j), Fc1("W1_2", e, t, j), <<"gate", t, k>>>>
Expert(s, t, k) == ExpertOf(s, mem, t * s.topk + k)

(* The layer's output for a token is the sum, in the router's order, of    *)
(* its own experts applied to its own row with its own gate: independent   *)
(* of the other tokens, of their number and of the row it was sorted into. *)
MoEExact ==
  Just({"gather"}) /\ Done.y = "moe" =>
    \A t \in 0 .. Done.T - 1, n \in 0 .. H - 1 :
      Load(mem, <<"moe", t, n>>) =
        [k \in 1 .. Done.topk |->
           << "W2", Expert(Done, t, k - 1), n,
              [j \in 1 .. I |-> Act(Expert(Done, t, k - 1), t, k - 1, j - 1)] >>]

\* The gradient behind the activation of row (t, k) of expert e, what it gives back to
\* the token through a weight, and the pair it gives to a weight's gradient.
ActGrad(d, e, t, k, j) ==
  << d, <<"W2t", e, j, GRow(t)>>, Fc1("W1_1", e, t, j), Fc1("W1_2", e, t, j), <<"gate", t, k>> >>
BackTerm(w, d, e, t, k, n) == << w, e, n, [j \in 1 .. I |-> ActGrad(d, e, t, k, j - 1)] >>
GradPair(c, e, t, k, m, n) ==
  CASE c = "g_W2"   -> << <<"gout", t, m>>, Act(e, t, k, n) >>
    [] c = "g_W1_1" -> << ActGrad("g_fc1_1", e, t, k, m), <<"x", t, n>> >>
    [] c = "g_W1_2" -> << ActGrad("g_fc1_2", e, t, k, m), <<"x", t, n>> >>
WeightShape(c) == IF c = "g_W2" THEN <<H, I>> ELSE <<I, H>>

(* The gradients of the layer: of a token, over its own experts, although  *)
(* the data-gradient GEMMs are launched for T rows per expert only; of a   *)
(* gate, from the two products and the gradient of its own row; of each of *)
(* an expert's three weights, over exactly the tokens routed to it, zero   *)
(* if none (the external GEMM's backward scatters x again).       *)
MoEGradExact ==
  Just({"gather"}) /\ Done.y = "g_x" =>
    LET Routed(e) == {f \in Flat(Done) : ExpertOf(Done, mem, f) = e}
    IN  /\ \A t \in 0 .. Done.T - 1, n \in 0 .. H - 1 :
             Load(mem, <<"g_x", t, n>>) =
               [k \in 1 .. Done.topk |->
                  << BackTerm("W1_1t", "g_fc1_1", Expert(Done, t, k - 1), t, k - 1, n),
                     BackTerm("W1_2t", "g_fc1_2", Expert(Done, t, k - 1), t, k - 1, n) >>]
        /\ \A f \in Flat(Done) : \A j \in 1 .. I :
             LET e == ExpertOf(Done, mem, f)
                 t == f \div Done.topk
                 g == Load(mem, <<"g_gate", t, f % Done.topk>>)[j]
             IN  /\ g["g_wact"] = <<"W2t", e, j - 1, GRow(t)>>
                 /\ g["fc1_1"] = Fc1("W1_1", e, t, j - 1) /\ g["fc1_2"] = Fc1("W1_2", e, t, j - 1)
        /\ \A c \in {"g_W2", "g_W1_1", "g_W1_2"} : \A e \in 0 .. Done.E - 1 :
             \A m \in 0 .. WeightShape(c)[1] - 1, n \in 0 .. WeightShape(c)[2] - 1 :
               LET v == FlattenSeq(Load(mem, <<c, e, m, n>>))
               IN  /\ Len(v) = Cardinality(Routed(e))
                   /\ ToSet(v) = {GradPair(c, e, f \div Done.topk, f % Done.topk, m, n) : f \in Routed(e)}

==============================================================================
