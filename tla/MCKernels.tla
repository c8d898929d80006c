------------------------------ MODULE MCKernels ------------------------------
(***************************************************************************)
(* Jobs for KernelStream.  Tile shapes are scaled down (2 for 64, 4 for    *)
(* 128); every size is chosen so that some tiles are full, some partial,   *)
(* some groups of tiles smaller than the others, and some programs empty.  *)
(***************************************************************************)
EXTENDS KernelStream

MCMatmulTiles == {<<1, 1, 2>>, <<1, 2, 1>>, <<2, 2, 2>>}
MCBmmLadder == <<1, 2, 4>>
MCBmmLadderK == <<1, 2>>
MCGroupTile == <<2, 2, 1, 2>>

NoInput == << >>
Dense ==
  { [launches |-> <<l>>, mem |-> NoInput] :
      l \in UNION {matmul_persistent(M, N, 3, b) : M \in {1, 3, 5}, N \in {2, 3}, b \in BOOLEAN}
            \cup {triton_bmm(2, M, N, 3) : M \in {1, 2, 5}, N \in {2, 3}}
            \cup {log_softmax(r, c) : r \in {1, 3}, c \in 1 .. 5}
            \cup {_rms_norm_forward(r, c) : r \in {1, 3}, c \in 1 .. 5}
            \cup {mean_dim(<<2, 3, 2>>, d) : d \in {0, 1, 2, -1}} }

\* packed sequences: whole ones, and chunks after a cached prefix
PackedInput(q, kv) ==
  LET Pos(lens, row) == LET s == CHOOSE x \in DOMAIN lens : Before(lens, x - 1) <= row /\ row < Before(lens, x)
                        IN  <<s, row - Before(lens, s - 1)>>
      Shift(t) == <<t[1], t[2] + kv[t[1]] - q[t[1]]>>
  IN  [c \in {"q"} \X (0 .. Before(q, Len(q)) - 1) |-> Shift(Pos(q, c[2]))]
      @@ [c \in {"k", "v"} \X (0 .. Before(kv, Len(kv)) - 1) |-> Pos(kv, c[2])]
Packed ==
  { [launches |-> <<NonpagedForward(x[1], x[2], h[1], h[2], tile)>>
                  \o NonpagedBackward(x[1], x[2], h[1], h[2], <<2, 2>>),
     mem |-> PackedInput(x[1], x[2])] :
    x \in {<< <<3>>, <<3>> >>, << <<1, 4>>, <<1, 4>> >>, << <<2, 1>>, <<5, 2>> >>},
    h \in {<<2, 1>>, <<1, 1>>}, tile \in {<<4, 2>>, <<2, 2>>} }

R(req, start, n, blocks) == [req |-> req, start |-> start, n |-> n, blocks |-> blocks]
Histories ==
  { \* chunked prefill of "a", then "b" beside a's next chunk, then decoding
    << <<R("a", 0, 2, <<2>>)>>,
       <<R("a", 2, 1, <<2, 0>>), R("b", 0, 3, <<3, 1>>)>>,
       <<R("a", 3, 1, <<2, 0>>), R("b", 3, 1, <<3, 1>>)>>,
       <<R("b", 4, 1, <<3, 1, 4>>)>> >>,
    \* a full batch, then a smaller one in the same static buffers
    << <<R("a", 0, 1, <<1>>), R("b", 0, 3, <<2, 0>>)>>,
       <<R("a", 1, 3, <<1, 4>>)>> >>,
    \* "a" is preempted: "b" gets its block, and "a" starts again in others
    << <<R("a", 0, 2, <<2>>), R("b", 0, 2, <<0>>)>>,
       <<R("b", 2, 2, <<0, 2>>)>>,
       <<R("a", 0, 3, <<4, 1>>), R("b", 4, 1, <<0, 2, 3>>)>> >> }
Concat(steps) == FlattenSeq(steps)
Paged ==
  { [launches |-> Concat([i \in DOMAIN h |-> EagerStep(h[i], tile)]), mem |-> NoInput] :
      h \in Histories, tile \in {<<4, 2>>, <<2, 2>>} }
  \cup { [launches |-> Concat([i \in DOMAIN h |-> GraphStep(h[i], <<4, 2>>)]), mem |-> NoInput] : h \in Histories }
  \cup { [launches |-> Concat([i \in DOMAIN h |-> FlexStep(h[i])]), mem |-> NoInput] : h \in Histories }

MoEInput(s, experts) ==
  [c \in {"eidx"} \X (0 .. s.T - 1) \X (0 .. s.topk - 1) |-> experts[c[2] + 1][c[3] + 1]]
  @@ [c \in {"gate"} \X (0 .. s.T - 1) \X (0 .. s.topk - 1) |-> c]
  @@ [c \in {"x", "gout"} \X (0 .. s.T - 1) \X (0 .. H - 1) |-> c]
  @@ [c \in {"hist"} \X (0 .. s.E - 1) |-> 0]
Shape == [T |-> 3, topk |-> 2, E |-> 3]
\* a router picks topk distinct experts per token
Picks == {<<a, b>> \in (0 .. 2) \X (0 .. 2) : a # b}
Routings == { <<a, b, c>> : a \in {<<0, 1>>, <<2, 0>>}, b \in Picks, c \in {<<0, 1>>, <<2, 1>>} }
MoE ==
  { [launches |-> ls, mem |-> MoEInput(Shape, r)] :
      ls \in {FusedForward(Shape) \o FusedBackward(Shape), QuackForward(Shape) \o QuackBackward(Shape),
              moe_index_compute(Shape)},
      r \in Routings }

MCJobs == Dense \cup Packed \cup Paged \cup MoE
==============================================================================
