---------------------------- MODULE AttentionProofs ----------------------------
(***************************************************************************)
(* Proofs about attention.  Packed: for every set of sequences, cached     *)
(* prefix, number of heads and heads per group, tile shape and order of    *)
(* the programs, the forward kernel folds for each query exactly its own   *)
(* keys in the tiles a row alone would fold, and the backward kernels      *)
(* reduce exactly the pairs that attended to each other.  Paged: the same  *)
(* for every history of inferencer steps, whatever the batches, chunks,    *)
(* blocks of the cache and padding of a CUDA graph.                        *)
(*                                                                         *)
(* The argument has three parts.  The tiles of a fold, empty ones left     *)
(* out, are those of the keys the mask keeps, wherever the block of        *)
(* queries starts (SoftmaxFolds, FlatKept).  Each kernel is sound, it      *)
(* stores only the term of the row it stores into, and complete, some      *)
(* program of its grid stores every row.  So the tensors the finished      *)
(* launches made hold their terms, which is the invariant: PackedValues,   *)
(* and, launch by launch of a step, PagedValues: the metadata describes    *)
(* the batch and its padding until the step ends, every key ever stored is *)
(* in its slot until a later batch takes it, and each token has its        *)
(* attention when the step has ended.                                      *)
(*                                                                         *)
(* The module ends with a fact about the kernels of all families: no two   *)
(* programs of a launch store different terms in one cell (WrittenIsOnce). *)
(***************************************************************************)
EXTENDS MoEProofs
-----------------------------------------------------------------------------
\* The lanes of an interval, in ascending order.
LEMMA AscendingInterval ==
  ASSUME NEW a \in Int, NEW k \in Nat
  PROVE  Ascending(a .. a + k - 1) = [i \in 1 .. k |-> a + i - 1]
<1> DEFINE S == a .. a + k - 1
<1>1. Cardinality(S) = k
  <2>1. a + k - 1 \in Int
    OBVIOUS
  <2>2. Cardinality(a .. a + k - 1) = IF a > a + k - 1 THEN 0 ELSE a + k - 1 - a + 1
    BY ONLY <2>1, a \in Int, FS_Interval
  <2> QED BY <2>2
<1>2. ASSUME NEW x \in S PROVE Cardinality({y \in S : y < x}) = x - a
  <2>1. {y \in S : y < x} = a .. x - 1
    OBVIOUS
  <2>2. x - 1 \in Int /\ x >= a /\ x \in Int
    OBVIOUS
  <2>3. Cardinality(a .. x - 1) = IF a > x - 1 THEN 0 ELSE x - 1 - a + 1
    BY ONLY <2>2, a \in Int, FS_Interval
  <2>4. Cardinality(a .. x - 1) = x - a
    <3> HIDE DEF S
    <3> QED BY ONLY <2>2, <2>3, a \in Int
  <2> QED BY ONLY <2>1, <2>4
<1>3. ASSUME NEW i \in 1 .. k PROVE (CHOOSE x \in S : Cardinality({y \in S : y < x}) = i - 1) = a + i - 1
  <2> DEFINE P(x) == Cardinality({y \in S : y < x}) = i - 1
             c == CHOOSE x \in S : P(x)
  <2>1. a + i - 1 \in S
    OBVIOUS
  <2>2. \A x \in S : P(x) <=> x - a = i - 1
    BY <1>2
  <2>3. a + i - 1 \in S /\ P(a + i - 1)
    BY <2>1, <2>2
  <2> HIDE DEF P
  <2>4. c \in S /\ P(c)
    BY <2>3
  <2> HIDE DEF c
  <2>5. c - a = i - 1 /\ c \in Int
    BY <2>2, <2>4
  <2>6. c = a + i - 1
    BY <2>5
  <2> QED BY <2>6 DEF c, P
<1> HIDE DEF S
<1>4. Ascending(S) = [i \in 1 .. k |-> CHOOSE x \in S : Cardinality({y \in S : y < x}) = i - 1]
  BY <1>1 DEF Ascending
<1> QED BY <1>3, <1>4 DEF S

\* The tiles with unmasked lanes are those after the first lo, up to tile hi.
Between(tiles, c, lo, hi) ==
  /\ tiles = [t \in 1 .. c |-> tiles[t]] /\ c \in Nat /\ lo \in 0 .. hi /\ hi \in 0 .. c
  /\ \A t \in 1 .. c : tiles[t] # <<>> <=> lo < t /\ t <= hi

\* Then those are the tiles that count.
LEMMA NonEmptyBetween ==
  ASSUME NEW tiles, NEW c, NEW lo, NEW hi, Between(tiles, c, lo, hi)
  PROVE  NonEmpty(tiles) = [i \in 1 .. hi - lo |-> tiles[lo + i]]
<1> USE DEF Between
<1> DEFINE k == hi - lo
           a == lo + 1
           S == {i \in DOMAIN tiles : tiles[i] # <<>>}
<1>0. lo \in Nat /\ hi \in Nat /\ lo <= hi /\ hi <= c /\ c \in Nat
  OBVIOUS
<1>1. k \in Nat /\ a \in Int /\ lo \in Int /\ hi = a + k - 1
  BY <1>0
<1>2. DOMAIN tiles = 1 .. c
  OBVIOUS
<1>3. S = a .. a + k - 1
  <2>1. \A t \in 1 .. c : t \in S <=> lo < t /\ t <= hi
    BY <1>2
  <2>2. \A t \in S : t \in 1 .. c
    BY <1>2
  <2>3. \A t \in a .. a + k - 1 : t \in 1 .. c /\ lo < t /\ t <= hi
    BY ONLY <1>0
  <2>4. \A t \in 1 .. c : lo < t /\ t <= hi => t \in a .. a + k - 1
    BY ONLY <1>0
  <2> HIDE DEF S, a, k
  <2> QED BY ONLY <2>1, <2>2, <2>3, <2>4
<1>4. Ascending(S) = [i \in 1 .. k |-> a + i - 1]
  <2> HIDE DEF a, k, S
  <2> QED BY ONLY <1>1, <1>3, AscendingInterval
<1>5. NonEmpty(tiles) = [i \in DOMAIN Ascending(S) |-> tiles[Ascending(S)[i]]]
  BY DEF NonEmpty
<1>6. NonEmpty(tiles) = [i \in 1 .. k |-> tiles[a + i - 1]]
  <2> HIDE DEF S, a, k
  <2> QED BY ONLY <1>4, <1>5
<1>7. \A i \in 1 .. k : a + i - 1 = lo + i
  BY <1>1
<1> QED BY <1>6, <1>7

\* A tile of keys of which the first k lanes are not masked.
KeysKept(l, n0, masked, pos, k) ==
  /\ l.bn \in Nat \ {0} /\ n0 \in Nat /\ pos \in Nat /\ k \in 0 .. l.bn
  /\ \A n \in n0 .. n0 + l.bn - 1 : (~masked \/ n <= pos) <=> n < n0 + k

\* It holds those lanes in ascending order.
LEMMA KeyTileIs ==
  ASSUME NEW l, NEW n0, NEW masked, NEW pos, NEW k, NEW key, KeysKept(l, n0, masked, pos, k)
  PROVE  KeyTile(l, n0, masked, pos, key) = [i \in 1 .. k |-> key[n0 + i - 1]]
<1> USE DEF KeysKept
<1> DEFINE S == {n \in n0 .. n0 + l.bn - 1 : ~masked \/ CausalMask(pos, n)}
<1>1. S = n0 .. n0 + k - 1
  <2>1. \A n \in n0 .. n0 + l.bn - 1 : n \in S <=> n < n0 + k
    BY DEF CausalMask
  <2>2. \A n \in S : n \in n0 .. n0 + l.bn - 1
    OBVIOUS
  <2> HIDE DEF S
  <2>3. \A n \in n0 .. n0 + k - 1 : n \in n0 .. n0 + l.bn - 1 /\ n < n0 + k
    OBVIOUS
  <2>4. \A n \in n0 .. n0 + l.bn - 1 : n < n0 + k => n \in n0 .. n0 + k - 1
    OBVIOUS
  <2> QED BY ONLY <2>1, <2>2, <2>3, <2>4
<1>2. Ascending(S) = [i \in 1 .. k |-> n0 + i - 1]
  <2>1. n0 \in Int /\ k \in Nat
    OBVIOUS
  <2> HIDE DEF S
  <2> QED BY ONLY <1>1, <2>1, AscendingInterval
<1>3. KeyTile(l, n0, masked, pos, key) = [i \in DOMAIN Ascending(S) |-> key[Ascending(S)[i]]]
  BY DEF KeyTile
<1> HIDE DEF S
<1> QED BY ONLY <1>2, <1>3

\* Two sequences joined, as a function.
LEMMA JoinedIs ==
  ASSUME NEW m \in Nat, NEW n \in Nat, NEW A, A = [i \in 1 .. m |-> A[i]], NEW B, B = [i \in 1 .. n |-> B[i]]
  PROVE  A \o B = [i \in 1 .. m + n |-> IF i <= m THEN A[i] ELSE B[i - m]]
<1> DEFINE S == {A[i] : i \in 1 .. m} \cup {B[i] : i \in 1 .. n}
<1>1. A \in Seq(S) /\ Len(A) = m
  OBVIOUS
<1>2. B \in Seq(S) /\ Len(B) = n
  OBVIOUS
<1> HIDE DEF S
<1>3. A \o B \in Seq(S) /\ Len(A \o B) = m + n
  BY <1>1, <1>2
<1>4. \A i \in 1 .. m + n : (A \o B)[i] = IF i <= m THEN A[i] ELSE B[i - m]
  BY <1>1, <1>2
<1> QED BY <1>3, <1>4

\* A multiple of w has no partial tile.
LEMMA CdivExact ==
  ASSUME NEW u \in Nat, NEW w \in Nat \ {0}
  PROVE  Cdiv(u * w, w) = u
<1> DEFINE c == Cdiv(u * w, w)
<1>1. u * w \in Nat
  OBVIOUS
<1>2. c \in Nat /\ u * w <= c * w /\ c * w < u * w + w
  BY ONLY <1>1, w \in Nat \ {0}, CdivFacts
<1> HIDE DEF c
<1>3. ~ (c < u)
  <2> SUFFICES ASSUME c < u PROVE FALSE
    OBVIOUS
  <2>1. (c + 1) * w <= u * w
    BY <1>2, MulMono
  <2>2. (c + 1) * w = c * w + w /\ c * w \in Nat
    BY <1>2
  <2> QED BY <1>1, <1>2, <2>1, <2>2
<1>4. ~ (u < c)
  <2> SUFFICES ASSUME u < c PROVE FALSE
    OBVIOUS
  <2>1. (u + 1) * w <= c * w
    BY <1>2, MulMono
  <2>2. (u + 1) * w = u * w + w /\ c * w \in Nat
    BY <1>2
  <2> QED BY <1>1, <1>2, <2>1, <2>2
<1>5. c = u
  BY <1>2, <1>3, <1>4
<1> QED BY <1>5 DEF c

\* Which tiles of width w begin at or below position pos.
LEMMA TilesUpTo ==
  ASSUME NEW pos \in Nat, NEW w \in Nat \ {0}, NEW t \in Nat \ {0}
  PROVE  /\ Cdiv(pos + 1, w) \in Nat \ {0}
         /\ t <= Cdiv(pos + 1, w) <=> (t - 1) * w <= pos
         /\ (t - 1) * w \in Nat /\ t * w \in Nat /\ t * w = (t - 1) * w + w
<1> DEFINE c == Cdiv(pos + 1, w)
<1>1. c \in Nat /\ pos + 1 <= c * w /\ c * w < pos + 1 + w
  <2>1. pos + 1 \in Nat
    OBVIOUS
  <2> QED BY ONLY <2>1, w \in Nat \ {0}, CdivFacts
<1> HIDE DEF c
<1>2. (t - 1) * w \in Nat /\ t * w \in Nat /\ t * w = (t - 1) * w + w /\ c * w \in Nat
  BY <1>1
<1>3. c # 0
  BY <1>1
<1>4. ASSUME t <= c PROVE (t - 1) * w <= pos
  <2>1. t * w <= c * w
    BY <1>1, <1>4, MulMono
  <2> QED BY <1>1, <1>2, <2>1
<1>5. ASSUME c < t PROVE (t - 1) * w > pos
  <2>1. c * w <= (t - 1) * w
    BY <1>1, <1>5, MulMono
  <2> QED BY <1>1, <1>2, <2>1
<1>6. t <= c <=> (t - 1) * w <= pos
  BY <1>1, <1>2, <1>4, <1>5
<1> QED BY <1>1, <1>2, <1>3, <1>6 DEF c

\* The keys 0 .. pos, in tiles of w.
Folded(key, pos, w) ==
  [t \in 1 .. Cdiv(pos + 1, w) |->
     [i \in 1 .. IF t * w <= pos + 1 THEN w ELSE pos + 1 - (t - 1) * w |-> key[(t - 1) * w + i - 1]]]

\* Row pos is one of block sm.
InBlock(l, sm, pos) ==
  /\ l.bm \in Nat \ {0} /\ l.bn \in Nat \ {0} /\ l.bm % l.bn = 0
  /\ sm \in Nat /\ pos \in Nat /\ sm * l.bm <= pos /\ pos < sm * l.bm + l.bm

\* The tiles of a forward kernel, below the block and on its diagonal, hold the keys
\* 0 .. pos in the tiles that do not depend on the block.
LEMMA SoftmaxFolds ==
  ASSUME NEW l, NEW sm, NEW pos, NEW key, InBlock(l, sm, pos)
  PROVE  OnlineSoftmax(l, sm, pos, key) = Folded(key, pos, l.bn)
<1> DEFINE w == l.bn
           q == l.bm \div l.bn
           u == sm * q
           hi == Cdiv(pos + 1, w)
           below == [i \in 1 .. Cdiv(sm * l.bm, l.bn) |-> KeyTile(l, (i - 1) * l.bn, FALSE, pos, key)]
           diag  == [i \in 1 .. Cdiv(l.bm, l.bn) |-> KeyTile(l, sm * l.bm + (i - 1) * l.bn, TRUE, pos, key)]
           tiles == below \o diag
           K(t) == IF t * w <= pos + 1 THEN w ELSE IF (t - 1) * w <= pos THEN pos + 1 - (t - 1) * w ELSE 0
<1>1. w \in Nat \ {0} /\ sm \in Nat /\ pos \in Nat /\ l.bm \in Nat \ {0}
  BY DEF InBlock
<1>2. q \in Nat /\ l.bm = q * w
  <2>1. l.bm % l.bn = 0
    BY DEF InBlock
  <2>2. q \in Nat /\ l.bm = q * w + (l.bm % l.bn)
    BY ONLY <1>1, DivMod
  <2>3. q * w \in Nat
    BY <1>1, <2>2
  <2> QED BY <2>1, <2>2, <2>3
<1> HIDE DEF w, q
<1>3. u \in Nat /\ u * w = sm * l.bm /\ (u + q) * w = sm * l.bm + l.bm /\ u * w \in Nat /\ (u + q) * w \in Nat
  BY <1>1, <1>2
<1>4. u * w <= pos /\ pos < (u + q) * w
  BY <1>3 DEF InBlock
<1>5. Cdiv(sm * l.bm, l.bn) = u /\ Cdiv(l.bm, l.bn) = q
  <2>1. Cdiv(u * w, w) = u /\ Cdiv(q * w, w) = q
    BY <1>1, <1>2, <1>3, CdivExact
  <2> QED BY <1>2, <1>3, <2>1 DEF w
<1> HIDE DEF u
<1>6. ASSUME NEW t \in 1 .. u + q
      PROVE  /\ (t - 1) * w \in Nat /\ t * w \in Nat /\ t * w = (t - 1) * w + w
             /\ t <= hi <=> (t - 1) * w <= pos
             /\ K(t) \in 0 .. w /\ (K(t) # 0 <=> t <= hi)
             /\ t <= u => t * w <= pos
  <2>1. t \in Nat \ {0}
    OBVIOUS
  <2>2. /\ (t - 1) * w \in Nat /\ t * w \in Nat /\ t * w = (t - 1) * w + w
        /\ t <= hi <=> (t - 1) * w <= pos
    BY <1>1, <2>1, TilesUpTo
  <2>3. t <= u => t * w <= u * w
    BY <1>1, <1>3, <2>1, MulMono
  <2> HIDE DEF hi
  <2>4. t <= u => t * w <= pos
    BY <1>1, <1>3, <1>4, <2>2, <2>3
  <2>5. K(t) \in 0 .. w
    BY <1>1, <2>2
  <2>6. K(t) # 0 <=> (t - 1) * w <= pos
    BY <1>1, <2>2
  <2> QED BY <2>2, <2>4, <2>5, <2>6
<1>7. hi \in 1 .. u + q
  <2>1. 1 \in Nat \ {0}
    OBVIOUS
  <2>2. hi \in Nat \ {0}
    BY ONLY <1>1, <2>1, TilesUpTo
  <2>3. hi <= hi <=> (hi - 1) * w <= pos
    BY ONLY <1>1, <2>2, TilesUpTo
  <2> HIDE DEF hi
  <2>4. (hi - 1) * w < (u + q) * w
    BY <1>1, <1>3, <1>4, <2>2, <2>3
  <2>5. ~ (u + q <= hi - 1)
    <3> SUFFICES ASSUME u + q <= hi - 1 PROVE FALSE
      OBVIOUS
    <3>1. (u + q) * w <= (hi - 1) * w
      BY <1>1, <1>2, <1>3, <2>2, MulMono
    <3>2. (hi - 1) * w \in Nat
      BY <1>1, <2>2
    <3> QED BY <1>3, <2>4, <3>1, <3>2
  <2> QED BY <1>2, <1>3, <2>2, <2>5
<1>8. ASSUME NEW t \in 1 .. u + q, NEW masked, t > u \/ ~masked, masked \/ t <= u
      PROVE  KeyTile(l, (t - 1) * w, masked, pos, key) = [i \in 1 .. K(t) |-> key[(t - 1) * w + i - 1]]
  <2>1. /\ (t - 1) * w \in Nat /\ t * w \in Nat /\ t * w = (t - 1) * w + w
        /\ K(t) \in 0 .. w /\ t <= u => t * w <= pos
    BY <1>6
  <2> DEFINE z == (t - 1) * w
  <2>2. \A n \in z .. z + w - 1 : (~masked \/ n <= pos) <=> n < z + K(t)
    <3> TAKE n \in z .. z + w - 1
    <3>1. CASE t * w <= pos + 1
      <4>1. K(t) = w
        BY <3>1
      <4> HIDE DEF K
      <4> QED BY <1>1, <2>1, <3>1, <4>1
    <3>2. CASE ~ (t * w <= pos + 1)
      <4>1. masked
        BY <1>1, <1>8, <2>1, <3>2
      <4>2. CASE z <= pos
        <5>1. K(t) = pos + 1 - z
          BY <3>2, <4>2
        <5> HIDE DEF K
        <5> QED BY <1>1, <2>1, <4>1, <4>2, <5>1
      <4>3. CASE ~ (z <= pos)
        <5>1. K(t) = 0
          BY <3>2, <4>3
        <5> HIDE DEF K
        <5> QED BY <1>1, <2>1, <4>1, <4>3, <5>1
      <4> QED BY <4>2, <4>3
    <3> QED BY <3>1, <3>2
  <2> DEFINE k == K(t)
  <2>3. KeysKept(l, z, masked, pos, k)
    <3> HIDE DEF k, z
    <3> QED BY <1>1, <2>1, <2>2 DEF KeysKept, w, k, z
  <2> HIDE DEF K, z, k
  <2>4. KeyTile(l, z, masked, pos, key) = [i \in 1 .. k |-> key[z + i - 1]]
    BY ONLY <2>3, KeyTileIs
  <2> QED BY <2>4 DEF z, k
<1>9. tiles = [t \in 1 .. u + q |-> [i \in 1 .. K(t) |-> key[(t - 1) * w + i - 1]]]
  <2> HIDE DEF K
  <2>1. below = [i \in 1 .. u |-> below[i]] /\ diag = [i \in 1 .. q |-> diag[i]]
    BY <1>5
  <2>2. ASSUME NEW t \in 1 .. u PROVE below[t] = [i \in 1 .. K(t) |-> key[(t - 1) * w + i - 1]]
    <3>1. below[t] = KeyTile(l, (t - 1) * w, FALSE, pos, key)
      BY <1>5 DEF w
    <3>2. t \in 1 .. u + q /\ t <= u
      BY <1>2, <1>3
    <3> QED BY <1>8, <3>1, <3>2
  <2>3. ASSUME NEW t \in 1 .. u + q, ~ (t <= u) PROVE diag[t - u] = [i \in 1 .. K(t) |-> key[(t - 1) * w + i - 1]]
    <3>1. t - u \in 1 .. q
      BY <1>2, <1>3, <2>3
    <3>2. diag[t - u] = KeyTile(l, sm * l.bm + ((t - u) - 1) * l.bn, TRUE, pos, key)
      BY <1>5, <3>1
    <3>3. sm * l.bm + ((t - u) - 1) * l.bn = (t - 1) * w
      <4>1. (t - 1) * w = u * w + ((t - u) - 1) * w
        BY <1>1, <1>2, <1>3
      <4> QED BY <1>3, <4>1 DEF w
    <3>4. t > u
      BY <1>2, <1>3, <2>3
    <3> QED BY <1>8, <3>2, <3>3, <3>4
  <2> HIDE DEF below, diag
  <2>4. tiles = [t \in 1 .. u + q |-> IF t <= u THEN below[t] ELSE diag[t - u]]
    BY ONLY <1>2, <1>3, <2>1, JoinedIs
  <2>5. ASSUME NEW t \in 1 .. u + q
        PROVE  (IF t <= u THEN below[t] ELSE diag[t - u]) = [i \in 1 .. K(t) |-> key[(t - 1) * w + i - 1]]
    <3>1. CASE t <= u
      <4>1. t \in 1 .. u
        BY <1>2, <1>3, <3>1
      <4> QED BY <2>2, <3>1, <4>1
    <3>2. CASE ~ (t <= u)
      BY <2>3, <3>2
    <3> QED BY <3>1, <3>2
  <2> HIDE DEF tiles
  <2> QED BY ONLY <2>4, <2>5
<1>10. OnlineSoftmax(l, sm, pos, key) = NonEmpty(tiles)
  BY DEF OnlineSoftmax
<1> HIDE DEF tiles, hi
<1>11. Between(tiles, u + q, 0, hi)
  <2>1. ASSUME NEW t \in 1 .. u + q PROVE tiles[t] # <<>> <=> 0 < t /\ t <= hi
    <3>1. tiles[t] = [i \in 1 .. K(t) |-> key[(t - 1) * w + i - 1]]
      BY <1>9
    <3>2. K(t) \in Nat /\ (K(t) # 0 <=> t <= hi)
      BY <1>1, <1>6
    <3>3. PICK k : k = K(t)
      OBVIOUS
    <3> HIDE DEF K
    <3>4. tiles[t] = << >> <=> k = 0
      BY <3>1, <3>2, <3>3
    <3> QED BY <3>2, <3>3, <3>4
  <2>2. tiles = [t \in 1 .. u + q |-> tiles[t]] /\ u + q \in Nat /\ 0 \in 0 .. hi /\ hi \in 0 .. u + q
    <3> HIDE DEF K
    <3>1. tiles = [t \in 1 .. u + q |-> tiles[t]]
      BY ONLY <1>9
    <3> QED BY <1>2, <1>3, <1>7, <3>1
  <2> QED BY ONLY <2>1, <2>2 DEF Between
<1>12. NonEmpty(tiles) = [t \in 1 .. hi - 0 |-> tiles[0 + t]]
  BY ONLY <1>11, NonEmptyBetween
<1>13. ASSUME NEW t \in 1 .. hi
       PROVE  tiles[0 + t] = [i \in 1 .. (IF t * w <= pos + 1 THEN w ELSE pos + 1 - (t - 1) * w) |-> key[(t - 1) * w + i - 1]]
  <2>1. t \in 1 .. u + q /\ 0 + t = t /\ t <= hi
    BY <1>2, <1>3, <1>7
  <2>2. K(t) = IF t * w <= pos + 1 THEN w ELSE pos + 1 - (t - 1) * w
    BY <1>6, <2>1
  <2>3. tiles[t] = [i \in 1 .. K(t) |-> key[(t - 1) * w + i - 1]]
    BY <1>9, <2>1
  <2> HIDE DEF K
  <2> QED BY ONLY <2>1, <2>2, <2>3
<1>14. hi - 0 = hi
  BY <1>7
<1>15. NonEmpty(tiles) = Folded(key, pos, w)
  BY ONLY <1>12, <1>13, <1>14 DEF Folded, hi
<1> QED BY <1>10, <1>15 DEF w

-----------------------------------------------------------------------------
\* The offsets of packed sequences are running totals of their lengths.
LEMMA BeforeIs ==
  ASSUME NEW lens \in Seq(Nat)
  PROVE  Totals(lens, Len(lens), [s \in 0 .. Len(lens) |-> Before(lens, s)])
<1> DEFINE n == Len(lens)
<1>1. n \in Nat /\ lens \in [1 .. n -> Nat]
  OBVIOUS
<1> HIDE DEF n
<1>2. PICK g : Totals(lens, n, g)
  <2>1. \E g : Totals(lens, n, g) /\ FoldLeft(LAMBDA a, b : a + b, 0, lens) = g[n]
    BY ONLY <1>1, FoldIsTotal, Zenon
  <2> QED BY ONLY <2>1, Zenon
<1>3. ASSUME NEW s \in 0 .. n PROVE Before(lens, s) = g[s]
  <2> DEFINE r == SubSeq(lens, 1, s)
  <2>1. r \in [1 .. s -> Nat] /\ \A i \in 1 .. s : r[i] = lens[i]
    <3>1. lens \in Seq(Nat) /\ 1 \in 1 .. Len(lens) + 1 /\ s \in 1 - 1 .. Len(lens)
      BY <1>1 DEF n
    <3>2. /\ r \in Seq(Nat) /\ Len(r) = s - 1 + 1 /\ \A i \in 1 .. s - 1 + 1 : r[i] = lens[1 + i - 1]
      BY ONLY <3>1, SubSeqProperties
    <3>3. s - 1 + 1 = s /\ \A i \in 1 .. s : 1 + i - 1 = i
      BY <1>1
    <3> HIDE DEF r
    <3>4. Len(r) = s /\ r \in [1 .. Len(r) -> Nat]
      BY ONLY <3>2, <3>3
    <3> QED BY ONLY <3>2, <3>3, <3>4
  <2> HIDE DEF r
  <2>2. FoldLeft(LAMBDA a, b : a + b, 0, r) = g[s]
    BY ONLY <1>1, <1>2, <1>3, <2>1, FoldPrefix, Zenon
  <2>3. Before(lens, s) = FoldLeft(LAMBDA a, b : a + b, 0, r)
    BY Zenon DEF Before, r
  <2> QED BY <2>2, <2>3, Zenon
<1>4. [s \in 0 .. n |-> Before(lens, s)] = g
  <2>1. g = [s \in 0 .. n |-> g[s]]
    BY <1>2 DEF Totals
  <2> QED BY ONLY <1>3, <2>1
<1> QED BY <1>2, <1>4 DEF n

\* The offset of a sequence is the end of the one before it.
LEMMA BeforeStep ==
  ASSUME NEW lens \in Seq(Nat)
  PROVE  /\ Before(lens, 0) = 0
         /\ \A s \in 0 .. Len(lens) : Before(lens, s) \in Nat
         /\ \A s \in 1 .. Len(lens) : Before(lens, s) = Before(lens, s - 1) + lens[s] /\ lens[s] \in Nat
<1> DEFINE n == Len(lens)
           g == [s \in 0 .. n |-> Before(lens, s)]
<1>1. Totals(lens, n, g)
  BY BeforeIs
<1>2. n \in Nat
  OBVIOUS
<1> HIDE DEF n
<1>3. \A s \in 0 .. n : g[s] = Before(lens, s)
  OBVIOUS
<1> HIDE DEF g
<1>4. g[0] = 0 /\ (\A s \in 0 .. n : g[s] \in Nat) /\ \A s \in 1 .. n : g[s] = g[s - 1] + lens[s]
  BY <1>1 DEF Totals
<1>5. 0 \in 0 .. n /\ \A s \in 1 .. n : s \in 0 .. n /\ s - 1 \in 0 .. n
  BY <1>2
<1>6. \A s \in 1 .. n : lens[s] \in Nat
  BY DEF n
<1> QED BY <1>3, <1>4, <1>5, <1>6 DEF n

\* Offsets ascend.
LEMMA BeforeMono ==
  ASSUME NEW lens \in Seq(Nat), NEW a \in 0 .. Len(lens), NEW b \in 0 .. Len(lens), a <= b
  PROVE  Before(lens, a) <= Before(lens, b)
<1> DEFINE Bad == {x \in 0 .. Len(lens) : a <= x /\ ~ (Before(lens, a) <= Before(lens, x))}
<1> SUFFICES ASSUME Bad # {} PROVE FALSE
  OBVIOUS
<1>1. Bad \in SUBSET Nat
  OBVIOUS
<1>2. PICK x \in Bad : \A y \in Bad : x <= y
  <2> HIDE DEF Bad
  <2> QED BY <1>1, LeastNat
<1>3. x \in 0 .. Len(lens) /\ a <= x /\ ~ (Before(lens, a) <= Before(lens, x)) /\ Len(lens) \in Nat
  BY <1>2
<1>4. Before(lens, a) \in Nat /\ Before(lens, x) \in Nat
  BY <1>3, BeforeStep
<1>5. a # x
  BY <1>3, <1>4
<1>6. x \in 1 .. Len(lens) /\ x - 1 \in 0 .. Len(lens) /\ a <= x - 1
  BY <1>3, <1>5
<1>7. x - 1 \notin Bad
  BY <1>2, <1>3
<1>8. Before(lens, a) <= Before(lens, x - 1)
  BY <1>6, <1>7
<1>9. Before(lens, x) = Before(lens, x - 1) + lens[x] /\ lens[x] \in Nat /\ Before(lens, x - 1) \in Nat
  BY <1>6, BeforeStep
<1> QED BY <1>3, <1>4, <1>8, <1>9

\* Packed rows of different sequences do not meet.
LEMMA RowOfOne ==
  ASSUME NEW lens \in Seq(Nat), NEW a \in 1 .. Len(lens), NEW b \in 1 .. Len(lens), NEW r \in Int,
         Before(lens, a - 1) <= r, r < Before(lens, a), Before(lens, b - 1) <= r, r < Before(lens, b)
  PROVE  a = b
<1>0. /\ a \in 0 .. Len(lens) /\ a - 1 \in 0 .. Len(lens) /\ b \in 0 .. Len(lens) /\ b - 1 \in 0 .. Len(lens)
      /\ Len(lens) \in Nat
  OBVIOUS
<1>1. /\ Before(lens, a) \in Int /\ Before(lens, b) \in Int
      /\ Before(lens, a - 1) \in Int /\ Before(lens, b - 1) \in Int
  BY <1>0, BeforeStep
<1>2. ~ (a <= b - 1)
  <2> SUFFICES ASSUME a <= b - 1 PROVE FALSE
    OBVIOUS
  <2>1. Before(lens, a) <= Before(lens, b - 1)
    BY <1>0, BeforeMono
  <2> QED BY <1>1, <2>1
<1>3. ~ (b <= a - 1)
  <2> SUFFICES ASSUME b <= a - 1 PROVE FALSE
    OBVIOUS
  <2>1. Before(lens, b) <= Before(lens, a - 1)
    BY <1>0, BeforeMono
  <2> QED BY <1>1, <2>1
<1> QED BY <1>0, <1>2, <1>3

\* Every packed row belongs to a sequence.
LEMMA RowOfSome ==
  ASSUME NEW lens \in Seq(Nat), NEW r \in 0 .. Before(lens, Len(lens)) - 1
  PROVE  \E a \in 1 .. Len(lens) : Before(lens, a - 1) <= r /\ r < Before(lens, a)
<1> DEFINE T == {x \in 0 .. Len(lens) : r < Before(lens, x)}
<1>0. Len(lens) \in Nat /\ Len(lens) \in 0 .. Len(lens)
  OBVIOUS
<1>1. T \in SUBSET Nat
  OBVIOUS
<1>2. Len(lens) \in T
  <2>1. Before(lens, Len(lens)) \in Nat
    BY <1>0, BeforeStep
  <2> QED BY <1>0, <2>1
<1>3. PICK x \in T : \A y \in T : x <= y
  <2> HIDE DEF T
  <2> QED BY <1>1, <1>2, LeastNat
<1>4. x \in 0 .. Len(lens) /\ r < Before(lens, x)
  OBVIOUS
<1>5. Before(lens, 0) = 0 /\ Before(lens, Len(lens)) \in Nat
  BY <1>0, BeforeStep
<1>6. x # 0 /\ r \in Nat
  BY <1>4, <1>5
<1>7. x \in 1 .. Len(lens) /\ x - 1 \in 0 .. Len(lens)
  BY <1>0, <1>4, <1>6
<1>8. x - 1 \notin T
  BY <1>3, <1>7
<1>9. Before(lens, x - 1) \in Nat
  BY <1>7, BeforeStep
<1>10. Before(lens, x - 1) <= r
  BY <1>6, <1>7, <1>8, <1>9
<1> QED BY <1>4, <1>7, <1>10

\* The longest of some sequences.
LEMMA LongestIs ==
  ASSUME NEW lens \in Seq(Nat), NEW s \in 1 .. Len(lens)
  PROVE  Longest(lens) \in Nat /\ lens[s] <= Longest(lens)
<1> DEFINE n == Len(lens)
           b == Before(lens, n)
           t == {lens[i] + 1 : i \in 1 .. n}
           V == {lens[i] : i \in DOMAIN lens}
           P(x) == \A i \in DOMAIN lens : lens[i] <= x
<1>1. n \in Nat /\ DOMAIN lens = 1 .. n /\ b \in Nat /\ n \in 0 .. n
  BY BeforeStep
<1>2. ASSUME NEW i \in 1 .. n PROVE lens[i] \in Nat /\ lens[i] <= b
  <2>1. i \in 0 .. n /\ i - 1 \in 0 .. n /\ i <= n
    BY <1>1
  <2>2. Before(lens, i) = Before(lens, i - 1) + lens[i] /\ lens[i] \in Nat /\ Before(lens, i - 1) \in Nat
    BY <2>1, BeforeStep
  <2>3. Before(lens, i) <= b
    BY <1>1, <2>1, BeforeMono
  <2> HIDE DEF b
  <2> QED BY <1>1, <2>2, <2>3
<1> HIDE DEF b
<1>3. t \in SUBSET (1 .. b + 1) /\ t # {} /\ b + 1 \in Nat
  BY <1>1, <1>2
<1> HIDE DEF t
<1>4. Max(t) \in t /\ \A y \in t : y <= Max(t)
  BY ONLY <1>3, MaxIn
<1>5. PICK i \in 1 .. n : Max(t) = lens[i] + 1
  BY <1>4 DEF t
<1>6. \A k \in 1 .. n : lens[k] + 1 <= lens[i] + 1
  BY <1>4, <1>5 DEF t
<1>7. lens[i] \in V /\ P(lens[i])
  <2>1. \A k \in 1 .. n : lens[k] <= lens[i]
    <3> HIDE DEF n
    <3> QED BY ONLY <1>2, <1>5, <1>6
  <2> QED BY <1>1, <2>1
<1> DEFINE c == CHOOSE x \in V : P(x)
<1>8. c = Longest(lens)
  BY DEF Longest
<1> HIDE DEF P
<1>9. c \in V /\ P(c)
  BY <1>7
<1> HIDE DEF c
<1>10. c \in Nat /\ lens[s] <= c
  BY <1>1, <1>2, <1>9 DEF P
<1> QED BY <1>8, <1>10

-----------------------------------------------------------------------------
\* The shape of a packed job: lengths, heads and the tiles of its two passes.
PQ == job.launches[1].q_lens
PK == job.launches[1].kv_lens
PackedShape ==
  /\ PQ \in Seq(Nat) /\ PK \in Seq(Nat) /\ Len(PQ) = Len(PK)
  /\ \A s \in 1 .. Len(PQ) : PQ[s] \in Nat /\ PK[s] \in Nat /\ PQ[s] <= PK[s]
  /\ job.launches[1].hq \in Nat \ {0} /\ job.launches[1].hk \in Nat \ {0}
  /\ job.launches[1].hq % job.launches[1].hk = 0

\* A launch of a packed job.
PackedRecord(l, kernel) ==
  /\ l.kernel = kernel /\ l.q_lens = PQ /\ l.kv_lens = PK
  /\ l.hq = job.launches[1].hq /\ l.hk = job.launches[1].hk
  /\ l.bm \in Nat \ {0} /\ l.bn \in Nat \ {0}

\* The three launches of a packed job.
PackedLaunches ==
  /\ Len(job.launches) = 3
  /\ PackedRecord(job.launches[1], "varlen") /\ job.launches[1].bm % job.launches[1].bn = 0
  /\ PackedRecord(job.launches[2], "dq") /\ PackedRecord(job.launches[3], "dkv")
  /\ job.launches[1].grid = (0 .. Len(PQ) - 1) \X (0 .. Cdiv(Longest(PK), job.launches[1].bm) - 1)
                             \X (0 .. job.launches[1].hq - 1)
  /\ job.launches[2].grid = (0 .. Len(PQ) - 1) \X (0 .. Cdiv(Longest(PQ), job.launches[2].bm) - 1)
                             \X (0 .. job.launches[1].hq - 1)
  /\ job.launches[3].grid = (0 .. Len(PQ) - 1) \X (0 .. Cdiv(Longest(PK), job.launches[3].bn) - 1)
                             \X (0 .. job.launches[1].hk - 1)

\* A job of packed attention has that shape and those launches.
LEMMA PackedIs ==
  ASSUME PackedJob(job)
  PROVE  PackedShape /\ PackedLaunches /\ PackedInputs(PQ, PK, job.mem)
<1> DEFINE L == job.launches
           f == L[1]
           b == L[2]
           A == << NonpagedForward(PQ, PK, f.hq, f.hk, <<f.bm, f.bn>>) >>
           B == NonpagedBackward(PQ, PK, f.hq, f.hk, <<b.bm, b.bn>>)
<1>1. /\ PQ \in Seq(Nat) /\ PK \in Seq(Nat) /\ Len(PQ) = Len(PK)
      /\ \A s \in DOMAIN PQ : PQ[s] <= PK[s]
      /\ {f.hq, f.hk, f.bm, f.bn, b.bm, b.bn} \subseteq Nat \ {0}
      /\ f.hq % f.hk = 0 /\ f.bm % f.bn = 0
      /\ L = A \o B
      /\ PackedInputs(PQ, PK, job.mem)
  BY DEF PackedJob, PQ, PK
<1>2. /\ f.hq \in Nat \ {0} /\ f.hk \in Nat \ {0} /\ f.bm \in Nat \ {0} /\ f.bn \in Nat \ {0}
      /\ b.bm \in Nat \ {0} /\ b.bn \in Nat \ {0}
  BY <1>1
<1>3. PackedShape
  <2>0. PQ \in Seq(Nat) /\ PK \in Seq(Nat) /\ Len(PQ) = Len(PK)
    BY <1>1
  <2>1. DOMAIN PQ = 1 .. Len(PQ) /\ DOMAIN PK = 1 .. Len(PK)
    BY ONLY <2>0
  <2>2. \A s \in 1 .. Len(PQ) : PQ[s] \in Nat /\ PK[s] \in Nat
    BY ONLY <2>0
  <2> QED BY <1>1, <1>2, <2>1, <2>2 DEF PackedShape
<1>4. Len(L) = 3 /\ L[1] = A[1] /\ L[2] = B[1] /\ L[3] = B[2]
  <2>1. A = [i \in 1 .. 1 |-> A[i]] /\ B = [i \in 1 .. 2 |-> B[i]]
    BY DEF NonpagedBackward
  <2>2. /\ Len(A \o B) = 1 + 2
        /\ \A i \in 1 .. 1 : (A \o B)[i] = A[i]
        /\ \A i \in 1 .. 2 : (A \o B)[1 + i] = B[i]
    <3> HIDE DEF A, B
    <3>1. 1 \in Nat /\ 2 \in Nat
      OBVIOUS
    <3> QED BY ONLY <2>1, <3>1, Appended
  <2> HIDE DEF A, B, L
  <2> QED BY <1>1, <2>2
<1>5. /\ A[1] = PackedLaunch("varlen", PQ, PK, f.hq, f.hk, <<f.bm, f.bn>>, Cdiv(Longest(PK), f.bm), f.hq)
      /\ B[1] = PackedLaunch("dq", PQ, PK, f.hq, f.hk, <<b.bm, b.bn>>, Cdiv(Longest(PQ), b.bm), f.hq)
      /\ B[2] = PackedLaunch("dkv", PQ, PK, f.hq, f.hk, <<b.bm, b.bn>>, Cdiv(Longest(PK), b.bn), f.hk)
  BY DEF NonpagedForward, NonpagedBackward
<1>6. PICK c : c = L[3]
  OBVIOUS
<1> HIDE DEF A, B
<1>7. PackedLaunches
  BY <1>1, <1>2, <1>4, <1>5 DEF PackedLaunches, PackedRecord, PackedLaunch
<1> QED BY <1>1, <1>3, <1>7

-----------------------------------------------------------------------------
\* Query j of sequence s: its position, its row, and what attention gives it.
Position(s, j) == PK[s] - PQ[s] + j
QRow(s, j)     == Before(PQ, s - 1) + j
KRow(s, n)     == Before(PK, s - 1) + n
AttnTerm(s, j, h) ==
  << <<s, Position(s, j)>>, h \div (job.launches[1].hq \div job.launches[1].hk),
     Alone(s, Position(s, j), job.launches[1].bn) >>
IsQuery(s, j, h) == s \in 1 .. Len(PQ) /\ j \in 0 .. PQ[s] - 1 /\ h \in 0 .. job.launches[1].hq - 1
IsKey(s, n, h)   == s \in 1 .. Len(PQ) /\ n \in 0 .. PK[s] - 1 /\ h \in 0 .. job.launches[1].hk - 1

\* Positions lie in their sequence.
LEMMA PositionIs ==
  ASSUME PackedShape, NEW s \in 1 .. Len(PQ), NEW j \in 0 .. PQ[s] - 1
  PROVE  /\ PQ[s] \in Nat /\ PK[s] \in Nat /\ PQ[s] <= PK[s]
         /\ Position(s, j) \in 0 .. PK[s] - 1 /\ PK[s] - PQ[s] <= Position(s, j)
         /\ Position(s, j) - (PK[s] - PQ[s]) = j
         /\ Before(PQ, s - 1) \in Nat /\ Before(PK, s - 1) \in Nat
<1>1. PQ[s] \in Nat /\ PK[s] \in Nat /\ PQ[s] <= PK[s]
  BY DEF PackedShape
<1>2. PQ \in Seq(Nat) /\ PK \in Seq(Nat) /\ Len(PQ) = Len(PK) /\ s - 1 \in 0 .. Len(PQ)
  BY DEF PackedShape
<1>3. Before(PQ, s - 1) \in Nat /\ Before(PK, s - 1) \in Nat
  BY <1>2, BeforeStep
<1> QED BY <1>1, <1>3 DEF Position

\* Two queries in one row, and two keys in one row, are the same.
LEMMA RowsApart ==
  ASSUME NEW lens \in Seq(Nat), NEW s \in 1 .. Len(lens), NEW j \in 0 .. lens[s] - 1,
         NEW t \in 1 .. Len(lens), NEW k \in 0 .. lens[t] - 1,
         Before(lens, s - 1) + j = Before(lens, t - 1) + k
  PROVE  s = t /\ j = k
<1> DEFINE r == Before(lens, s - 1) + j
<1>1. /\ Before(lens, s) = Before(lens, s - 1) + lens[s] /\ lens[s] \in Nat
      /\ Before(lens, t) = Before(lens, t - 1) + lens[t] /\ lens[t] \in Nat
  BY BeforeStep
<1>2. Before(lens, s - 1) \in Nat /\ Before(lens, t - 1) \in Nat
  <2>1. s - 1 \in 0 .. Len(lens) /\ t - 1 \in 0 .. Len(lens)
    OBVIOUS
  <2> QED BY <2>1, BeforeStep
<1>3. /\ r \in Int
      /\ Before(lens, s - 1) <= r /\ r < Before(lens, s)
      /\ Before(lens, t - 1) <= r /\ r < Before(lens, t)
  <2> DEFINE a == Before(lens, s - 1)
             b == Before(lens, t - 1)
             u == lens[s]
             v == lens[t]
  <2>1. j \in Nat /\ j < u /\ k \in Nat /\ k < v /\ u \in Nat /\ v \in Nat
    BY <1>1
  <2>2. a \in Nat /\ b \in Nat /\ a + j = b + k /\ r = a + j
    BY <1>2
  <2>3. Before(lens, s) = a + u /\ Before(lens, t) = b + v
    BY <1>1
  <2> HIDE DEF a, b, u, v, r
  <2>4. r \in Int /\ a <= r /\ r < a + u /\ b <= r /\ r < b + v
    BY ONLY <2>1, <2>2
  <2> QED BY ONLY <2>3, <2>4 DEF a, b
<1> HIDE DEF r
<1>4. s = t
  BY <1>3, RowOfOne
<1>5. j = k
  BY <1>2, <1>4
<1> QED BY <1>4, <1>5

\* What the programs of the forward kernel store.
LEMMA VarlenStores ==
  ASSUME NEW l, NEW p, NEW m, NEW t
  PROVE  t \in _varlen_attn_fwd_block_kernel(l, p, m) <=>
           /\ ~ (p[2] * l.bm >= l.kv_lens[p[1] + 1] \/ (p[2] + 1) * l.bm <= l.kv_lens[p[1] + 1] - l.q_lens[p[1] + 1])
           /\ \E o \in {"out", "lse"} :
              \E x \in {y \in Lanes(p[2], l.bm) : l.kv_lens[p[1] + 1] - l.q_lens[p[1] + 1] <= y
                                                  /\ y < l.kv_lens[p[1] + 1]} :
                t = << <<o, Before(l.q_lens, p[1]) + (x - (l.kv_lens[p[1] + 1] - l.q_lens[p[1] + 1])), p[3]>>,
                       << Load(m, <<"q", Before(l.q_lens, p[1]) + (x - (l.kv_lens[p[1] + 1] - l.q_lens[p[1] + 1]))>>),
                          kv_head_of(l, p[3]), OnlineSoftmax(l, p[2], x, PackedKeys(l, p, m)) >> >>
BY DEF _varlen_attn_fwd_block_kernel

\* Keys that are those of one sequence fold as that sequence alone.
LEMMA FoldedAlone ==
  ASSUME NEW s, NEW x \in Nat, NEW w \in Nat \ {0}, NEW key, \A n \in 0 .. x : key[n] = << <<s, n>>, <<s, n>> >>
  PROVE  Folded(key, x, w) = Alone(s, x, w)
<1> DEFINE K(t) == IF t * w <= x + 1 THEN w ELSE x + 1 - (t - 1) * w
<1>1. ASSUME NEW t \in 1 .. Cdiv(x + 1, w)
      PROVE  [i \in 1 .. K(t) |-> key[(t - 1) * w + i - 1]]
               = [i \in 1 .. K(t) |-> << <<s, (t - 1) * w + i - 1>>, <<s, (t - 1) * w + i - 1>> >>]
  <2>1. x + 1 \in Nat
    OBVIOUS
  <2>2. Cdiv(x + 1, w) \in Nat
    BY ONLY <2>1, w \in Nat \ {0}, CdivFacts
  <2>3. t \in Nat \ {0} /\ t <= Cdiv(x + 1, w)
    BY <2>2
  <2>4. (t - 1) * w \in Nat /\ t * w \in Nat /\ t * w = (t - 1) * w + w /\ (t - 1) * w <= x
    BY ONLY <2>3, x \in Nat, w \in Nat \ {0}, TilesUpTo
  <2>5. ASSUME NEW i \in 1 .. K(t) PROVE (t - 1) * w + i - 1 \in 0 .. x
    BY <2>4
  <2> DEFINE k == K(t)
  <2> HIDE DEF k
  <2>6. \A i \in 1 .. k : key[(t - 1) * w + i - 1] = << <<s, (t - 1) * w + i - 1>>, <<s, (t - 1) * w + i - 1>> >>
    BY <2>5 DEF k
  <2> QED BY <2>6 DEF k
<1>2. Folded(key, x, w) = [t \in 1 .. Cdiv(x + 1, w) |-> [i \in 1 .. K(t) |-> key[(t - 1) * w + i - 1]]]
  BY DEF Folded
<1>3. Alone(s, x, w) = [t \in 1 .. Cdiv(x + 1, w) |->
                          [i \in 1 .. K(t) |-> << <<s, (t - 1) * w + i - 1>>, <<s, (t - 1) * w + i - 1>> >>]]
  BY DEF Alone
<1> HIDE DEF K
<1> QED BY ONLY <1>1, <1>2, <1>3

\* The term of a row computed in any block that holds the row.
LEMMA PackedFold ==
  ASSUME PackedShape, PackedLaunches, NEW m, PackedInputs(PQ, PK, m), NEW p,
         NEW s \in 1 .. Len(PQ), p[1] = s - 1, NEW x \in 0 .. PK[s] - 1,
         NEW b \in Nat, p[2] = b, x \in Lanes(b, job.launches[1].bm)
  PROVE  OnlineSoftmax(job.launches[1], b, x, PackedKeys(job.launches[1], p, m))
           = Alone(s, x, job.launches[1].bn)
<1> DEFINE l == job.launches[1]
           key == PackedKeys(l, p, m)
<1>1. l.bm \in Nat \ {0} /\ l.bn \in Nat \ {0} /\ l.bm % l.bn = 0 /\ l.kv_lens = PK /\ l.q_lens = PQ
  BY DEF PackedLaunches, PackedRecord
<1>2. PK[s] \in Nat /\ PQ[s] \in Nat
  BY DEF PackedShape
<1> HIDE DEF l
<1>3. x \in Nat /\ b * l.bm \in Nat /\ b * l.bm <= x /\ x < b * l.bm + l.bm
  <2>1. b * l.bm \in Nat /\ x \in Nat
    BY <1>1, <1>2
  <2>2. x \in b * l.bm .. b * l.bm + l.bm - 1
    BY DEF Lanes, l
  <2> QED BY <1>1, <2>1, <2>2
<1>4. InBlock(l, b, x)
  BY <1>1, <1>3 DEF InBlock
<1>5. OnlineSoftmax(l, b, x, key) = Folded(key, x, l.bn)
  <2> HIDE DEF key
  <2> QED BY ONLY <1>4, SoftmaxFolds
<1>6. Cdiv(l.bm, l.bn) * l.bn \in Nat /\ l.bm <= Cdiv(l.bm, l.bn) * l.bn
  <2>1. l.bm \in Nat
    BY <1>1
  <2>2. Cdiv(l.bm, l.bn) \in Nat /\ l.bm <= Cdiv(l.bm, l.bn) * l.bn
    BY ONLY <1>1, <2>1, CdivFacts
  <2> QED BY <1>1, <2>2
<1>7. ASSUME NEW n \in 0 .. x PROVE key[n] = << <<s, n>>, <<s, n>> >>
  <2>1. n \in KeyLanes(l, p[2])
    <3>1. KeyLanes(l, p[2]) = 0 .. b * l.bm + Cdiv(l.bm, l.bn) * l.bn - 1
      BY DEF KeyLanes
    <3> QED BY ONLY <1>1, <1>3, <1>6, <3>1, n \in 0 .. x
  <2>2. s - 1 + 1 = s /\ n < PK[s] /\ n \in 0 .. PK[s] - 1
    BY <1>2, <1>3
  <2>3. key[n] = << Load(m, <<"k", Before(PK, s - 1) + n>>), Load(m, <<"v", Before(PK, s - 1) + n>>) >>
    BY <1>1, <2>1, <2>2 DEF PackedKeys
  <2>4. s \in DOMAIN PQ
    BY DEF PackedShape
  <2>5. \A y \in {"k", "v"} : Load(m, <<y, Before(PK, s - 1) + n>>) = <<s, n>>
    BY <2>2, <2>4 DEF PackedInputs
  <2> QED BY <2>3, <2>5
<1> HIDE DEF key
<1>8. Folded(key, x, l.bn) = Alone(s, x, l.bn)
  <2>1. PICK w : w = l.bn
    OBVIOUS
  <2>2. w \in Nat \ {0} /\ x \in Nat
    BY ONLY <1>1, <1>3, <2>1
  <2>3. Folded(key, x, w) = Alone(s, x, w)
    BY ONLY <1>7, <2>2, FoldedAlone
  <2> QED BY ONLY <2>1, <2>3
<1> QED BY <1>5, <1>8 DEF l, key

\* What the programs of a packed launch store, by kernel.
LEMMA PackedStored ==
  ASSUME NEW l, NEW p, NEW m
  PROVE  /\ l.kernel = "varlen" => Stored(l, p, 0, m) = _varlen_attn_fwd_block_kernel(l, p, m)
         /\ l.kernel = "dq" => Stored(l, p, 0, m) = _varlen_attn_bwd_dq_kernel(l, p, m)
         /\ l.kernel = "dkv" => Stored(l, p, 0, m) = _varlen_attn_bwd_dkv_kernel(l, p, m)
BY DEF Stored

\* A lane of block b of width w.
LEMMA LaneIs ==
  ASSUME NEW b \in Nat, NEW w \in Nat \ {0}, NEW x
  PROVE  /\ b * w \in Nat
         /\ x \in Lanes(b, w) <=> x \in Nat /\ b * w <= x /\ x < b * w + w
<1>1. b * w \in Nat
  OBVIOUS
<1>2. Lanes(b, w) = b * w .. b * w + w - 1
  BY DEF Lanes
<1> QED BY <1>1, <1>2

\* Every store of the forward kernel is the attention of a query.
LEMMA VarlenSound ==
  ASSUME PackedShape, PackedLaunches, NEW m, PackedInputs(PQ, PK, m), NEW t \in AllStores(job.launches[1], m)
  PROVE  \E s, j, h : \E o \in {"out", "lse"} :
           IsQuery(s, j, h) /\ t = << <<o, QRow(s, j), h>>, AttnTerm(s, j, h) >>
<1> DEFINE l == job.launches[1]
<1>1. /\ l.kernel = "varlen" /\ l.kv_lens = PK /\ l.q_lens = PQ /\ l.bm \in Nat \ {0}
      /\ l.grid = (0 .. Len(PQ) - 1) \X (0 .. Cdiv(Longest(PK), l.bm) - 1) \X (0 .. l.hq - 1)
  BY DEF PackedLaunches, PackedRecord
<1>2. PICK p \in l.grid : t \in Stored(l, p, 0, m)
  BY InAllStores
<1> HIDE DEF l
<1>3. p[1] \in 0 .. Len(PQ) - 1 /\ p[2] \in 0 .. Cdiv(Longest(PK), l.bm) - 1 /\ p[3] \in 0 .. l.hq - 1
  BY <1>1
<1>4. t \in _varlen_attn_fwd_block_kernel(l, p, m)
  BY <1>1, <1>2, PackedStored
<1> DEFINE s == p[1] + 1
           h == p[3]
           first == PK[s] - PQ[s]
<1>5. s \in 1 .. Len(PQ) /\ p[1] = s - 1 /\ Len(PQ) \in Nat
  <2>1. Len(PQ) \in Nat
    BY DEF PackedShape
  <2> QED BY ONLY <1>3, <2>1
<1>6. PQ[s] \in Nat /\ PK[s] \in Nat /\ PQ[s] <= PK[s]
  BY <1>5 DEF PackedShape
<1>7. PICK o \in {"out", "lse"}, x \in {y \in Lanes(p[2], l.bm) : first <= y /\ y < PK[s]} :
        t = << <<o, Before(PQ, p[1]) + (x - first), h>>,
               << Load(m, <<"q", Before(PQ, p[1]) + (x - first)>>), kv_head_of(l, h),
                  OnlineSoftmax(l, p[2], x, PackedKeys(l, p, m)) >> >>
  <2> HIDE DEF first, s
  <2> QED BY <1>1, <1>4, VarlenStores DEF first, s
<1> HIDE DEF s
<1>8. p[2] \in Nat
  BY <1>3
<1>9. x \in Lanes(p[2], l.bm) /\ first <= x /\ x < PK[s] /\ x \in Nat
  BY <1>1, <1>7, <1>8, LaneIs
<1> DEFINE j == x - first
<1>10. j \in 0 .. PQ[s] - 1 /\ x \in 0 .. PK[s] - 1 /\ Position(s, j) = x
  BY <1>6, <1>9 DEF Position
<1>11. OnlineSoftmax(l, p[2], x, PackedKeys(l, p, m)) = Alone(s, x, l.bn)
  BY <1>5, <1>8, <1>9, <1>10, PackedFold DEF l
<1>12. Load(m, <<"q", Before(PQ, s - 1) + j>>) = <<s, Position(s, j)>>
  <2>1. s \in DOMAIN PQ
    BY <1>5 DEF PackedShape
  <2> HIDE DEF j
  <2> QED BY <1>10, <2>1 DEF PackedInputs, Position
<1>13. kv_head_of(l, h) = h \div (l.hq \div l.hk)
  BY DEF kv_head_of
<1>14. t = << <<o, QRow(s, j), h>>, AttnTerm(s, j, h) >>
  <2>1. QRow(s, j) = Before(PQ, p[1]) + (x - first)
    BY <1>5 DEF QRow
  <2>2. AttnTerm(s, j, h) = << <<s, Position(s, j)>>, h \div (l.hq \div l.hk), Alone(s, x, l.bn) >>
    BY <1>10 DEF AttnTerm, l
  <2> HIDE DEF j, h
  <2> QED BY <1>5, <1>7, <1>11, <1>12, <1>13, <2>1, <2>2 DEF j
<1>15. IsQuery(s, j, h)
  BY <1>3, <1>5, <1>10 DEF IsQuery, l
<1> HIDE DEF j, h
<1> QED BY <1>14, <1>15

\* Every query gets its attention.
LEMMA VarlenComplete ==
  ASSUME PackedShape, PackedLaunches, NEW m, PackedInputs(PQ, PK, m),
         NEW s, NEW j, NEW h, IsQuery(s, j, h), NEW o \in {"out", "lse"}
  PROVE  << <<o, QRow(s, j), h>>, AttnTerm(s, j, h) >> \in AllStores(job.launches[1], m)
<1> DEFINE l == job.launches[1]
           x == Position(s, j)
           b == x \div l.bm
           p == <<s - 1, b, h>>
           first == PK[s] - PQ[s]
<1>1. /\ l.kernel = "varlen" /\ l.kv_lens = PK /\ l.q_lens = PQ /\ l.bm \in Nat \ {0}
      /\ l.grid = (0 .. Len(PQ) - 1) \X (0 .. Cdiv(Longest(PK), l.bm) - 1) \X (0 .. l.hq - 1)
  BY DEF PackedLaunches, PackedRecord
<1>2. s \in 1 .. Len(PQ) /\ j \in 0 .. PQ[s] - 1 /\ h \in 0 .. l.hq - 1 /\ Len(PQ) \in Nat
  BY DEF IsQuery, PackedShape
<1>3. /\ PQ[s] \in Nat /\ PK[s] \in Nat /\ PQ[s] <= PK[s]
      /\ x \in 0 .. PK[s] - 1 /\ first <= x /\ x - first = j
  BY <1>2, PositionIs
<1>4. Longest(PK) \in Nat /\ PK[s] <= Longest(PK)
  <2>1. PK \in Seq(Nat) /\ s \in 1 .. Len(PK)
    BY <1>2 DEF PackedShape
  <2> QED BY ONLY <2>1, LongestIs
<1> HIDE DEF l, x, first
<1>5. b \in 0 .. Cdiv(Longest(PK), l.bm) - 1 /\ x % l.bm \in 0 .. l.bm - 1 /\ b * l.bm + (x % l.bm) = x
  <2>1. x \in 0 .. Longest(PK) - 1
    BY <1>3, <1>4
  <2>2. l.bm \in Nat \ {0} /\ Longest(PK) \in Nat
    BY <1>1, <1>4
  <2>3. /\ x \div l.bm \in 0 .. Cdiv(Longest(PK), l.bm) - 1
        /\ x % l.bm \in 0 .. l.bm - 1
        /\ (x \div l.bm) * l.bm + (x % l.bm) = x
    BY ONLY <2>1, <2>2, TileOf
  <2> QED BY <2>3
<1>6. b \in Nat /\ x \in Nat
  BY <1>3, <1>5
<1> HIDE DEF b
<1>7. b * l.bm \in Nat /\ b * l.bm <= x /\ x < b * l.bm + l.bm
  <2> DEFINE w == l.bm
             r == x % l.bm
  <2>1. w \in Nat \ {0} /\ r \in 0 .. w - 1 /\ b * w + r = x
    BY <1>1, <1>5
  <2> HIDE DEF w, r
  <2>2. b * w \in Nat /\ b * w <= x /\ x < b * w + w
    BY ONLY <1>6, <2>1
  <2> QED BY <2>2 DEF w
<1>8. x \in Lanes(b, l.bm)
  BY <1>1, <1>6, <1>7, LaneIs
<1>9. p \in l.grid /\ p[1] = s - 1 /\ p[2] = b /\ p[3] = h /\ p[1] + 1 = s
  <2>1. s - 1 \in 0 .. Len(PQ) - 1 /\ (s - 1) + 1 = s
    BY ONLY <1>2
  <2>2. p \in l.grid
    BY <1>1, <1>2, <1>5, <2>1
  <2> QED BY <2>1, <2>2
<1> HIDE DEF p
<1>10. OnlineSoftmax(l, b, x, PackedKeys(l, p, m)) = Alone(s, x, l.bn)
  BY <1>2, <1>3, <1>6, <1>8, <1>9, PackedFold DEF l
<1>11. Load(m, <<"q", Before(PQ, s - 1) + j>>) = <<s, x>>
  <2>1. s \in DOMAIN PQ
    BY <1>2 DEF PackedShape
  <2> QED BY <1>2, <2>1 DEF PackedInputs, Position, x
<1> DEFINE t == << <<o, QRow(s, j), h>>, AttnTerm(s, j, h) >>
<1>12. t = << <<o, Before(PQ, s - 1) + (x - first), h>>,
              << Load(m, <<"q", Before(PQ, s - 1) + (x - first)>>), kv_head_of(l, h),
                 OnlineSoftmax(l, b, x, PackedKeys(l, p, m)) >> >>
  <2>1. t = << <<o, Before(PQ, s - 1) + j, h>>, << <<s, x>>, h \div (l.hq \div l.hk), Alone(s, x, l.bn) >> >>
    BY DEF QRow, AttnTerm, l, x
  <2> HIDE DEF t
  <2> QED BY <1>3, <1>10, <1>11, <2>1 DEF kv_head_of
<1> HIDE DEF t
<1>13. ~ (b * l.bm >= PK[s] \/ (b + 1) * l.bm <= first)
  <2>1. (b + 1) * l.bm = b * l.bm + l.bm
    BY <1>1, <1>6
  <2>2. first \in Int
    BY <1>3 DEF first
  <2> QED BY <1>1, <1>3, <1>6, <1>7, <2>1, <2>2
<1>14. x \in {y \in Lanes(b, l.bm) : first <= y /\ y < PK[s]}
  BY <1>3, <1>8
<1>15. t \in _varlen_attn_fwd_block_kernel(l, p, m)
  BY <1>1, <1>9, <1>12, <1>13, <1>14, VarlenStores DEF first
<1>16. t \in Stored(l, p, 0, m)
  BY <1>1, <1>15, PackedStored
<1> QED BY <1>9, <1>16, InAllStores DEF t, l

-----------------------------------------------------------------------------
\* Lanes lo .. hi - 1 of a loop in tiles of w, each giving its entry of F.
KeptTiles(c, w, lo, hi, F) ==
  [t \in 1 .. c |->
     LET ns == Ascending({x \in Lanes(t - 1, w) : lo <= x /\ x < hi}) IN [i \in DOMAIN ns |-> F[ns[i]]]]

\* Two pieces of what is visited from lo on.
LEMMA ShiftConcat ==
  ASSUME NEW lo \in Nat, NEW p \in Nat, NEW e \in Nat, p <= e, NEW F
  PROVE  [j \in 1 .. p |-> F[lo + j - 1]] \o [j \in 1 .. e - p |-> F[lo + p + j - 1]]
           = [j \in 1 .. e |-> F[lo + j - 1]]
<1> DEFINE v == [x \in Nat |-> F[lo + x]]
<1>1. [j \in 1 .. p |-> v[j - 1]] \o [j \in 1 .. e - p |-> v[p + j - 1]] = [j \in 1 .. e |-> v[j - 1]]
  BY ONLY p \in Nat, e \in Nat, p <= e, VisitConcat
<1>2. \A j \in 1 .. p : v[j - 1] = F[lo + j - 1]
  <2> TAKE j \in 1 .. p
  <2>1. j - 1 \in Nat /\ lo + (j - 1) = lo + j - 1
    OBVIOUS
  <2> QED BY <2>1
<1>3. \A j \in 1 .. e : v[j - 1] = F[lo + j - 1]
  <2> TAKE j \in 1 .. e
  <2>1. j - 1 \in Nat /\ lo + (j - 1) = lo + j - 1
    OBVIOUS
  <2> QED BY <2>1
<1>4. \A j \in 1 .. e - p : v[p + j - 1] = F[lo + p + j - 1]
  <2> TAKE j \in 1 .. e - p
  <2>1. p + j - 1 \in Nat /\ lo + (p + j - 1) = lo + p + j - 1
    OBVIOUS
  <2> QED BY <2>1
<1> HIDE DEF v
<1> QED BY ONLY <1>1, <1>2, <1>3, <1>4

\* Where tile t of a loop begins and ends among lanes lo .. hi - 1.
From(t, w, lo) == IF (t - 1) * w <= lo THEN lo ELSE (t - 1) * w
UpTo1(t, w, hi) == IF t * w <= hi THEN t * w ELSE hi
Kept(t, w, lo, hi) ==
  IF From(t, w, lo) <= UpTo1(t, w, hi) THEN UpTo1(t, w, hi) - From(t, w, lo) ELSE 0

\* k entries of F from a on.
Slice(F, a, k) == [i \in 1 .. k |-> F[a + i - 1]]

\* The lanes of tile t that are kept, and k numbers from a on.
KeptSet(t, w, lo, hi) == {x \in Lanes(t - 1, w) : lo <= x /\ x < hi}
Ramp(a, k) == [i \in 1 .. k |-> a + i - 1]

\* The lanes that are kept, in ascending order.
LEMMA KeptLanes ==
  ASSUME NEW w \in Nat \ {0}, NEW lo \in Nat, NEW hi \in Nat, NEW t \in Nat \ {0}
  PROVE  /\ Ascending(KeptSet(t, w, lo, hi)) = Ramp(From(t, w, lo), Kept(t, w, lo, hi))
         /\ \A i \in 1 .. Kept(t, w, lo, hi) : From(t, w, lo) + i - 1 \in lo .. hi - 1
         /\ Kept(t, w, lo, hi) \in Nat /\ From(t, w, lo) \in Nat /\ UpTo1(t, w, hi) \in Nat
         /\ (t - 1) * w \in Nat /\ t * w \in Nat /\ t * w = (t - 1) * w + w
<1> DEFINE S == {x \in Lanes(t - 1, w) : lo <= x /\ x < hi}
           a == From(t, w, lo)
           k == Kept(t, w, lo, hi)
           y == (t - 1) * w
<1>1. t - 1 \in Nat /\ (t - 1) * w \in Nat /\ t * w \in Nat /\ t * w = (t - 1) * w + w
  OBVIOUS
<1>2. a \in Nat /\ k \in Nat /\ UpTo1(t, w, hi) \in Nat
  BY <1>1 DEF From, Kept, UpTo1
<1>3. /\ a = IF y <= lo THEN lo ELSE y
      /\ k = IF a <= (IF y + w <= hi THEN y + w ELSE hi)
             THEN (IF y + w <= hi THEN y + w ELSE hi) - a ELSE 0
  BY <1>1 DEF From, Kept, UpTo1
<1>4. y \in Nat
  BY <1>1
<1>5. ASSUME NEW x PROVE x \in S <=> x \in Nat /\ y <= x /\ x < y + w /\ lo <= x /\ x < hi
  <2>1. x \in Lanes(t - 1, w) <=> x \in Nat /\ y <= x /\ x < y + w
    BY ONLY <1>1, w \in Nat \ {0}, LaneIs
  <2> QED BY <2>1
<1> HIDE DEF S, y, a, k
<1>6. S = a .. a + k - 1
  <2>1. ASSUME NEW x PROVE x \in S <=> x \in a .. a + k - 1
    BY <1>2, <1>3, <1>4, <1>5
  <2> QED BY <2>1
<1>7. Ascending(S) = [i \in 1 .. k |-> a + i - 1]
  <2>1. a \in Int /\ k \in Nat
    BY <1>2
  <2> QED BY <1>6, <2>1, AscendingInterval
<1>8. \A i \in 1 .. k : a + i - 1 \in lo .. hi - 1
  BY <1>2, <1>3, <1>4
<1> QED BY <1>1, <1>2, <1>7, <1>8 DEF S, a, k, KeptSet, Ramp

\* Such a tile.
LEMMA KeptTileIs ==
  ASSUME NEW c \in Nat, NEW w \in Nat \ {0}, NEW lo \in Nat, NEW hi \in Nat, NEW F, NEW t \in 1 .. c
  PROVE  /\ KeptTiles(c, w, lo, hi, F)[t] = Slice(F, From(t, w, lo), Kept(t, w, lo, hi))
         /\ Kept(t, w, lo, hi) \in Nat /\ From(t, w, lo) \in Nat /\ UpTo1(t, w, hi) \in Nat
         /\ (t - 1) * w \in Nat /\ t * w \in Nat /\ t * w = (t - 1) * w + w
         /\ \A i \in 1 .. Kept(t, w, lo, hi) : From(t, w, lo) + i - 1 \in lo .. hi - 1
<1> DEFINE S == KeptSet(t, w, lo, hi)
           a == From(t, w, lo)
           k == Kept(t, w, lo, hi)
<1>1. t \in Nat \ {0}
  OBVIOUS
<1>2. /\ Ascending(S) = Ramp(a, k)
      /\ \A i \in 1 .. k : a + i - 1 \in lo .. hi - 1
      /\ k \in Nat /\ a \in Nat /\ UpTo1(t, w, hi) \in Nat
      /\ (t - 1) * w \in Nat /\ t * w \in Nat /\ t * w = (t - 1) * w + w
  BY ONLY <1>1, w \in Nat \ {0}, lo \in Nat, hi \in Nat, KeptLanes
<1>3. KeptTiles(c, w, lo, hi, F)[t] = [i \in DOMAIN Ascending(S) |-> F[Ascending(S)[i]]]
  BY DEF KeptTiles, KeptSet
<1> HIDE DEF S, a, k
<1>4. KeptTiles(c, w, lo, hi, F)[t] = [i \in 1 .. k |-> F[a + i - 1]]
  BY ONLY <1>2, <1>3 DEF Ramp
<1> QED BY <1>2, <1>4 DEF a, k, Slice

\* Tile after tile, the lanes lo .. hi - 1 in ascending order.
LEMMA FlatKept ==
  ASSUME NEW c \in Nat, NEW w \in Nat \ {0}, NEW lo \in Nat, NEW hi \in Nat, lo <= hi, hi <= c * w, NEW F
  PROVE  /\ FlattenSeq(NonEmpty(KeptTiles(c, w, lo, hi, F))) = [i \in 1 .. hi - lo |-> F[lo + i - 1]]
         /\ \E u, z : Between(KeptTiles(c, w, lo, hi, F), c, u, z)
<1> DEFINE tiles == KeptTiles(c, w, lo, hi, F)
           a(t) == From(t, w, lo)
           b(t) == UpTo1(t, w, hi)
           k(t) == Kept(t, w, lo, hi)
<1>1. ASSUME NEW t \in 1 .. c
      PROVE  /\ tiles[t] = Slice(F, a(t), k(t))
             /\ k(t) \in Nat /\ a(t) \in Nat /\ b(t) \in Nat
             /\ (t - 1) * w \in Nat /\ t * w \in Nat /\ t * w = (t - 1) * w + w
  <2>1. tiles[t] = Slice(F, a(t), k(t))
    BY KeptTileIs
  <2>2. k(t) \in Nat /\ a(t) \in Nat /\ b(t) \in Nat
    BY KeptTileIs
  <2>3. (t - 1) * w \in Nat /\ t * w \in Nat /\ t * w = (t - 1) * w + w
    BY KeptTileIs
  <2> QED BY <2>1, <2>2, <2>3
<1>2. tiles = [t \in 1 .. c |-> tiles[t]]
  BY DEF KeptTiles
<1>3. ASSUME NEW t \in 1 .. c PROVE tiles[t] # <<>> <=> k(t) # 0
  <2>1. tiles[t] = [i \in 1 .. k(t) |-> F[a(t) + i - 1]] /\ k(t) \in Nat
    BY <1>1 DEF Slice
  <2> HIDE DEF tiles, k, a
  <2>2. DOMAIN tiles[t] = 1 .. k(t)
    BY <2>1
  <2>3. ASSUME k(t) = 0 PROVE tiles[t] = <<>>
    BY <2>1, <2>3
  <2>4. ASSUME k(t) # 0 PROVE tiles[t] # <<>>
    <3>1. 1 \in DOMAIN tiles[t]
      BY <2>1, <2>2, <2>4
    <3> QED BY <3>1
  <2> QED BY <2>3, <2>4
<1> HIDE DEF tiles
<1>4. CASE lo = hi
  <2>1. ASSUME NEW t \in 1 .. c PROVE k(t) = 0
    BY <1>1, <1>4 DEF Kept, From, UpTo1
  <2>2. Between(tiles, c, 0, 0)
    BY <1>2, <1>3, <2>1 DEF Between
  <2>3. NonEmpty(tiles) = [i \in 1 .. 0 - 0 |-> tiles[0 + i]]
    BY ONLY <2>2, NonEmptyBetween
  <2>4. NonEmpty(tiles) = << >>
    BY <2>3
  <2>5. FlattenSeq(NonEmpty(tiles)) = << >>
    BY <2>4 DEF FlattenSeq
  <2>6. [i \in 1 .. hi - lo |-> F[lo + i - 1]] = << >>
    BY <1>4
  <2> QED BY <2>2, <2>5, <2>6 DEF tiles
<1>5. CASE lo < hi
  <2> DEFINE u == lo \div w
             z == Cdiv(hi, w)
  <2>1. u \in Nat /\ u * w \in Nat /\ (u + 1) * w = u * w + w /\ u * w <= lo /\ lo < u * w + w
    <3>1. u \in Nat /\ lo % w \in Nat /\ lo % w < w /\ lo = u * w + (lo % w)
      BY DivMod
    <3> HIDE DEF u
    <3> QED BY <3>1
  <2>2. z \in Nat /\ hi <= z * w /\ z * w < hi + w
    BY CdivFacts
  <2> HIDE DEF u, z
  <2>3. ASSUME NEW t \in 1 .. c PROVE k(t) # 0 <=> u < t /\ t <= z
    <3> DEFINE y == (t - 1) * w
    <3>1. y \in Nat /\ t * w = y + w
      BY <1>1
    <3>2. k(t) # 0 <=> y < hi /\ lo < y + w
      <4>1. k(t) = IF (IF y <= lo THEN lo ELSE y) <= (IF y + w <= hi THEN y + w ELSE hi)
                   THEN (IF y + w <= hi THEN y + w ELSE hi) - (IF y <= lo THEN lo ELSE y) ELSE 0
        BY <3>1 DEF Kept, From, UpTo1
      <4> HIDE DEF y, k
      <4> QED BY <1>5, <3>1, <4>1
    <3>3. u < t <=> lo < y + w
      <4>1. ASSUME u < t PROVE u * w + w <= y + w
        <5>1. u + 1 <= t
          BY <2>1, <4>1
        <5>2. (u + 1) * w <= t * w
          BY <2>1, <5>1, MulMono
        <5> QED BY <2>1, <3>1, <5>2
      <4>2. ASSUME t <= u PROVE y + w <= u * w
        <5>1. t * w <= u * w
          BY <2>1, <4>2, MulMono
        <5> QED BY <3>1, <5>1
      <4> HIDE DEF y
      <4> QED BY <2>1, <3>1, <4>1, <4>2
    <3>4. t <= z <=> y < hi
      <4>1. ASSUME t <= z PROVE y + w <= z * w
        <5>1. t * w <= z * w
          BY <2>2, <4>1, MulMono
        <5> QED BY <3>1, <5>1
      <4>2. ASSUME z < t PROVE z * w <= y
        <5>1. z <= t - 1 /\ t - 1 \in Nat
          BY <2>2, <4>2
        <5>2. z * w <= (t - 1) * w
          BY <2>2, <5>1, MulMono
        <5> QED BY <5>2
      <4>3. z * w \in Nat
        BY <2>2
      <4> HIDE DEF y
      <4> QED BY <2>2, <3>1, <4>1, <4>2, <4>3
    <3> QED BY <3>2, <3>3, <3>4
  <2>4. z <= c
    <3> SUFFICES ASSUME c < z PROVE FALSE
      BY <2>2
    <3>1. c + 1 <= z /\ (c + 1) * w = c * w + w /\ c * w \in Nat /\ c + 1 \in Nat
      BY <2>2
    <3>2. (c + 1) * w <= z * w /\ z * w \in Nat
      BY <2>2, <3>1, MulMono
    <3> QED BY <2>2, <3>1, <3>2
  <2>5. u < z
    <3> SUFFICES ASSUME z <= u PROVE FALSE
      BY <2>1, <2>2
    <3>1. z * w <= u * w /\ z * w \in Nat
      BY <2>1, <2>2, MulMono
    <3> QED BY <1>5, <2>1, <2>2, <3>1
  <2>6. Between(tiles, c, u, z)
    BY <1>2, <1>3, <2>1, <2>2, <2>3, <2>4, <2>5 DEF Between
  <2> DEFINE d == z - u
             kept == NonEmpty(tiles)
             g == [i \in 1 .. d |-> [j \in 1 .. b(u + i) - lo |-> F[lo + j - 1]]]
  <2>7. kept = [i \in 1 .. d |-> tiles[u + i]]
    BY ONLY <2>6, NonEmptyBetween
  <2>8. d \in Nat \ {0} /\ 1 \in 1 .. d /\ d \in 1 .. d /\ u + d = z
    BY <2>1, <2>2, <2>5
  <2> HIDE DEF kept, d
  <2>9. Len(kept) = d
    BY <2>7, <2>8
  <2>10. ASSUME NEW i \in 1 .. d
         PROVE  /\ u + i \in 1 .. c /\ u + i <= z /\ a(u + i) <= b(u + i)
                /\ kept[i] = [j \in 1 .. b(u + i) - a(u + i) |-> F[a(u + i) + j - 1]]
                /\ a(u + i) \in Nat /\ b(u + i) \in Nat /\ lo <= b(u + i)
    <3>1. u + i \in 1 .. c /\ u < u + i /\ u + i <= z
      BY <2>1, <2>2, <2>4, <2>8
    <3>2. k(u + i) # 0
      BY <2>3, <3>1
    <3>3. k(u + i) = b(u + i) - a(u + i) /\ a(u + i) <= b(u + i)
      BY <3>2 DEF Kept
    <3>4. tiles[u + i] = [j \in 1 .. k(u + i) |-> F[a(u + i) + j - 1]] /\ a(u + i) \in Nat /\ b(u + i) \in Nat
      BY <1>1, <3>1 DEF Slice
    <3>5. lo <= a(u + i)
      <4>1. PICK t \in 1 .. c : t = u + i
        BY <3>1
      <4>2. (t - 1) * w \in Nat
        BY <1>1
      <4>3. lo <= From(t, w, lo)
        BY ONLY <4>2, lo \in Nat DEF From
      <4> QED BY <4>1, <4>3
    <3>6. kept[i] = tiles[u + i]
      BY <2>7
    <3> HIDE DEF a, b, k
    <3> QED BY <3>1, <3>3, <3>4, <3>5, <3>6
  <2>11. \A i \in 1 .. d : g[i] = [j \in 1 .. b(u + i) - lo |-> F[lo + j - 1]]
    OBVIOUS
  <2>12. g[1] = kept[1]
    <3>1. a(u + 1) = lo
      <4>1. (u + 1 - 1) * w = u * w
        BY <2>1
      <4> QED BY <2>1, <4>1 DEF From
    <3>2. kept[1] = [j \in 1 .. b(u + 1) - a(u + 1) |-> F[a(u + 1) + j - 1]]
      BY <2>8, <2>10
    <3> HIDE DEF a, b, g
    <3> QED BY <2>8, <2>11, <3>1, <3>2
  <2>13. ASSUME NEW i \in 2 .. d PROVE g[i] = g[i - 1] \o kept[i]
    <3>0. PICK t : t = u + i
      OBVIOUS
    <3> DEFINE y == (t - 1) * w
               p == y - lo
               e == b(u + i) - lo
    <3>1. i \in 1 .. d /\ i - 1 \in 1 .. d /\ u + (i - 1) = t - 1
      BY <2>1, <2>8, <3>0
    <3>2. t \in 1 .. c /\ t <= z /\ u + 1 <= t - 1 /\ t - 1 \in 1 .. c
      <4>1. u + i \in 1 .. c /\ u + i <= z
        BY <2>10, <3>1
      <4> QED BY ONLY <2>1, <3>0, <4>1, i \in 2 .. d, c \in Nat
    <3>3. y \in Nat /\ (u + 1) * w <= y /\ lo < y
      <4>1. y \in Nat
        BY <1>1, <3>2
      <4>2. (u + 1) * w <= y
        <5>1. u + 1 \in Nat /\ t - 1 \in Nat
          BY <2>1, <3>2
        <5> QED BY <3>2, <5>1, MulMono
      <4> QED BY <2>1, <4>1, <4>2
    <3>4. y <= hi
      <4>1. t * w <= z * w
        <5>1. t \in Nat
          BY <3>2
        <5> QED BY <2>2, <3>2, <5>1, MulMono
      <4>2. z * w \in Nat /\ t * w = y + w
        BY <1>1, <2>2, <3>2
      <4> HIDE DEF y
      <4> QED BY <2>2, <3>3, <4>1, <4>2
    <3>5. a(u + i) = y /\ b(u + (i - 1)) = y
      <4>1. From(t, w, lo) = y
        <5>1. ~ ((t - 1) * w <= lo)
          BY <3>3
        <5> QED BY <5>1 DEF From
      <4>2. UpTo1(t - 1, w, hi) = y
        BY <3>4 DEF UpTo1
      <4> QED BY <3>0, <3>1, <4>1, <4>2
    <3>6. kept[i] = [j \in 1 .. b(u + i) - y |-> F[y + j - 1]] /\ b(u + i) \in Nat /\ y <= b(u + i)
      <4> HIDE DEF a, b, y
      <4> QED BY <2>10, <3>1, <3>5
    <3>7. p \in Nat /\ e \in Nat /\ p <= e /\ b(u + i) - y = e - p /\ y = lo + p
      <4> HIDE DEF y, b
      <4> QED BY <3>3, <3>6
    <3>8. g[i - 1] = [j \in 1 .. p |-> F[lo + j - 1]] /\ g[i] = [j \in 1 .. e |-> F[lo + j - 1]]
      <4> HIDE DEF g, a, b, y
      <4> QED BY <2>11, <3>1, <3>5
    <3>9. kept[i] = [j \in 1 .. e - p |-> F[lo + p + j - 1]]
      <4> HIDE DEF y, p, e, b
      <4> QED BY <3>6, <3>7
    <3> HIDE DEF p, e, g
    <3>10. [j \in 1 .. p |-> F[lo + j - 1]] \o [j \in 1 .. e - p |-> F[lo + p + j - 1]] = [j \in 1 .. e |-> F[lo + j - 1]]
      BY ONLY <3>7, lo \in Nat, ShiftConcat
    <3> QED BY ONLY <3>8, <3>9, <3>10
  <2>14. FlattenSeq(kept) = g[d]
    <3> HIDE DEF g
    <3>1. d \in Nat \ {0}
      BY <2>8
    <3>2. Len(kept) = d /\ g[1] = kept[1] /\ \A i \in 2 .. d : g[i] = g[i - 1] \o kept[i]
      BY <2>9, <2>12, <2>13
    <3> QED BY ONLY <3>1, <3>2, FlattenIs, ZenonT(60)
  <2>15. b(u + d) = hi
    <3>1. z * w \in Nat
      BY <2>2
    <3> QED BY <2>2, <2>8, <3>1 DEF UpTo1
  <2>16. g[d] = [j \in 1 .. hi - lo |-> F[lo + j - 1]]
    <3> HIDE DEF b, g
    <3> QED BY <2>8, <2>11, <2>15
  <2> QED BY <2>6, <2>14, <2>16 DEF kept, tiles
<1> QED BY <1>4, <1>5

-----------------------------------------------------------------------------
\* The pieces A[1], ..., A[n] joined one by one.
Joins(A, n, S, g) ==
  /\ n \in Nat /\ A \in [1 .. n -> Seq(S)] /\ g \in [0 .. n -> Seq(S)]
  /\ g[0] = << >> /\ \A i \in 1 .. n : g[i] = g[i - 1] \o A[i]

\* They can be.
LEMMA JoinsExist ==
  ASSUME NEW N \in Nat, NEW S, NEW A \in [1 .. N -> Seq(S)]
  PROVE  \E g : Joins(A, N, S, g)
<1> DEFINE Ok(n) == \E g \in [0 .. n -> Seq(S)] : g[0] = << >> /\ \A i \in 1 .. n : g[i] = g[i - 1] \o A[i]
           Bad == {n \in 0 .. N : ~ Ok(n)}
<1>1. Ok(0)
  <2> DEFINE g == [i \in 0 .. 0 |-> << >>]
  <2>1. g \in [0 .. 0 -> Seq(S)] /\ g[0] = << >> /\ \A i \in 1 .. 0 : g[i] = g[i - 1] \o A[i]
    OBVIOUS
  <2> QED BY <2>1
<1>2. ASSUME NEW n \in 0 .. N - 1, Ok(n) PROVE Ok(n + 1)
  <2>1. PICK g \in [0 .. n -> Seq(S)] : g[0] = << >> /\ \A i \in 1 .. n : g[i] = g[i - 1] \o A[i]
    BY <1>2
  <2> DEFINE h == [i \in 0 .. n + 1 |-> IF i <= n THEN g[i] ELSE g[n] \o A[n + 1]]
  <2>2. n \in Nat /\ n \in 0 .. n /\ n + 1 \in 1 .. N
    OBVIOUS
  <2>3. g[n] \in Seq(S) /\ A[n + 1] \in Seq(S)
    BY <2>1, <2>2
  <2>4. g[n] \o A[n + 1] \in Seq(S)
    BY <2>3
  <2>5. h \in [0 .. n + 1 -> Seq(S)]
    <3> SUFFICES ASSUME NEW i \in 0 .. n + 1 PROVE (IF i <= n THEN g[i] ELSE g[n] \o A[n + 1]) \in Seq(S)
      OBVIOUS
    <3>1. CASE i <= n
      <4>1. i \in 0 .. n
        BY <2>2, <3>1
      <4> QED BY <2>1, <3>1, <4>1
    <3> QED BY <2>4, <3>1
  <2>6. h[0] = << >>
    BY <2>1, <2>2
  <2>7. ASSUME NEW i \in 1 .. n + 1 PROVE h[i] = h[i - 1] \o A[i]
    <3>0. i \in 0 .. n + 1 /\ i - 1 \in 0 .. n + 1 /\ i - 1 \in 0 .. n
      BY <2>2
    <3>1. h[i - 1] = g[i - 1]
      BY <2>2, <3>0
    <3>2. CASE i <= n
      <4>1. i \in 1 .. n
        BY <3>2
      <4>2. h[i] = g[i]
        BY <3>0, <3>2
      <4> HIDE DEF h
      <4> QED BY <2>1, <3>1, <4>1, <4>2
    <3>3. CASE i = n + 1
      <4>1. h[i] = g[n] \o A[n + 1] /\ i - 1 = n
        BY <2>2, <3>0, <3>3
      <4> HIDE DEF h
      <4> QED BY <3>1, <3>3, <4>1
    <3>4. i <= n \/ i = n + 1
      BY <2>2
    <3> QED BY <3>2, <3>3, <3>4
  <2> HIDE DEF h
  <2> QED BY <2>5, <2>6, <2>7
<1> HIDE DEF Ok
<1>3. Bad = {}
  <2> SUFFICES ASSUME Bad # {} PROVE FALSE
    OBVIOUS
  <2>1. Bad \in SUBSET Nat
    OBVIOUS
  <2>2. PICK n \in Bad : \A y \in Bad : n <= y
    <3> HIDE DEF Bad
    <3> QED BY <2>1, LeastNat
  <2>3. n # 0 /\ n \in 0 .. N
    BY <1>1
  <2>4. n - 1 \in 0 .. N - 1 /\ n - 1 \notin Bad
    BY <2>2, <2>3
  <2>5. Ok(n - 1)
    BY <2>4
  <2>6. Ok((n - 1) + 1)
    BY <1>2, <2>4, <2>5
  <2> QED BY <2>2, <2>3, <2>6
<1>4. Ok(N)
  BY <1>3
<1> QED BY <1>4 DEF Ok, Joins

\* Joined, they are the flattened sequence.
LEMMA FlatJoins ==
  ASSUME NEW A, NEW n, NEW S, NEW g, Joins(A, n, S, g)
  PROVE  FlattenSeq(A) = g[n] /\ g[n] \in Seq(S)
<1> USE DEF Joins
<1>0. n \in 0 .. n /\ A = [i \in 1 .. n |-> A[i]]
  OBVIOUS
<1>1. CASE n = 0
  <2>1. A = << >>
    BY <1>0, <1>1
  <2>2. FlattenSeq(A) = << >>
    BY <2>1 DEF FlattenSeq
  <2> QED BY <1>1, <2>2
<1>2. CASE n # 0
  <2>1. n \in Nat \ {0} /\ 1 \in 1 .. n /\ Len(A) = n
    BY <1>0, <1>2
  <2>2. g[1] = A[1]
    <3>1. g[1] = g[1 - 1] \o A[1] /\ A[1] \in Seq(S) /\ g[0] = << >>
      BY <2>1
    <3>2. 1 - 1 = 0
      OBVIOUS
    <3>3. PICK x : x = A[1]
      OBVIOUS
    <3>4. g[1] = << >> \o x /\ x \in Seq(S)
      BY ONLY <3>1, <3>2, <3>3
    <3>5. << >> \o x = x
      BY ONLY <3>4
    <3> QED BY <3>3, <3>4, <3>5
  <2>3. \A i \in 2 .. n : g[i] = g[i - 1] \o A[i]
    <3>1. \A i \in 2 .. n : i \in 1 .. n
      BY <2>1
    <3> QED BY <3>1
  <2>4. FlattenSeq(A) = g[n]
    BY ONLY <2>1, <2>2, <2>3, FlattenIs, ZenonT(60)
  <2> QED BY <1>0, <2>4
<1> QED BY <1>1, <1>2

\* m pieces.
Pieces(A, m, S) == m \in Nat /\ A \in [1 .. m -> Seq(S)]

\* What two sequences joined are, flattened.
LEMMA FlatAppend ==
  ASSUME NEW S, NEW A, NEW m, Pieces(A, m, S), NEW B, NEW n, Pieces(B, n, S)
  PROVE  FlattenSeq(A \o B) = FlattenSeq(A) \o FlattenSeq(B)
<1> USE DEF Pieces
<1>1. PICK a : Joins(A, m, S, a)
  BY JoinsExist
<1>2. PICK b : Joins(B, n, S, b)
  BY JoinsExist
<1> DEFINE C == A \o B
           g == [i \in 0 .. m + n |-> IF i <= m THEN a[i] ELSE a[m] \o b[i - m]]
<1>3. C = [i \in 1 .. m + n |-> IF i <= m THEN A[i] ELSE B[i - m]]
  <2>1. A = [i \in 1 .. m |-> A[i]] /\ B = [i \in 1 .. n |-> B[i]]
    OBVIOUS
  <2> QED BY ONLY <2>1, m \in Nat, n \in Nat, JoinedIs
<1>4. /\ a \in [0 .. m -> Seq(S)] /\ a[0] = << >> /\ (\A i \in 1 .. m : a[i] = a[i - 1] \o A[i])
      /\ b \in [0 .. n -> Seq(S)] /\ b[0] = << >> /\ (\A i \in 1 .. n : b[i] = b[i - 1] \o B[i])
  BY <1>1, <1>2 DEF Joins
<1>5. a[m] \in Seq(S) /\ (\A i \in 0 .. n : b[i] \in Seq(S)) /\ (\A i \in 1 .. n : B[i] \in Seq(S))
  BY <1>4
<1>6. a[m] \o b[0] = a[m]
  BY <1>4, <1>5
<1> HIDE DEF C
<1>7. Joins(C, m + n, S, g)
  <2>1. C \in [1 .. m + n -> Seq(S)]
    <3>1. ASSUME NEW i \in 1 .. m + n PROVE (IF i <= m THEN A[i] ELSE B[i - m]) \in Seq(S)
      <4>1. CASE i <= m
        BY <4>1
      <4>2. CASE ~ (i <= m)
        <5>1. i - m \in 1 .. n
          BY <4>2
        <5> QED BY <4>2, <5>1
      <4> QED BY <4>1, <4>2
    <3> QED BY <1>3, <3>1
  <2>2. g \in [0 .. m + n -> Seq(S)]
    <3>1. ASSUME NEW i \in 0 .. m + n PROVE (IF i <= m THEN a[i] ELSE a[m] \o b[i - m]) \in Seq(S)
      <4>1. CASE i <= m
        <5>1. i \in 0 .. m
          BY <4>1
        <5> QED BY <1>4, <4>1, <5>1
      <4>2. CASE ~ (i <= m)
        <5>1. i - m \in 0 .. n
          BY <4>2
        <5>2. b[i - m] \in Seq(S)
          BY <1>5, <5>1
        <5>3. a[m] \o b[i - m] \in Seq(S)
          BY <1>5, <5>2
        <5> QED BY <4>2, <5>3
      <4> QED BY <4>1, <4>2
    <3> QED BY <3>1
  <2>3. g[0] = << >>
    BY <1>4
  <2>4. ASSUME NEW i \in 1 .. m + n PROVE g[i] = g[i - 1] \o C[i]
    <3>0. i \in 0 .. m + n /\ i - 1 \in 0 .. m + n
      OBVIOUS
    <3>1. CASE i <= m
      <4>1. g[i] = a[i] /\ g[i - 1] = a[i - 1] /\ C[i] = A[i] /\ i \in 1 .. m
        BY <1>3, <3>0, <3>1
      <4> HIDE DEF g
      <4> QED BY <1>4, <4>1
    <3>2. CASE ~ (i <= m)
      <4>1. i - m \in 1 .. n /\ i - m - 1 \in 0 .. n /\ i - m \in 0 .. n
        BY <3>2
      <4>2. g[i] = a[m] \o b[i - m] /\ C[i] = B[i - m]
        BY <1>3, <3>0, <3>2
      <4>3. g[i - 1] = a[m] \o b[i - m - 1]
        <5>1. CASE i - 1 <= m
          <6>1. i - 1 = m /\ i - m - 1 = 0
            BY <3>2, <5>1
          <6>2. g[i - 1] = a[m]
            BY <3>0, <6>1
          <6> HIDE DEF g
          <6> QED BY <1>6, <6>1, <6>2
        <5>2. CASE ~ (i - 1 <= m)
          <6>1. g[i - 1] = a[m] \o b[i - 1 - m]
            BY <3>0, <5>2
          <6>2. i - 1 - m = i - m - 1
            OBVIOUS
          <6> HIDE DEF g
          <6> QED BY <6>1, <6>2
        <5> QED BY <5>1, <5>2
      <4>4. b[i - m] = b[i - m - 1] \o B[i - m]
        BY <1>4, <4>1
      <4> DEFINE x == a[m]
                 y == b[i - m - 1]
                 z == B[i - m]
      <4>5. x \in Seq(S) /\ y \in Seq(S) /\ z \in Seq(S)
        BY <1>5, <4>1
      <4>6. g[i] = x \o (y \o z) /\ g[i - 1] \o C[i] = (x \o y) \o z
        BY <4>2, <4>3, <4>4
      <4> HIDE DEF x, y, z, g
      <4>7. x \o (y \o z) = (x \o y) \o z
        BY ONLY <4>5
      <4> QED BY <4>6, <4>7
    <3> QED BY <3>1, <3>2
  <2> HIDE DEF g
  <2>5. m + n \in Nat
    OBVIOUS
  <2> QED BY <2>1, <2>2, <2>3, <2>4, <2>5 DEF Joins
<1>8. g[m + n] = a[m] \o b[n]
  <2>1. m + n \in 0 .. m + n
    OBVIOUS
  <2>2. CASE n = 0
    <3>1. m + n = m /\ m <= m /\ m \in 0 .. m + n
      BY <2>2
    <3>2. g[m] = a[m]
      BY <3>1
    <3> HIDE DEF g
    <3>3. g[m + n] = a[m]
      BY <3>1, <3>2
    <3> QED BY <1>6, <2>2, <3>3
  <2>3. CASE n # 0
    <3>1. ~ (m + n <= m) /\ m + n - m = n
      BY <2>3
    <3>2. PICK q : q = m + n
      OBVIOUS
    <3>3. g[q] = a[m] \o b[q - m]
      BY <2>1, <3>1, <3>2
    <3> HIDE DEF g
    <3>4. q - m = n
      BY <3>2
    <3>5. g[q] = a[m] \o b[n]
      BY ONLY <3>3, <3>4
    <3> QED BY ONLY <3>2, <3>5
  <2> QED BY <2>2, <2>3
<1> HIDE DEF g
<1>9. FlattenSeq(C) = g[m + n]
  BY <1>7, FlatJoins
<1>10. FlattenSeq(A) = a[m] /\ FlattenSeq(B) = b[n]
  BY <1>1, <1>2, FlatJoins
<1> QED BY <1>8, <1>9, <1>10 DEF C

\* Flattened twice, a sequence of sequences of pieces is its members flattened, joined.
LEMMA FlatFlat ==
  ASSUME NEW n \in Nat, NEW S, NEW ss \in [1 .. n -> Seq(Seq(S))]
  PROVE  FlattenSeq(FlattenSeq(ss)) = FlattenSeq([i \in 1 .. n |-> FlattenSeq(ss[i])])
<1>1. PICK G : Joins(ss, n, Seq(S), G)
  BY JoinsExist
<1> DEFINE B == [i \in 1 .. n |-> FlattenSeq(ss[i])]
           g == [i \in 0 .. n |-> FlattenSeq(G[i])]
<1>2. /\ G \in [0 .. n -> Seq(Seq(S))] /\ G[0] = << >>
      /\ \A i \in 1 .. n : G[i] = G[i - 1] \o ss[i]
  BY <1>1 DEF Joins
<1>3. ASSUME NEW x \in Seq(Seq(S)) PROVE x \in [1 .. Len(x) -> Seq(S)] /\ Len(x) \in Nat /\ FlattenSeq(x) \in Seq(S)
  <2>1. Len(x) \in Nat /\ x \in [1 .. Len(x) -> Seq(S)]
    OBVIOUS
  <2>2. PICK h : Joins(x, Len(x), S, h)
    BY ONLY <2>1, JoinsExist
  <2>3. FlattenSeq(x) \in Seq(S)
    BY <2>2, FlatJoins
  <2> QED BY <2>1, <2>3
<1>4. Joins(B, n, S, g)
  <2>1. B \in [1 .. n -> Seq(S)]
    BY <1>3
  <2>2. g \in [0 .. n -> Seq(S)]
    BY <1>2, <1>3
  <2>3. g[0] = << >>
    <3>1. FlattenSeq(<< >>) = << >>
      BY DEF FlattenSeq
    <3> QED BY <1>2, <3>1
  <2>4. ASSUME NEW i \in 1 .. n PROVE g[i] = g[i - 1] \o B[i]
    <3>1. i \in 0 .. n /\ i - 1 \in 0 .. n
      OBVIOUS
    <3>2. PICK x, y : x = G[i - 1] /\ y = ss[i]
      OBVIOUS
    <3>3. x \in Seq(Seq(S)) /\ y \in Seq(Seq(S))
      BY <1>2, <3>1, <3>2
    <3>4. FlattenSeq(x \o y) = FlattenSeq(x) \o FlattenSeq(y)
      <4>1. Len(x) \in Nat /\ Len(y) \in Nat /\ x \in [1 .. Len(x) -> Seq(S)] /\ y \in [1 .. Len(y) -> Seq(S)]
        BY <1>3, <3>3
      <4>2. Pieces(x, Len(x), S) /\ Pieces(y, Len(y), S)
        BY <4>1 DEF Pieces
      <4> QED BY ONLY <4>2, FlatAppend
    <3>5. g[i] = FlattenSeq(G[i]) /\ g[i - 1] = FlattenSeq(G[i - 1]) /\ B[i] = FlattenSeq(ss[i])
      BY <3>1
    <3>6. G[i] = G[i - 1] \o ss[i]
      BY <1>2
    <3> HIDE DEF g, B
    <3> QED BY <3>2, <3>4, <3>5, <3>6
  <2> HIDE DEF g, B
  <2> QED BY <2>1, <2>2, <2>3, <2>4 DEF Joins
<1>5. FlattenSeq(ss) = G[n]
  BY <1>1, FlatJoins
<1>6. g[n] = FlattenSeq(G[n])
  <2>1. n \in 0 .. n
    OBVIOUS
  <2> QED BY <2>1
<1> HIDE DEF g, B
<1>7. FlattenSeq(B) = g[n]
  BY <1>4, FlatJoins
<1> QED BY <1>5, <1>6, <1>7 DEF B

-----------------------------------------------------------------------------
\* The gradient of a query, from the keys it attended to, in the tiles of the backward pass.
DqTiles(s, j) ==
  KeptTiles(Cdiv(PK[s], job.launches[2].bn), job.launches[2].bn, 0, Position(s, j) + 1,
            [x \in 0 .. Position(s, j) |-> <<s, x>>])
DqTerm(s, j, h) ==
  << <<s, Position(s, j)>>, AttnTerm(s, j, h), h \div (job.launches[1].hq \div job.launches[1].hk),
     NonEmpty(DqTiles(s, j)) >>

\* What the forward pass left for the backward pass.
Attended(m) ==
  \A s, j, h : IsQuery(s, j, h) =>
    \A o \in {"out", "lse"} : Load(m, <<o, QRow(s, j), h>>) = AttnTerm(s, j, h)

\* What a program of the query gradient stores for row x of its sequence.
DqValue(l, p, m, x) ==
  << Load(m, <<"q", Before(l.q_lens, p[1]) + x>>),
     Load(m, <<"lse", Before(l.q_lens, p[1]) + x, p[3]>>),
     kv_head_of(l, p[3]),
     NonEmpty([i \in 1 .. Cdiv(l.kv_lens[p[1] + 1], l.bn) |->
       LET ns == Ascending({n \in Lanes(i - 1, l.bn) : n < l.kv_lens[p[1] + 1] /\ QAbs(l, p[1], x) >= n})
       IN  [k \in DOMAIN ns |-> Load(m, <<"k", Before(l.kv_lens, p[1]) + ns[k]>>)]]) >>

LEMMA DqStores ==
  ASSUME NEW l, NEW p, NEW m, NEW t
  PROVE  t \in _varlen_attn_bwd_dq_kernel(l, p, m) <=>
           /\ ~ (p[2] * l.bm >= l.q_lens[p[1] + 1])
           /\ \E x \in {y \in Lanes(p[2], l.bm) : y < l.q_lens[p[1] + 1]} :
                t = << <<"dq", Before(l.q_lens, p[1]) + x, p[3]>>, DqValue(l, p, m, x) >>
BY DEF _varlen_attn_bwd_dq_kernel, DqValue

\* The term of a row of the query gradient.
LEMMA DqFold ==
  ASSUME PackedShape, PackedLaunches, NEW m, PackedInputs(PQ, PK, m), Attended(m),
         NEW s, NEW j, NEW h, IsQuery(s, j, h), NEW p, p[1] = s - 1, p[3] = h
  PROVE  DqValue(job.launches[2], p, m, j) = DqTerm(s, j, h)
<1> DEFINE l == job.launches[2]
           w == l.bn
           pos == Position(s, j)
           c == Cdiv(PK[s], w)
           F == [x \in 0 .. pos |-> <<s, x>>]
           A(i) == Ascending({n \in Lanes(i - 1, w) : n < PK[s] /\ QAbs(l, p[1], j) >= n})
           B(i) == Ascending({n \in Lanes(i - 1, w) : 0 <= n /\ n < pos + 1})
<1>1. /\ l.kv_lens = PK /\ l.q_lens = PQ /\ l.bn \in Nat \ {0}
      /\ l.hq = job.launches[1].hq /\ l.hk = job.launches[1].hk
  BY DEF PackedLaunches, PackedRecord
<1>2. s \in 1 .. Len(PQ) /\ j \in 0 .. PQ[s] - 1 /\ Len(PQ) \in Nat /\ s \in DOMAIN PQ
  BY DEF IsQuery, PackedShape
<1>3. /\ PQ[s] \in Nat /\ PK[s] \in Nat /\ PQ[s] <= PK[s]
      /\ pos \in 0 .. PK[s] - 1 /\ pos - (PK[s] - PQ[s]) = j
  BY <1>2, PositionIs
<1>4. p[1] + 1 = s /\ s - 1 = p[1]
  BY <1>2
<1>5. QAbs(l, p[1], j) = pos
  BY <1>1, <1>3, <1>4 DEF QAbs, Position
<1>6. w \in Nat \ {0} /\ pos \in Nat /\ pos + 1 \in Nat /\ 0 \in Nat /\ c \in Nat
  <2>1. w \in Nat \ {0} /\ PK[s] \in Nat
    BY <1>1, <1>3
  <2>2. c \in Nat
    BY ONLY <2>1, CdivFacts
  <2> QED BY <1>3, <2>1, <2>2
<1> HIDE DEF l, w, pos, c
<1>7. ASSUME NEW i \in 1 .. c PROVE A(i) = B(i)
  <2>1. i - 1 \in Nat
    BY <1>6
  <2>2. \A n \in Lanes(i - 1, w) : n \in Nat
    BY <1>6, <2>1, LaneIs
  <2>3. {n \in Lanes(i - 1, w) : n < PK[s] /\ QAbs(l, p[1], j) >= n}
          = {n \in Lanes(i - 1, w) : 0 <= n /\ n < pos + 1}
    BY <1>3, <1>5, <1>6, <2>2
  <2> QED BY <2>3
<1>8. ASSUME NEW i \in 1 .. c
      PROVE  [k \in DOMAIN A(i) |-> Load(m, <<"k", Before(PK, p[1]) + A(i)[k]>>)]
               = [k \in DOMAIN B(i) |-> F[B(i)[k]]]
  <2> DEFINE a == From(i, w, 0)
             z == Kept(i, w, 0, pos + 1)
  <2>1. i \in Nat \ {0}
    BY <1>6
  <2>2. B(i) = [k \in 1 .. z |-> a + k - 1] /\ \A k \in 1 .. z : a + k - 1 \in 0 .. pos + 1 - 1
    <3>1. Ascending(KeptSet(i, w, 0, pos + 1)) = Ramp(a, z) /\ \A k \in 1 .. z : a + k - 1 \in 0 .. pos + 1 - 1
      BY ONLY <1>6, <2>1, KeptLanes
    <3> HIDE DEF a, z
    <3> QED BY <3>1 DEF KeptSet, Ramp
  <2> HIDE DEF a, z
  <2>3. ASSUME NEW k \in 1 .. z PROVE B(i)[k] \in 0 .. pos
    <3>1. B(i)[k] = a + k - 1
      BY <2>2
    <3>2. pos + 1 - 1 = pos
      BY <1>6
    <3> QED BY <2>2, <3>1, <3>2
  <2>4. PICK b : b = B(i)
    OBVIOUS
  <2>5. DOMAIN b = 1 .. z
    BY <2>2, <2>4
  <2>6. ASSUME NEW k \in 1 .. z PROVE Load(m, <<"k", Before(PK, p[1]) + b[k]>>) = F[b[k]]
    <3>1. PICK n : n = b[k]
      OBVIOUS
    <3>2. n \in 0 .. pos /\ n \in 0 .. PK[s] - 1
      <4>1. n \in 0 .. pos
        BY <2>3, <2>4, <3>1
      <4> QED BY <1>3, <1>6, <4>1
    <3>3. \A y \in {"k", "v"} : Load(m, <<y, Before(PK, s - 1) + n>>) = <<s, n>>
      BY <1>2, <3>2 DEF PackedInputs
    <3>4. F[n] = <<s, n>>
      BY <3>2
    <3> QED BY <1>4, <3>1, <3>3, <3>4
  <2> HIDE DEF B, F
  <2>7. A(i) = b
    BY <1>7, <2>4
  <2> HIDE DEF A
  <2> QED BY <2>4, <2>5, <2>6, <2>7
<1> DEFINE X == [i \in 1 .. c |-> LET ns == A(i) IN [k \in DOMAIN ns |-> Load(m, <<"k", Before(PK, p[1]) + ns[k]>>)]]
<1>9. X = DqTiles(s, j)
  <2>1. DqTiles(s, j) = [i \in 1 .. c |-> [k \in DOMAIN B(i) |-> F[B(i)[k]]]]
    BY DEF DqTiles, KeptTiles, c, w, l, pos
  <2>2. X = [i \in 1 .. c |-> [k \in DOMAIN A(i) |-> Load(m, <<"k", Before(PK, p[1]) + A(i)[k]>>)]]
    OBVIOUS
  <2> HIDE DEF A, B, F, X
  <2> QED BY <1>8, <2>1, <2>2
<1>10. Load(m, <<"q", Before(PQ, p[1]) + j>>) = <<s, pos>>
  BY <1>2, <1>4 DEF PackedInputs, Position, pos
<1>11. Load(m, <<"lse", Before(PQ, p[1]) + j, p[3]>>) = AttnTerm(s, j, h)
  BY <1>4 DEF Attended, QRow
<1>12. kv_head_of(l, p[3]) = h \div (job.launches[1].hq \div job.launches[1].hk)
  BY <1>1 DEF kv_head_of
<1>13. DqTerm(s, j, h) = << <<s, pos>>, AttnTerm(s, j, h), h \div (job.launches[1].hq \div job.launches[1].hk),
                           NonEmpty(DqTiles(s, j)) >>
  BY DEF DqTerm, pos
<1>14. DqValue(l, p, m, j) = << Load(m, <<"q", Before(PQ, p[1]) + j>>),
                              Load(m, <<"lse", Before(PQ, p[1]) + j, p[3]>>), kv_head_of(l, p[3]), NonEmpty(X) >>
  BY <1>1, <1>4 DEF DqValue, c, w
<1> HIDE DEF X
<1> QED BY <1>9, <1>10, <1>11, <1>12, <1>13, <1>14 DEF l

\* Every store of the query gradient is that of a query.
LEMMA DqSound ==
  ASSUME PackedShape, PackedLaunches, NEW m, PackedInputs(PQ, PK, m), Attended(m),
         NEW t \in AllStores(job.launches[2], m)
  PROVE  \E s, j, h : IsQuery(s, j, h) /\ t = << <<"dq", QRow(s, j), h>>, DqTerm(s, j, h) >>
<1> DEFINE l == job.launches[2]
<1>1. /\ l.kernel = "dq" /\ l.kv_lens = PK /\ l.q_lens = PQ /\ l.bm \in Nat \ {0}
      /\ l.grid = (0 .. Len(PQ) - 1) \X (0 .. Cdiv(Longest(PQ), l.bm) - 1) \X (0 .. job.launches[1].hq - 1)
  BY DEF PackedLaunches, PackedRecord
<1>2. PICK p \in l.grid : t \in Stored(l, p, 0, m)
  BY InAllStores
<1> HIDE DEF l
<1>3. p[1] \in 0 .. Len(PQ) - 1 /\ p[2] \in 0 .. Cdiv(Longest(PQ), l.bm) - 1 /\ p[3] \in 0 .. job.launches[1].hq - 1
  BY <1>1
<1>4. t \in _varlen_attn_bwd_dq_kernel(l, p, m)
  BY <1>1, <1>2, PackedStored
<1> DEFINE s == p[1] + 1
           h == p[3]
<1>5. s \in 1 .. Len(PQ) /\ p[1] = s - 1 /\ Len(PQ) \in Nat
  <2>1. Len(PQ) \in Nat
    BY DEF PackedShape
  <2> QED BY ONLY <1>3, <2>1
<1>6. PQ[s] \in Nat
  BY <1>5 DEF PackedShape
<1>7. PICK j \in {y \in Lanes(p[2], l.bm) : y < PQ[s]} : t = << <<"dq", Before(PQ, p[1]) + j, h>>, DqValue(l, p, m, j) >>
  BY <1>1, <1>4, DqStores
<1> HIDE DEF s, h
<1>8. j \in 0 .. PQ[s] - 1
  <2>1. p[2] \in Nat
    BY <1>3
  <2>2. j \in Nat /\ j < PQ[s]
    BY <1>1, <1>7, <2>1, LaneIs
  <2> QED BY <1>6, <2>2
<1>9. IsQuery(s, j, h)
  BY <1>3, <1>5, <1>8 DEF IsQuery, h
<1>10. DqValue(l, p, m, j) = DqTerm(s, j, h)
  <2>1. p[3] = h
    BY DEF h
  <2> QED BY <1>5, <1>9, <2>1, DqFold DEF l
<1>11. QRow(s, j) = Before(PQ, p[1]) + j
  BY <1>5 DEF QRow
<1> QED BY <1>7, <1>9, <1>10, <1>11

\* Every query gets its gradient.
LEMMA DqComplete ==
  ASSUME PackedShape, PackedLaunches, NEW m, PackedInputs(PQ, PK, m), Attended(m),
         NEW s, NEW j, NEW h, IsQuery(s, j, h)
  PROVE  << <<"dq", QRow(s, j), h>>, DqTerm(s, j, h) >> \in AllStores(job.launches[2], m)
<1> DEFINE l == job.launches[2]
           b == j \div l.bm
           p == <<s - 1, b, h>>
<1>1. /\ l.kernel = "dq" /\ l.kv_lens = PK /\ l.q_lens = PQ /\ l.bm \in Nat \ {0}
      /\ l.grid = (0 .. Len(PQ) - 1) \X (0 .. Cdiv(Longest(PQ), l.bm) - 1) \X (0 .. job.launches[1].hq - 1)
  BY DEF PackedLaunches, PackedRecord
<1>2. s \in 1 .. Len(PQ) /\ j \in 0 .. PQ[s] - 1 /\ h \in 0 .. job.launches[1].hq - 1 /\ Len(PQ) \in Nat /\ PQ[s] \in Nat
  BY DEF IsQuery, PackedShape
<1>3. Longest(PQ) \in Nat /\ PQ[s] <= Longest(PQ)
  <2>1. PQ \in Seq(Nat) /\ s \in 1 .. Len(PQ)
    BY <1>2 DEF PackedShape
  <2> QED BY ONLY <2>1, LongestIs
<1> HIDE DEF l
<1>4. b \in 0 .. Cdiv(Longest(PQ), l.bm) - 1 /\ b \in Nat /\ b * l.bm \in Nat /\ b * l.bm <= j /\ j < b * l.bm + l.bm
  <2> DEFINE w == l.bm
             r == j % l.bm
  <2>1. j \in 0 .. Longest(PQ) - 1 /\ w \in Nat \ {0} /\ Longest(PQ) \in Nat
    BY <1>1, <1>2, <1>3
  <2>2. b \in 0 .. Cdiv(Longest(PQ), w) - 1 /\ r \in 0 .. w - 1 /\ b * w + r = j
    BY ONLY <2>1, TileOf
  <2> HIDE DEF w, r, b
  <2>3. b \in Nat /\ j \in Nat
    BY <2>1, <2>2
  <2>4. b * w \in Nat /\ b * w <= j /\ j < b * w + w
    BY ONLY <2>1, <2>2, <2>3
  <2> QED BY <2>2, <2>3, <2>4 DEF w
<1> HIDE DEF b
<1>5. j \in {y \in Lanes(b, l.bm) : y < PQ[s]} /\ ~ (b * l.bm >= PQ[s])
  <2>1. j \in Nat /\ j < PQ[s]
    BY <1>2
  <2>2. j \in Lanes(b, l.bm)
    BY <1>1, <1>4, <2>1, LaneIs
  <2> QED BY <1>2, <1>4, <2>1, <2>2
<1>6. p \in l.grid /\ p[1] = s - 1 /\ p[2] = b /\ p[3] = h /\ p[1] + 1 = s
  <2>1. s - 1 \in 0 .. Len(PQ) - 1 /\ (s - 1) + 1 = s
    BY ONLY <1>2
  <2>2. p \in l.grid
    BY <1>1, <1>2, <1>4, <2>1
  <2> QED BY <2>1, <2>2
<1> HIDE DEF p
<1> DEFINE t == << <<"dq", QRow(s, j), h>>, DqTerm(s, j, h) >>
<1>7. DqValue(l, p, m, j) = DqTerm(s, j, h)
  <2> QED BY <1>6, DqFold DEF l
<1>8. t = << <<"dq", Before(PQ, p[1]) + j, p[3]>>, DqValue(l, p, m, j) >>
  <2> QED BY <1>6, <1>7 DEF QRow
<1> HIDE DEF t
<1>9. t \in _varlen_attn_bwd_dq_kernel(l, p, m)
  <2>1. ~ (p[2] * l.bm >= l.q_lens[p[1] + 1]) /\ j \in {y \in Lanes(p[2], l.bm) : y < l.q_lens[p[1] + 1]}
    BY <1>1, <1>5, <1>6
  <2> QED BY <1>1, <1>8, <2>1, DqStores
<1>10. t \in Stored(l, p, 0, m)
  BY <1>1, <1>9, PackedStored
<1> QED BY <1>6, <1>10, InAllStores DEF t, l

-----------------------------------------------------------------------------
\* The gradient of a key: head by head of its group, the queries that attended to it.
Group == job.launches[1].hq \div job.launches[1].hk
Skipped(s, n) == IF n > PK[s] - PQ[s] THEN n - (PK[s] - PQ[s]) ELSE 0
QueryTerms(s, h) == [x \in 0 .. PQ[s] - 1 |-> << <<s, Position(s, x)>>, h, <<s, Position(s, x)>> >>]
DkvTiles(s, n, h) ==
  KeptTiles(Cdiv(PQ[s], job.launches[3].bm), job.launches[3].bm, Skipped(s, n), PQ[s], QueryTerms(s, h))
DkvTerm(s, n, h) == << <<s, n>>, FlattenSeq([g \in 1 .. Group |-> NonEmpty(DkvTiles(s, n, h * Group + g - 1))]) >>

\* What a program of the key gradient stores for key n of its sequence.
DkvRows(l, p, m, n, h) ==
  [t \in 1 .. Cdiv(l.q_lens[p[1] + 1], l.bm) |->
     LET ms == Ascending({x \in Lanes(t - 1, l.bm) : x < l.q_lens[p[1] + 1] /\ QAbs(l, p[1], x) >= n})
     IN  [i \in DOMAIN ms |-> << Load(m, <<"q", Before(l.q_lens, p[1]) + ms[i]>>), h,
                                 Load(m, <<"lse", Before(l.q_lens, p[1]) + ms[i], h>>)[1] >>]]
DkvValue(l, p, m, n) ==
  << Load(m, <<"k", Before(l.kv_lens, p[1]) + n>>),
     FlattenSeq([g \in 1 .. l.hq \div l.hk |-> NonEmpty(DkvRows(l, p, m, n, p[3] * (l.hq \div l.hk) + g - 1))]) >>

LEMMA DkvStores ==
  ASSUME NEW l, NEW p, NEW m, NEW t
  PROVE  t \in _varlen_attn_bwd_dkv_kernel(l, p, m) <=>
           /\ ~ (p[2] * l.bn >= l.kv_lens[p[1] + 1])
           /\ \E d \in {"dk", "dv"} : \E n \in {y \in Lanes(p[2], l.bn) : y < l.kv_lens[p[1] + 1]} :
                t = << <<d, Before(l.kv_lens, p[1]) + n, p[3]>>, DkvValue(l, p, m, n) >>
<1> DEFINE ns == {y \in Lanes(p[2], l.bn) : y < l.kv_lens[p[1] + 1]}
<1>1. _varlen_attn_bwd_dkv_kernel(l, p, m)
        = IF p[2] * l.bn >= l.kv_lens[p[1] + 1] THEN {}
          ELSE {<< <<d, Before(l.kv_lens, p[1]) + n, p[3]>>, DkvValue(l, p, m, n) >> : d \in {"dk", "dv"}, n \in ns}
  BY SMTT(60) DEF _varlen_attn_bwd_dkv_kernel, DkvValue, DkvRows
<1> HIDE DEF ns
<1>2. t \in _varlen_attn_bwd_dkv_kernel(l, p, m) <=>
           /\ ~ (p[2] * l.bn >= l.kv_lens[p[1] + 1])
           /\ \E d \in {"dk", "dv"} : \E n \in ns :
                t = << <<d, Before(l.kv_lens, p[1]) + n, p[3]>>, DkvValue(l, p, m, n) >>
  BY <1>1
<1> QED BY <1>2 DEF ns

\* The query heads of a KV head.
LEMMA HeadOf ==
  ASSUME PackedShape, NEW h \in 0 .. job.launches[1].hk - 1
  PROVE  /\ Group \in Nat
         /\ \A g \in 1 .. Group : h * Group + g - 1 \in 0 .. job.launches[1].hq - 1
<1> DEFINE q == job.launches[1].hq
           k == job.launches[1].hk
<1>1. q \in Nat /\ k \in Nat \ {0} /\ q % k = 0
  BY DEF PackedShape
<1>2. Group \in Nat /\ q = Group * k + (q % k)
  <2> HIDE DEF q, k
  <2>1. q \div k \in Nat /\ q = (q \div k) * k + (q % k)
    BY ONLY <1>1, DivMod
  <2>2. Group = q \div k
    BY DEF Group, q, k
  <2> QED BY ONLY <2>1, <2>2
<1> HIDE DEF q, k, Group
<1>3. h \in Nat /\ h <= k - 1
  BY <1>1 DEF k
<1>4. ASSUME NEW g \in 1 .. Group PROVE h * Group + g - 1 \in 0 .. q - 1
  <2>1. h * Group \in Nat /\ h * Group + Group <= q
    <3>1. h + 1 \in Nat /\ h + 1 <= k /\ (h + 1) * Group = h * Group + Group
      BY <1>1, <1>2, <1>3
    <3>2. (h + 1) * Group <= k * Group
      BY <1>1, <1>2, <3>1, MulMono
    <3>3. k * Group = q /\ h * Group \in Nat
      BY <1>1, <1>2, <1>3
    <3> QED BY <1>1, <1>2, <3>1, <3>2, <3>3
  <2> QED BY <1>1, <1>2, <2>1
<1> QED BY <1>2, <1>4 DEF q

\* The tiles of one head.
LEMMA DkvRowsAre ==
  ASSUME PackedShape, PackedLaunches, NEW m, PackedInputs(PQ, PK, m), Attended(m),
         NEW s \in 1 .. Len(PQ), NEW n \in 0 .. PK[s] - 1, NEW h \in 0 .. job.launches[1].hq - 1,
         NEW p, p[1] = s - 1
  PROVE  DkvRows(job.launches[3], p, m, n, h) = DkvTiles(s, n, h)
<1> DEFINE l == job.launches[3]
           w == l.bm
           c == Cdiv(PQ[s], w)
           lo == Skipped(s, n)
           hi == PQ[s]
           F == QueryTerms(s, h)
           first == PK[s] - PQ[s]
           A(i) == Ascending({x \in Lanes(i - 1, w) : x < PQ[s] /\ QAbs(l, p[1], x) >= n})
           B(i) == Ascending(KeptSet(i, w, lo, hi))
           T(x) == << Load(m, <<"q", Before(PQ, p[1]) + x>>), h, Load(m, <<"lse", Before(PQ, p[1]) + x, h>>)[1] >>
<1>1. l.kv_lens = PK /\ l.q_lens = PQ /\ l.bm \in Nat \ {0}
  BY DEF PackedLaunches, PackedRecord
<1>2. Len(PQ) \in Nat /\ s \in DOMAIN PQ /\ PQ[s] \in Nat /\ PK[s] \in Nat /\ PQ[s] <= PK[s]
  BY DEF PackedShape
<1>3. p[1] + 1 = s
  BY <1>2
<1>4. n \in Nat /\ n < PK[s] /\ first \in Nat
  BY <1>2
<1>5. /\ lo \in Nat /\ lo <= hi /\ hi \in Nat /\ w \in Nat \ {0}
      /\ \A x \in Nat : lo <= x <=> x + first >= n
  BY <1>1, <1>2, <1>4 DEF Skipped
<1>6. c \in Nat
  <2> HIDE DEF w, hi
  <2> QED BY ONLY <1>5, CdivFacts DEF hi
<1>7. \A x : QAbs(l, p[1], x) = x + first
  BY <1>1, <1>3 DEF QAbs
<1> HIDE DEF l, w, c, lo, hi, first
<1>8. ASSUME NEW i \in 1 .. c PROVE A(i) = B(i)
  <2>1. i - 1 \in Nat
    BY <1>6
  <2>2. \A x \in Lanes(i - 1, w) : x \in Nat
    BY <1>5, <2>1, LaneIs
  <2>3. {x \in Lanes(i - 1, w) : x < PQ[s] /\ QAbs(l, p[1], x) >= n} = KeptSet(i, w, lo, hi)
    <3>1. \A x \in Lanes(i - 1, w) : (x < PQ[s] /\ QAbs(l, p[1], x) >= n) <=> (lo <= x /\ x < hi)
      BY <1>5, <1>7, <2>2 DEF hi
    <3> QED BY <3>1 DEF KeptSet
  <2> QED BY <2>3
<1>9. ASSUME NEW x \in lo .. hi - 1 PROVE T(x) = F[x]
  <2>1. x \in 0 .. PQ[s] - 1
    BY <1>5 DEF hi
  <2>2. IsQuery(s, x, h)
    BY <2>1 DEF IsQuery
  <2>3. Load(m, <<"lse", QRow(s, x), h>>) = AttnTerm(s, x, h)
    BY <2>2 DEF Attended
  <2>4. Load(m, <<"lse", Before(PQ, p[1]) + x, h>>)[1] = <<s, Position(s, x)>>
    BY <2>3 DEF QRow, AttnTerm
  <2>5. Load(m, <<"q", Before(PQ, p[1]) + x>>) = <<s, Position(s, x)>>
    BY <1>2, <2>1 DEF PackedInputs, Position
  <2>6. F[x] = << <<s, Position(s, x)>>, h, <<s, Position(s, x)>> >>
    BY <2>1 DEF QueryTerms
  <2> HIDE DEF F
  <2> QED BY <2>4, <2>5, <2>6
<1> HIDE DEF T, F
<1>10. ASSUME NEW i \in 1 .. c PROVE [k \in DOMAIN A(i) |-> T(A(i)[k])] = [k \in DOMAIN B(i) |-> F[B(i)[k]]]
  <2> DEFINE a == From(i, w, lo)
             z == Kept(i, w, lo, hi)
  <2>1. i \in Nat \ {0}
    BY <1>6
  <2>2. B(i) = Ramp(a, z) /\ \A k \in 1 .. z : a + k - 1 \in lo .. hi - 1
    <3>1. lo \in Nat /\ hi \in Nat /\ w \in Nat \ {0}
      BY <1>5
    <3>2. Ascending(KeptSet(i, w, lo, hi)) = Ramp(From(i, w, lo), Kept(i, w, lo, hi))
      BY ONLY <2>1, <3>1, KeptLanes
    <3>3. \A k \in 1 .. Kept(i, w, lo, hi) : From(i, w, lo) + k - 1 \in lo .. hi - 1
      BY ONLY <2>1, <3>1, KeptLanes
    <3> QED BY <3>2, <3>3
  <2> HIDE DEF a, z
  <2>3. PICK b : b = B(i)
    OBVIOUS
  <2>4. DOMAIN b = 1 .. z /\ \A k \in 1 .. z : b[k] \in lo .. hi - 1
    BY <2>2, <2>3 DEF Ramp
  <2>5. \A k \in 1 .. z : T(b[k]) = F[b[k]]
    BY <1>9, <2>4
  <2>6. A(i) = b
    BY <1>8, <2>3
  <2> HIDE DEF A, B
  <2> QED BY <2>3, <2>4, <2>5, <2>6
<1>11. DkvTiles(s, n, h) = [i \in 1 .. c |-> [k \in DOMAIN B(i) |-> F[B(i)[k]]]]
  BY DEF DkvTiles, KeptTiles, KeptSet, c, w, l, lo, hi, F
<1>12. DkvRows(l, p, m, n, h) = [i \in 1 .. c |-> [k \in DOMAIN A(i) |-> T(A(i)[k])]]
  BY <1>1, <1>3 DEF DkvRows, c, w, T
<1> HIDE DEF A, B
<1> QED BY <1>10, <1>11, <1>12 DEF l

\* The term of a key of the key gradient.
LEMMA DkvFold ==
  ASSUME PackedShape, PackedLaunches, NEW m, PackedInputs(PQ, PK, m), Attended(m),
         NEW s, NEW n, NEW h, IsKey(s, n, h), NEW p, p[1] = s - 1, p[3] = h
  PROVE  DkvValue(job.launches[3], p, m, n) = DkvTerm(s, n, h)
<1> DEFINE l == job.launches[3]
<1>1. l.kv_lens = PK /\ l.q_lens = PQ /\ l.hq = job.launches[1].hq /\ l.hk = job.launches[1].hk
  BY DEF PackedLaunches, PackedRecord
<1>2. /\ s \in 1 .. Len(PQ) /\ n \in 0 .. PK[s] - 1 /\ h \in 0 .. job.launches[1].hk - 1 /\ s \in DOMAIN PQ
  BY DEF IsKey, PackedShape
<1>3. l.hq \div l.hk = Group
  BY <1>1 DEF Group
<1>4. \A g \in 1 .. Group : h * Group + g - 1 \in 0 .. job.launches[1].hq - 1
  BY <1>2, HeadOf
<1>5. \A g \in 1 .. Group : DkvRows(l, p, m, n, h * Group + g - 1) = DkvTiles(s, n, h * Group + g - 1)
  BY <1>2, <1>4, DkvRowsAre
<1> HIDE DEF l
<1>6. DkvValue(l, p, m, n) = << Load(m, <<"k", Before(PK, s - 1) + n>>),
         FlattenSeq([g \in 1 .. Group |-> NonEmpty(DkvRows(l, p, m, n, h * Group + g - 1))]) >>
  BY <1>1, <1>3 DEF DkvValue
<1>7. [g \in 1 .. Group |-> NonEmpty(DkvRows(l, p, m, n, h * Group + g - 1))]
        = [g \in 1 .. Group |-> NonEmpty(DkvTiles(s, n, h * Group + g - 1))]
  BY <1>5
<1>8. \A y \in {"k", "v"} : Load(m, <<y, Before(PK, s - 1) + n>>) = <<s, n>>
  BY <1>2 DEF PackedInputs
<1> QED BY <1>6, <1>7, <1>8 DEF DkvTerm, l

\* Every store of the key gradient is that of a key.
LEMMA DkvSound ==
  ASSUME PackedShape, PackedLaunches, NEW m, PackedInputs(PQ, PK, m), Attended(m),
         NEW t \in AllStores(job.launches[3], m)
  PROVE  \E s, n, h : \E d \in {"dk", "dv"} :
           IsKey(s, n, h) /\ t = << <<d, KRow(s, n), h>>, DkvTerm(s, n, h) >>
<1> DEFINE l == job.launches[3]
<1>1. /\ l.kernel = "dkv" /\ l.kv_lens = PK /\ l.q_lens = PQ /\ l.bn \in Nat \ {0}
      /\ l.grid = (0 .. Len(PQ) - 1) \X (0 .. Cdiv(Longest(PK), l.bn) - 1) \X (0 .. job.launches[1].hk - 1)
  BY DEF PackedLaunches, PackedRecord
<1>2. PICK p \in l.grid : t \in Stored(l, p, 0, m)
  BY InAllStores
<1> HIDE DEF l
<1>3. p[1] \in 0 .. Len(PQ) - 1 /\ p[2] \in 0 .. Cdiv(Longest(PK), l.bn) - 1 /\ p[3] \in 0 .. job.launches[1].hk - 1
  BY <1>1
<1>4. t \in _varlen_attn_bwd_dkv_kernel(l, p, m)
  BY <1>1, <1>2, PackedStored
<1> DEFINE s == p[1] + 1
           h == p[3]
<1>5. s \in 1 .. Len(PQ) /\ p[1] = s - 1 /\ Len(PQ) \in Nat
  <2>1. Len(PQ) \in Nat
    BY DEF PackedShape
  <2> QED BY ONLY <1>3, <2>1
<1>6. PK[s] \in Nat
  BY <1>5 DEF PackedShape
<1>7. PICK d \in {"dk", "dv"}, n \in {y \in Lanes(p[2], l.bn) : y < PK[s]} :
        t = << <<d, Before(PK, p[1]) + n, h>>, DkvValue(l, p, m, n) >>
  BY <1>1, <1>4, DkvStores
<1> HIDE DEF s, h
<1>8. n \in 0 .. PK[s] - 1
  <2>1. p[2] \in Nat
    BY <1>3
  <2>2. n \in Nat /\ n < PK[s]
    BY <1>1, <1>7, <2>1, LaneIs
  <2> QED BY <1>6, <2>2
<1>9. IsKey(s, n, h)
  BY <1>3, <1>5, <1>8 DEF IsKey, h
<1>10. DkvValue(l, p, m, n) = DkvTerm(s, n, h)
  <2>1. p[3] = h
    BY DEF h
  <2> QED BY <1>5, <1>9, <2>1, DkvFold DEF l
<1>11. KRow(s, n) = Before(PK, p[1]) + n
  BY <1>5 DEF KRow
<1> QED BY <1>7, <1>9, <1>10, <1>11

\* Every key gets its gradient.
LEMMA DkvComplete ==
  ASSUME PackedShape, PackedLaunches, NEW m, PackedInputs(PQ, PK, m), Attended(m),
         NEW s, NEW n, NEW h, IsKey(s, n, h), NEW d \in {"dk", "dv"}
  PROVE  << <<d, KRow(s, n), h>>, DkvTerm(s, n, h) >> \in AllStores(job.launches[3], m)
<1> DEFINE l == job.launches[3]
           b == n \div l.bn
           p == <<s - 1, b, h>>
<1>1. /\ l.kernel = "dkv" /\ l.kv_lens = PK /\ l.q_lens = PQ /\ l.bn \in Nat \ {0}
      /\ l.grid = (0 .. Len(PQ) - 1) \X (0 .. Cdiv(Longest(PK), l.bn) - 1) \X (0 .. job.launches[1].hk - 1)
  BY DEF PackedLaunches, PackedRecord
<1>2. s \in 1 .. Len(PQ) /\ n \in 0 .. PK[s] - 1 /\ h \in 0 .. job.launches[1].hk - 1 /\ Len(PQ) \in Nat /\ PK[s] \in Nat
  BY DEF IsKey, PackedShape
<1>3. Longest(PK) \in Nat /\ PK[s] <= Longest(PK)
  <2>1. PK \in Seq(Nat) /\ s \in 1 .. Len(PK)
    BY <1>2 DEF PackedShape
  <2> QED BY ONLY <2>1, LongestIs
<1> HIDE DEF l
<1>4. b \in 0 .. Cdiv(Longest(PK), l.bn) - 1 /\ b \in Nat /\ b * l.bn \in Nat /\ b * l.bn <= n /\ n < b * l.bn + l.bn
  <2> DEFINE w == l.bn
             r == n % l.bn
  <2>1. n \in 0 .. Longest(PK) - 1 /\ w \in Nat \ {0} /\ Longest(PK) \in Nat
    BY <1>1, <1>2, <1>3
  <2>2. b \in 0 .. Cdiv(Longest(PK), w) - 1 /\ r \in 0 .. w - 1 /\ b * w + r = n
    BY ONLY <2>1, TileOf
  <2> HIDE DEF w, r, b
  <2>3. b \in Nat /\ n \in Nat
    BY <2>1, <2>2
  <2>4. b * w \in Nat /\ b * w <= n /\ n < b * w + w
    BY ONLY <2>1, <2>2, <2>3
  <2> QED BY <2>2, <2>3, <2>4 DEF w
<1> HIDE DEF b
<1>5. n \in {y \in Lanes(b, l.bn) : y < PK[s]} /\ ~ (b * l.bn >= PK[s])
  <2>1. n \in Nat /\ n < PK[s]
    BY <1>2
  <2>2. n \in Lanes(b, l.bn)
    BY <1>1, <1>4, <2>1, LaneIs
  <2> QED BY <1>2, <1>4, <2>1, <2>2
<1>6. p \in l.grid /\ p[1] = s - 1 /\ p[2] = b /\ p[3] = h /\ p[1] + 1 = s
  <2>1. s - 1 \in 0 .. Len(PQ) - 1 /\ (s - 1) + 1 = s
    BY ONLY <1>2
  <2>2. p \in l.grid
    BY <1>1, <1>2, <1>4, <2>1
  <2> QED BY <2>1, <2>2
<1> HIDE DEF p
<1> DEFINE t == << <<d, KRow(s, n), h>>, DkvTerm(s, n, h) >>
<1>7. DkvValue(l, p, m, n) = DkvTerm(s, n, h)
  BY <1>6, DkvFold DEF l
<1>8. t = << <<d, Before(PK, p[1]) + n, p[3]>>, DkvValue(l, p, m, n) >>
  BY <1>6, <1>7 DEF KRow
<1> HIDE DEF t
<1>9. t \in _varlen_attn_bwd_dkv_kernel(l, p, m)
  <2>1. ~ (p[2] * l.bn >= l.kv_lens[p[1] + 1]) /\ n \in {y \in Lanes(p[2], l.bn) : y < l.kv_lens[p[1] + 1]}
    BY <1>1, <1>5, <1>6
  <2> QED BY <1>1, <1>8, <2>1, DkvStores
<1>10. t \in Stored(l, p, 0, m)
  BY <1>1, <1>9, PackedStored
<1> QED BY <1>6, <1>10, InAllStores DEF t, l

-----------------------------------------------------------------------------
\* What the three launches of a packed job leave.
DqMade(m) == \A s, j, h : IsQuery(s, j, h) => Load(m, <<"dq", QRow(s, j), h>>) = DqTerm(s, j, h)
DkvMade(m) ==
  \A s, n, h : IsKey(s, n, h) =>
    \A d \in {"dk", "dv"} : Load(m, <<d, KRow(s, n), h>>) = DkvTerm(s, n, h)
PackedValues ==
  PackedJob(job) =>
    /\ PackedInputs(PQ, PK, mem)
    /\ at > 1 => Attended(mem)
    /\ at > 2 => DqMade(mem)
    /\ at > 3 => DkvMade(mem)

\* A memory that agrees on the tensors of attention, one tensor aside.
AttentionTensors == {"q", "k", "v", "out", "lse", "dq", "dk", "dv"}
Agree(m, n, X) == \A c : c[1] \in AttentionTensors \ X => Load(n, c) = Load(m, c)

\* Then so does what has been computed.
LEMMA AgreeInputs ==
  ASSUME NEW m, NEW n, NEW X, Agree(m, n, X), {"q", "k", "v"} \cap X = {}, PackedInputs(PQ, PK, m)
  PROVE  PackedInputs(PQ, PK, n)
<1>1. \A r : \A x \in {"q", "k", "v"} : Load(n, <<x, r>>) = Load(m, <<x, r>>)
  <2> SUFFICES ASSUME NEW r, NEW x \in {"q", "k", "v"} PROVE Load(n, <<x, r>>) = Load(m, <<x, r>>)
    OBVIOUS
  <2>1. PICK c : c = <<x, r>>
    OBVIOUS
  <2>2. c[1] = x
    BY <2>1
  <2>3. c[1] \in AttentionTensors \ X
    BY <2>2 DEF AttentionTensors
  <2> QED BY <2>1, <2>3 DEF Agree
<1> QED BY <1>1 DEF PackedInputs

LEMMA AgreeCells ==
  ASSUME NEW m, NEW n, NEW X, Agree(m, n, X)
  PROVE  /\ "out" \notin X /\ "lse" \notin X /\ Attended(m) => Attended(n)
         /\ "dq" \notin X /\ DqMade(m) => DqMade(n)
         /\ "dk" \notin X /\ "dv" \notin X /\ DkvMade(m) => DkvMade(n)
<1>1. \A r, h : \A x \in {"out", "lse", "dq", "dk", "dv"} : x \notin X => Load(n, <<x, r, h>>) = Load(m, <<x, r, h>>)
  <2> SUFFICES ASSUME NEW r, NEW h, NEW x \in {"out", "lse", "dq", "dk", "dv"}, x \notin X
               PROVE  Load(n, <<x, r, h>>) = Load(m, <<x, r, h>>)
    OBVIOUS
  <2>1. PICK c : c = <<x, r, h>>
    OBVIOUS
  <2>2. c[1] = x
    BY <2>1
  <2>3. c[1] \in AttentionTensors \ X
    BY <2>2 DEF AttentionTensors
  <2> QED BY <2>1, <2>3 DEF Agree
<1>2. ASSUME "out" \notin X /\ "lse" \notin X, Attended(m) PROVE Attended(n)
  <2>1. \A r, h : \A o \in {"out", "lse"} : Load(n, <<o, r, h>>) = Load(m, <<o, r, h>>)
    BY <1>1, <1>2
  <2> SUFFICES ASSUME NEW s, NEW j, NEW h, IsQuery(s, j, h), NEW o \in {"out", "lse"}
               PROVE  Load(n, <<o, QRow(s, j), h>>) = AttnTerm(s, j, h)
    BY DEF Attended
  <2>2. Load(n, <<o, QRow(s, j), h>>) = Load(m, <<o, QRow(s, j), h>>)
    BY ONLY <2>1, o \in {"out", "lse"}
  <2>3. Load(m, <<o, QRow(s, j), h>>) = AttnTerm(s, j, h)
    BY <1>2 DEF Attended
  <2> QED BY ONLY <2>2, <2>3
<1>3. ASSUME "dq" \notin X, DqMade(m) PROVE DqMade(n)
  BY <1>1, <1>3 DEF DqMade
<1>4. ASSUME "dk" \notin X /\ "dv" \notin X, DkvMade(m) PROVE DkvMade(n)
  <2>1. \A r, h : \A d \in {"dk", "dv"} : Load(n, <<d, r, h>>) = Load(m, <<d, r, h>>)
    BY <1>1, <1>4
  <2> SUFFICES ASSUME NEW s, NEW j, NEW h, IsKey(s, j, h), NEW d \in {"dk", "dv"}
               PROVE  Load(n, <<d, KRow(s, j), h>>) = DkvTerm(s, j, h)
    BY DEF DkvMade
  <2>2. Load(n, <<d, KRow(s, j), h>>) = Load(m, <<d, KRow(s, j), h>>)
    BY ONLY <2>1, d \in {"dk", "dv"}
  <2>3. Load(m, <<d, KRow(s, j), h>>) = DkvTerm(s, j, h)
    BY <1>4 DEF DkvMade
  <2> QED BY ONLY <2>2, <2>3
<1> QED BY <1>2, <1>3, <1>4

\* The offsets tell two queries, and two keys, apart.
LEMMA QueriesApart ==
  ASSUME PackedShape, NEW s, NEW j, NEW h, IsQuery(s, j, h), NEW t, NEW k, IsQuery(t, k, h), QRow(s, j) = QRow(t, k)
  PROVE  s = t /\ j = k
<1>1. /\ PQ \in Seq(Nat) /\ s \in 1 .. Len(PQ) /\ j \in 0 .. PQ[s] - 1 /\ t \in 1 .. Len(PQ) /\ k \in 0 .. PQ[t] - 1
      /\ Before(PQ, s - 1) + j = Before(PQ, t - 1) + k
  BY DEF PackedShape, IsQuery, QRow
<1> QED BY ONLY <1>1, RowsApart

LEMMA KeysApart ==
  ASSUME PackedShape, NEW s, NEW j, NEW h, IsKey(s, j, h), NEW t, NEW k, IsKey(t, k, h), KRow(s, j) = KRow(t, k)
  PROVE  s = t /\ j = k
<1>1. /\ PK \in Seq(Nat) /\ s \in 1 .. Len(PK) /\ j \in 0 .. PK[s] - 1 /\ t \in 1 .. Len(PK) /\ k \in 0 .. PK[t] - 1
      /\ Before(PK, s - 1) + j = Before(PK, t - 1) + k
  BY DEF PackedShape, IsKey, KRow
<1> QED BY ONLY <1>1, RowsApart

\* What a launch of a packed job leaves, given what the launches before it left.
LEMMA PackedFinish1 ==
  ASSUME PackedShape, PackedLaunches, NEW m, PackedInputs(PQ, PK, m), NEW n, n = Write(AllStores(job.launches[1], m), m)
  PROVE  Agree(m, n, {"out", "lse"}) /\ Attended(n)
<1> DEFINE S == AllStores(job.launches[1], m)
<1>1. ASSUME NEW t \in S
      PROVE  \E s, j, h : \E o \in {"out", "lse"} :
               IsQuery(s, j, h) /\ t = << <<o, QRow(s, j), h>>, AttnTerm(s, j, h) >>
  BY VarlenSound
<1>2. ASSUME NEW s, NEW j, NEW h, IsQuery(s, j, h), NEW o \in {"out", "lse"}
      PROVE  << <<o, QRow(s, j), h>>, AttnTerm(s, j, h) >> \in S
  BY <1>2, VarlenComplete
<1> HIDE DEF S
<1>3. Agree(m, n, {"out", "lse"})
  <2> SUFFICES ASSUME NEW c, c[1] \in AttentionTensors \ {"out", "lse"} PROVE Load(n, c) = Load(m, c)
    BY DEF Agree
  <2>1. \A t \in S : t[1] # c
    BY <1>1
  <2> QED BY <2>1, WriteKept DEF S
<1>4. ASSUME NEW s, NEW j, NEW h, IsQuery(s, j, h), NEW o \in {"out", "lse"}
      PROVE  Load(n, <<o, QRow(s, j), h>>) = AttnTerm(s, j, h)
  <2> DEFINE c == <<o, QRow(s, j), h>>
             v == AttnTerm(s, j, h)
  <2>1. <<c, v>> \in S
    BY <1>2, <1>4
  <2>2. ASSUME NEW t \in S, t[1] = c PROVE t[2] = v
    <3>1. PICK x, k, g : \E y \in {"out", "lse"} : IsQuery(x, k, g) /\ t = << <<y, QRow(x, k), g>>, AttnTerm(x, k, g) >>
      BY <1>1
    <3>2. IsQuery(x, k, g) /\ t[2] = AttnTerm(x, k, g) /\ QRow(x, k) = QRow(s, j) /\ g = h
      BY <2>2, <3>1
    <3>3. x = s /\ k = j
      BY <1>4, <3>2, QueriesApart
    <3> QED BY <3>2, <3>3
  <2> HIDE DEF c, v
  <2>3. Load(Write(S, m), c) = v
    BY ONLY <2>1, <2>2, WriteStored
  <2> QED BY <2>3 DEF c, v, S
<1> QED BY <1>3, <1>4 DEF Attended

LEMMA PackedFinish2 ==
  ASSUME PackedShape, PackedLaunches, NEW m, PackedInputs(PQ, PK, m), Attended(m),
         NEW n, n = Write(AllStores(job.launches[2], m), m)
  PROVE  Agree(m, n, {"dq"}) /\ DqMade(n)
<1> DEFINE S == AllStores(job.launches[2], m)
<1>1. ASSUME NEW t \in S
      PROVE  \E s, j, h : IsQuery(s, j, h) /\ t = << <<"dq", QRow(s, j), h>>, DqTerm(s, j, h) >>
  BY DqSound
<1>2. ASSUME NEW s, NEW j, NEW h, IsQuery(s, j, h)
      PROVE  << <<"dq", QRow(s, j), h>>, DqTerm(s, j, h) >> \in S
  BY <1>2, DqComplete
<1> HIDE DEF S
<1>3. Agree(m, n, {"dq"})
  <2> SUFFICES ASSUME NEW c, c[1] \in AttentionTensors \ {"dq"} PROVE Load(n, c) = Load(m, c)
    BY DEF Agree
  <2>1. \A t \in S : t[1] # c
    BY <1>1
  <2> QED BY <2>1, WriteKept DEF S
<1>4. ASSUME NEW s, NEW j, NEW h, IsQuery(s, j, h) PROVE Load(n, <<"dq", QRow(s, j), h>>) = DqTerm(s, j, h)
  <2> DEFINE c == <<"dq", QRow(s, j), h>>
             v == DqTerm(s, j, h)
  <2>1. <<c, v>> \in S
    BY <1>2, <1>4
  <2>2. ASSUME NEW t \in S, t[1] = c PROVE t[2] = v
    <3>1. PICK x, k, g : IsQuery(x, k, g) /\ t = << <<"dq", QRow(x, k), g>>, DqTerm(x, k, g) >>
      BY <1>1
    <3>2. IsQuery(x, k, g) /\ t[2] = DqTerm(x, k, g) /\ QRow(x, k) = QRow(s, j) /\ g = h
      BY <2>2, <3>1
    <3>3. x = s /\ k = j
      BY <1>4, <3>2, QueriesApart
    <3> QED BY <3>2, <3>3
  <2> HIDE DEF c, v
  <2>3. Load(Write(S, m), c) = v
    BY ONLY <2>1, <2>2, WriteStored
  <2> QED BY <2>3 DEF c, v, S
<1> QED BY <1>3, <1>4 DEF DqMade

LEMMA PackedFinish3 ==
  ASSUME PackedShape, PackedLaunches, NEW m, PackedInputs(PQ, PK, m), Attended(m),
         NEW n, n = Write(AllStores(job.launches[3], m), m)
  PROVE  Agree(m, n, {"dk", "dv"}) /\ DkvMade(n)
<1> DEFINE S == AllStores(job.launches[3], m)
<1>1. ASSUME NEW t \in S
      PROVE  \E s, j, h : \E d \in {"dk", "dv"} :
               IsKey(s, j, h) /\ t = << <<d, KRow(s, j), h>>, DkvTerm(s, j, h) >>
  BY DkvSound
<1>2. ASSUME NEW s, NEW j, NEW h, IsKey(s, j, h), NEW d \in {"dk", "dv"}
      PROVE  << <<d, KRow(s, j), h>>, DkvTerm(s, j, h) >> \in S
  BY <1>2, DkvComplete
<1> HIDE DEF S
<1>3. Agree(m, n, {"dk", "dv"})
  <2> SUFFICES ASSUME NEW c, c[1] \in AttentionTensors \ {"dk", "dv"} PROVE Load(n, c) = Load(m, c)
    BY DEF Agree
  <2>1. \A t \in S : t[1] # c
    BY <1>1
  <2> QED BY <2>1, WriteKept DEF S
<1>4. ASSUME NEW s, NEW j, NEW h, IsKey(s, j, h), NEW d \in {"dk", "dv"}
      PROVE  Load(n, <<d, KRow(s, j), h>>) = DkvTerm(s, j, h)
  <2> DEFINE c == <<d, KRow(s, j), h>>
             v == DkvTerm(s, j, h)
  <2>1. <<c, v>> \in S
    BY <1>2, <1>4
  <2>2. ASSUME NEW t \in S, t[1] = c PROVE t[2] = v
    <3>1. PICK x, k, g : \E y \in {"dk", "dv"} : IsKey(x, k, g) /\ t = << <<y, KRow(x, k), g>>, DkvTerm(x, k, g) >>
      BY <1>1
    <3>2. IsKey(x, k, g) /\ t[2] = DkvTerm(x, k, g) /\ KRow(x, k) = KRow(s, j) /\ g = h
      BY <2>2, <3>1
    <3>3. x = s /\ k = j
      BY <1>4, <3>2, KeysApart
    <3> QED BY <3>2, <3>3
  <2> HIDE DEF c, v
  <2>3. Load(Write(S, m), c) = v
    BY ONLY <2>1, <2>2, WriteStored
  <2> QED BY <2>3 DEF c, v, S
<1> QED BY <1>3, <1>4 DEF DkvMade

\* The terms of a job stay the same.
LEMMA PackedTermsKept ==
  ASSUME job' = job
  PROVE  /\ Attended(mem') => Attended(mem)'
         /\ DqMade(mem') => DqMade(mem)'
         /\ DkvMade(mem') => DkvMade(mem)'
         /\ PQ' = PQ /\ PK' = PK
<1>1. PQ' = PQ /\ PK' = PK
  BY DEF PQ, PK
<1>2. \A s, j, h : IsQuery(s, j, h)' = IsQuery(s, j, h) /\ IsKey(s, j, h)' = IsKey(s, j, h)
  BY <1>1 DEF IsQuery, IsKey
<1>3. \A s, j : Position(s, j)' = Position(s, j) /\ QRow(s, j)' = QRow(s, j) /\ KRow(s, j)' = KRow(s, j)
                /\ Skipped(s, j)' = Skipped(s, j)
  BY <1>1 DEF Position, QRow, KRow, Skipped
<1>4. \A s, j, h : AttnTerm(s, j, h)' = AttnTerm(s, j, h)
  BY <1>3 DEF AttnTerm
<1>5. \A s, j : DqTiles(s, j)' = DqTiles(s, j)
  BY <1>1, <1>3 DEF DqTiles
<1>6. \A s, j, h : DqTerm(s, j, h)' = DqTerm(s, j, h)
  BY <1>3, <1>4, <1>5 DEF DqTerm
<1>7. \A s, h : QueryTerms(s, h)' = QueryTerms(s, h)
  BY <1>1, <1>3 DEF QueryTerms
<1>8. \A s, j, h : DkvTiles(s, j, h)' = DkvTiles(s, j, h)
  BY <1>1, <1>3, <1>7 DEF DkvTiles
<1>9. \A s, j, h : DkvTerm(s, j, h)' = DkvTerm(s, j, h)
  <2>1. Group' = Group
    BY DEF Group
  <2> QED BY <1>8, <2>1 DEF DkvTerm
<1>10. Attended(mem') => Attended(mem)'
  BY <1>2, <1>3, <1>4 DEF Attended
<1>11. DqMade(mem') => DqMade(mem)'
  BY <1>2, <1>3, <1>6 DEF DqMade
<1>12. DkvMade(mem') => DkvMade(mem)'
  BY <1>2, <1>3, <1>9 DEF DkvMade
<1> QED BY <1>1, <1>10, <1>11, <1>12

\* The memory of a packed job, launch by launch.
LEMMA PackedStep == Stream /\ PackedValues /\ [Next]_vars => PackedValues'
<1> SUFFICES ASSUME Stream, PackedValues, [Next]_vars PROVE PackedValues'
  OBVIOUS
<1>1. ASSUME job' = job, PackedJob(job),
             PackedInputs(PQ, PK, mem'), at' > 1 => Attended(mem'), at' > 2 => DqMade(mem'), at' > 3 => DkvMade(mem')
      PROVE  PackedValues'
  <2>1. /\ Attended(mem') => Attended(mem)'
        /\ DqMade(mem') => DqMade(mem)'
        /\ DkvMade(mem') => DkvMade(mem)'
        /\ PQ' = PQ /\ PK' = PK
    BY <1>1, PackedTermsKept
  <2> QED BY <1>1, <2>1 DEF PackedValues
<1>2. CASE UNCHANGED vars
  <2>1. job' = job /\ mem' = mem /\ at' = at
    BY <1>2 DEF vars
  <2>2. CASE ~ PackedJob(job)
    BY <2>1, <2>2 DEF PackedValues
  <2>3. CASE PackedJob(job)
    BY <1>1, <2>1, <2>3 DEF PackedValues
  <2> QED BY <2>2, <2>3
<1>3. CASE Next
  <2> SUFFICES ASSUME PackedJob(job) PROVE PackedValues'
    <3>1. job' = job
      BY <1>3 DEF Next, RunProgram, FinishLaunch
    <3> QED BY <3>1 DEF PackedValues
  <2>1. /\ PackedInputs(PQ, PK, mem) /\ (at > 1 => Attended(mem)) /\ (at > 2 => DqMade(mem))
        /\ (at > 3 => DkvMade(mem)) /\ at <= Len(job.launches)
    BY <1>3 DEF PackedValues, Next
  <2>2. CASE \E p \in Launch(at).grid : RunProgram(p)
    <3>1. PICK p \in Launch(at).grid : RunProgram(p)
      BY <2>2
    <3>2. job' = job /\ at' = at
      BY <3>1 DEF RunProgram
    <3>3. Agree(mem, mem', {})
      <4> SUFFICES ASSUME NEW c, c[1] \in AttentionTensors PROVE Load(mem', c) = Load(mem, c)
        BY DEF Agree
      <4>1. c[1] \notin {"hist", "cumcopy"}
        BY DEF AttentionTensors
      <4> QED BY <3>1, <4>1, RunElsewhere
    <3>4. PackedInputs(PQ, PK, mem')
      BY <2>1, <3>3, AgreeInputs
    <3>5. (Attended(mem) => Attended(mem')) /\ (DqMade(mem) => DqMade(mem')) /\ (DkvMade(mem) => DkvMade(mem'))
      BY <3>3, AgreeCells
    <3> QED BY <1>1, <2>1, <3>2, <3>4, <3>5
  <2>3. CASE FinishLaunch
    <3>1. PackedShape /\ PackedLaunches
      BY PackedIs
    <3>2. job' = job /\ at' = at + 1
      BY <2>3 DEF FinishLaunch
    <3>3. at \in {1, 2, 3}
      BY <2>1, <3>1 DEF Stream, PackedLaunches
    <3>4. Launch(at).kernel \notin Atomic
      BY <3>1, <3>3 DEF PackedLaunches, PackedRecord, Launch, Atomic
    <3>5. mem' = Write(AllStores(job.launches[at], mem), mem)
      BY <2>1, <2>3, <3>4, StreamFinish DEF Launch
    <3>6. CASE at = 1
      <4>1. Agree(mem, mem', {"out", "lse"}) /\ Attended(mem')
        BY <2>1, <3>1, <3>5, <3>6, PackedFinish1
      <4>2. PackedInputs(PQ, PK, mem')
        BY <2>1, <4>1, AgreeInputs
      <4>3. ~ (at' > 2) /\ ~ (at' > 3)
        BY <3>2, <3>6
      <4> QED BY <1>1, <3>2, <4>1, <4>2, <4>3
    <3>7. CASE at = 2
      <4>0. Attended(mem)
        BY <2>1, <3>7
      <4>1. Agree(mem, mem', {"dq"}) /\ DqMade(mem')
        BY <2>1, <3>1, <3>5, <3>7, <4>0, PackedFinish2
      <4>2. PackedInputs(PQ, PK, mem')
        BY <2>1, <4>1, AgreeInputs
      <4>3. Attended(mem')
        BY <4>0, <4>1, AgreeCells
      <4>4. ~ (at' > 3)
        BY <3>2, <3>7
      <4> QED BY <1>1, <3>2, <4>1, <4>2, <4>3, <4>4
    <3>8. CASE at = 3
      <4>0. Attended(mem) /\ DqMade(mem)
        BY <2>1, <3>8
      <4>1. Agree(mem, mem', {"dk", "dv"}) /\ DkvMade(mem')
        BY <2>1, <3>1, <3>5, <3>8, <4>0, PackedFinish3
      <4>2. PackedInputs(PQ, PK, mem')
        BY <2>1, <4>1, AgreeInputs
      <4>3. Attended(mem') /\ DqMade(mem')
        BY <4>0, <4>1, AgreeCells
      <4> QED BY <1>1, <3>2, <4>1, <4>2, <4>3
    <3> QED BY <3>3, <3>6, <3>7, <3>8
  <2> QED BY <1>3, <2>2, <2>3 DEF Next
<1> QED BY <1>2, <1>3

\* Nothing is computed at first.
LEMMA PackedInit == Init => PackedValues
<1> SUFFICES ASSUME Init, PackedJob(job) PROVE PackedValues
  BY DEF PackedValues
<1>1. at = 1 /\ mem = job.mem
  BY DEF Init
<1>2. PackedInputs(PQ, PK, job.mem)
  BY PackedIs
<1> QED BY <1>1, <1>2 DEF PackedValues

\* The launch of a packed kernel that has just finished.
LEMMA PackedDone ==
  ASSUME Stream, NEW k \in {"varlen", "dq", "dkv"}, Just({k})
  PROVE  /\ PackedJob(job) /\ PackedShape /\ PackedLaunches
         /\ at = (IF k = "varlen" THEN 2 ELSE IF k = "dq" THEN 3 ELSE 4)
         /\ Done = job.launches[at - 1]
<1>1. at - 1 \in DOMAIN job.launches /\ job \in Jobs /\ at \in Nat
  BY JobsAssumption DEF Stream, Just
<1>2. job.launches[at - 1].kernel = k /\ Done = job.launches[at - 1]
  BY DEF Just, Launch, Done
<1>3. PackedJob(job)
  BY <1>1, <1>2, JobsAssumption DEF PackedKernelNames
<1>4. PackedShape /\ PackedLaunches
  BY <1>3, PackedIs
<1>5. Len(job.launches) = 3 /\ DOMAIN job.launches = 1 .. Len(job.launches)
  BY <1>1, <1>4, JobsAssumption DEF PackedLaunches
<1>6. at - 1 \in {1, 2, 3}
  BY <1>1, <1>5
<1>7. job.launches[1].kernel = "varlen" /\ job.launches[2].kernel = "dq" /\ job.launches[3].kernel = "dkv"
  BY <1>4 DEF PackedLaunches, PackedRecord
<1>8. /\ at - 1 = 1 => k = "varlen"
      /\ at - 1 = 2 => k = "dq"
      /\ at - 1 = 3 => k = "dkv"
  BY <1>2, <1>7
<1> QED BY <1>1, <1>2, <1>3, <1>4, <1>6, <1>8

\* What the forward launch leaves is what PackedExact asks.
LEMMA ValuesMeanPacked == Stream /\ PackedValues => PackedExact
<1> SUFFICES ASSUME Stream, PackedValues, Just({"varlen"}),
                    NEW s \in DOMAIN Done.q_lens, NEW j \in 0 .. Done.q_lens[s] - 1, NEW h \in 0 .. Done.hq - 1
             PROVE  Load(mem, <<"out", Before(Done.q_lens, s - 1) + j, h>>)
                      = << <<s, Done.kv_lens[s] - Done.q_lens[s] + j>>, h \div (Done.hq \div Done.hk),
                           Alone(s, Done.kv_lens[s] - Done.q_lens[s] + j, Done.bn) >>
  BY DEF PackedExact
<1>1. PackedJob(job) /\ PackedShape /\ at = 2 /\ Done = job.launches[at - 1]
  BY PackedDone
<1>2. Done = job.launches[1]
  BY <1>1
<1>3. Done.q_lens = PQ /\ Done.kv_lens = PK
  BY <1>2 DEF PQ, PK
<1>4. IsQuery(s, j, h)
  BY <1>1, <1>2, <1>3 DEF IsQuery, PackedShape
<1>5. Load(mem, <<"out", QRow(s, j), h>>) = AttnTerm(s, j, h)
  <2>1. Attended(mem)
    BY <1>1 DEF PackedValues
  <2> QED BY <1>4, <2>1 DEF Attended
<1> QED BY <1>2, <1>3, <1>5 DEF QRow, AttnTerm, Position

(* Packed attention: for every packing of sequences, number of heads and   *)
(* tile, and in whatever order the programs run, each query gets the fold  *)
(* of its own sequence's keys 0 .. position in the tiles of its position,  *)
(* as if it were alone (PackedExact).                                      *)
THEOREM PackedIsExact == Spec => []PackedExact
<1>1. Init => Stream /\ PackedValues
  BY StreamInit, PackedInit
<1>2. Stream /\ PackedValues /\ [Next]_vars => (Stream /\ PackedValues)'
  BY StreamStep, PackedStep
<1>3. Stream /\ PackedValues => PackedExact
  BY ValuesMeanPacked
<1> QED BY <1>1, <1>2, <1>3, PTL DEF Spec

\* The keys of a query, its tiles flattened.
LEMMA DqFlat ==
  ASSUME PackedShape, PackedLaunches, NEW s, NEW j, NEW h, IsQuery(s, j, h)
  PROVE  FlattenSeq(NonEmpty(DqTiles(s, j))) = [i \in 1 .. Position(s, j) + 1 |-> <<s, i - 1>>]
<1> DEFINE w == job.launches[2].bn
           n == PK[s]
           c == Cdiv(n, w)
           pos == Position(s, j)
           hi == pos + 1
           F == [x \in 0 .. pos |-> <<s, x>>]
<1>1. w \in Nat \ {0}
  BY DEF PackedLaunches, PackedRecord
<1>2. n \in Nat /\ pos \in 0 .. n - 1
  BY PositionIs DEF IsQuery
<1> HIDE DEF w, n, pos
<1>3. c \in Nat /\ n <= c * w /\ c * w < n + w
  BY ONLY <1>1, <1>2, CdivFacts
<1> HIDE DEF c
<1>4. 0 \in Nat /\ hi \in Nat /\ 0 <= hi /\ hi <= c * w /\ pos \in Nat
  <2>1. c * w \in Nat
    BY <1>1, <1>3
  <2> QED BY <1>2, <1>3, <2>1
<1>5. DqTiles(s, j) = KeptTiles(c, w, 0, hi, F)
  BY DEF DqTiles, c, w, n, pos
<1>6. \A i \in 1 .. hi - 0 : F[0 + i - 1] = <<s, i - 1>>
  <2> TAKE i \in 1 .. hi - 0
  <2>1. 0 + i - 1 = i - 1 /\ i - 1 \in 0 .. pos
    BY <1>4
  <2> QED BY <2>1
<1>7. hi - 0 = hi
  BY <1>4
<1> HIDE DEF F, hi
<1>8. FlattenSeq(NonEmpty(KeptTiles(c, w, 0, hi, F))) = [i \in 1 .. hi - 0 |-> F[0 + i - 1]]
  <2>1. 0 \in Nat /\ hi \in Nat /\ 0 <= hi /\ hi <= c * w
    BY <1>4
  <2> QED BY ONLY <1>1, <1>3, <2>1, FlatKept
<1>9. [i \in 1 .. hi - 0 |-> F[0 + i - 1]] = [i \in 1 .. hi |-> <<s, i - 1>>]
  BY <1>6, <1>7
<1> QED BY <1>5, <1>8, <1>9 DEF hi, pos

\* The rows of one head of a key, its tiles flattened.
LEMMA DkvFlat ==
  ASSUME PackedShape, PackedLaunches, NEW s \in 1 .. Len(PQ), NEW n \in 0 .. PK[s] - 1, NEW h
  PROVE  /\ FlattenSeq(NonEmpty(DkvTiles(s, n, h)))
              = [i \in 1 .. PQ[s] - Skipped(s, n) |-> QueryTerms(s, h)[Skipped(s, n) + i - 1]]
         /\ \E u, z : Between(DkvTiles(s, n, h), Cdiv(PQ[s], job.launches[3].bm), u, z)
         /\ Skipped(s, n) \in Nat /\ Skipped(s, n) <= PQ[s] /\ PQ[s] \in Nat
<1> DEFINE w == job.launches[3].bm
           hi == PQ[s]
           lo == Skipped(s, n)
           c == Cdiv(hi, w)
           F == QueryTerms(s, h)
<1>1. w \in Nat \ {0}
  BY DEF PackedLaunches, PackedRecord
<1>2. hi \in Nat /\ lo \in Nat /\ lo <= hi
  <2>1. PQ[s] \in Nat /\ PK[s] \in Nat /\ PQ[s] <= PK[s]
    BY DEF PackedShape
  <2> QED BY <2>1 DEF Skipped
<1>3. DkvTiles(s, n, h) = KeptTiles(c, w, lo, hi, F)
  BY DEF DkvTiles
<1> HIDE DEF w, hi, lo, F
<1>4. c \in Nat /\ hi <= c * w
  BY ONLY <1>1, <1>2, CdivFacts
<1> HIDE DEF c
<1>5. /\ FlattenSeq(NonEmpty(KeptTiles(c, w, lo, hi, F))) = [i \in 1 .. hi - lo |-> F[lo + i - 1]]
      /\ \E u, z : Between(KeptTiles(c, w, lo, hi, F), c, u, z)
  BY ONLY <1>1, <1>2, <1>4, FlatKept
<1> QED BY <1>2, <1>3, <1>5 DEF c, w, hi, lo, F

\* Tiles that count are sequences of terms.
LEMMA DkvPieces ==
  ASSUME PackedShape, PackedLaunches, NEW s \in 1 .. Len(PQ), NEW n \in 0 .. PK[s] - 1, NEW h, NEW S,
         \A x \in 0 .. PQ[s] - 1 : QueryTerms(s, h)[x] \in S
  PROVE  NonEmpty(DkvTiles(s, n, h)) \in Seq(Seq(S))
<1> DEFINE w == job.launches[3].bm
           hi == PQ[s]
           lo == Skipped(s, n)
           c == Cdiv(hi, w)
           F == QueryTerms(s, h)
           tiles == DkvTiles(s, n, h)
<1>1. w \in Nat \ {0}
  BY DEF PackedLaunches, PackedRecord
<1>2. hi \in Nat /\ lo \in Nat /\ lo <= hi /\ \E u, z : Between(tiles, c, u, z)
  BY DkvFlat
<1>3. tiles = KeptTiles(c, w, lo, hi, F)
  BY DEF DkvTiles
<1>4. \A x \in 0 .. hi - 1 : F[x] \in S
  OBVIOUS
<1> HIDE DEF w, hi, lo, F, tiles
<1>5. c \in Nat
  BY ONLY <1>1, <1>2, CdivFacts
<1> HIDE DEF c
<1>6. ASSUME NEW t \in 1 .. c PROVE tiles[t] \in Seq(S)
  <2> DEFINE a == From(t, w, lo)
             k == Kept(t, w, lo, hi)
  <2>1. tiles[t] = Slice(F, a, k)
    BY ONLY <1>1, <1>2, <1>3, <1>5, <1>6, KeptTileIs
  <2>2. k \in Nat /\ \A i \in 1 .. k : a + i - 1 \in lo .. hi - 1
    BY ONLY <1>1, <1>2, <1>5, <1>6, KeptTileIs
  <2> HIDE DEF a, k
  <2>3. \A i \in 1 .. k : F[a + i - 1] \in S
    BY <1>2, <1>4, <2>2
  <2>4. PICK f : f = [i \in 1 .. k |-> F[a + i - 1]]
    OBVIOUS
  <2>5. f \in [1 .. k -> S]
    BY <2>3, <2>4
  <2>6. f \in Seq(S)
    BY ONLY <2>2, <2>5
  <2> QED BY <2>1, <2>4, <2>6 DEF Slice
<1>7. PICK u, z : Between(tiles, c, u, z)
  BY <1>2
<1>8. NonEmpty(tiles) = [i \in 1 .. z - u |-> tiles[u + i]]
  BY ONLY <1>7, NonEmptyBetween
<1>9. u \in Nat /\ z \in Nat /\ u <= z /\ z <= c
  BY <1>5, <1>7 DEF Between
<1>10. z - u \in Nat /\ \A i \in 1 .. z - u : u + i \in 1 .. c
  BY ONLY <1>5, <1>9
<1>11. \A i \in 1 .. z - u : tiles[u + i] \in Seq(S)
  BY <1>6, <1>10
<1>12. NonEmpty(tiles) \in Seq(Seq(S))
  BY <1>8, <1>10, <1>11
<1> QED BY <1>12 DEF tiles

\* What the backward launches leave is what GradExact asks.
LEMMA ValuesMeanDq ==
  ASSUME Stream, PackedValues, Just({"dq"}),
         NEW s \in DOMAIN Done.q_lens, NEW j \in 0 .. Done.q_lens[s] - 1, NEW h \in 0 .. Done.hq - 1
  PROVE  LET pos == Done.kv_lens[s] - Done.q_lens[s] + j
             v == Load(mem, <<"dq", Before(Done.q_lens, s - 1) + j, h>>)
         IN  /\ v[1] = <<s, pos>> /\ v[2][1] = <<s, pos>> /\ v[2][2] = v[3]
             /\ FlattenSeq(v[4]) = [i \in 1 .. pos + 1 |-> <<s, i - 1>>]
<1>1. PackedJob(job) /\ PackedShape /\ PackedLaunches /\ at = 3 /\ Done = job.launches[at - 1]
  BY PackedDone
<1>2. Done = job.launches[2]
  BY <1>1
<1>3. Done.q_lens = PQ /\ Done.kv_lens = PK /\ Done.hq = job.launches[1].hq
  BY <1>1, <1>2 DEF PackedLaunches, PackedRecord
<1>4. IsQuery(s, j, h)
  BY <1>1, <1>3 DEF IsQuery, PackedShape
<1> DEFINE v == Load(mem, <<"dq", QRow(s, j), h>>)
<1>5. v = DqTerm(s, j, h)
  BY <1>1, <1>4 DEF PackedValues, DqMade
<1>6. FlattenSeq(NonEmpty(DqTiles(s, j))) = [i \in 1 .. Position(s, j) + 1 |-> <<s, i - 1>>]
  BY <1>1, <1>4, DqFlat
<1> HIDE DEF v
<1>7. /\ v[1] = <<s, Position(s, j)>> /\ v[2] = AttnTerm(s, j, h) /\ v[3] = h \div (job.launches[1].hq \div job.launches[1].hk)
      /\ v[4] = NonEmpty(DqTiles(s, j))
  BY <1>5 DEF DqTerm
<1>8. v[2][1] = <<s, Position(s, j)>> /\ v[2][2] = v[3]
  BY <1>7 DEF AttnTerm
<1>9. Position(s, j) = Done.kv_lens[s] - Done.q_lens[s] + j /\ v = Load(mem, <<"dq", Before(Done.q_lens, s - 1) + j, h>>)
  BY <1>3 DEF Position, QRow, v
<1> QED BY <1>6, <1>7, <1>8, <1>9

LEMMA ValuesMeanDkv ==
  ASSUME Stream, PackedValues, Just({"dkv"}),
         NEW s \in DOMAIN Done.kv_lens, NEW n \in 0 .. Done.kv_lens[s] - 1, NEW h \in 0 .. Done.hk - 1
  PROVE  LET first == Done.kv_lens[s] - Done.q_lens[s]
             from == IF n > first THEN n ELSE first
             G == Done.hq \div Done.hk
             OfHead(g) == [i \in 1 .. Done.kv_lens[s] - from |->
                           << <<s, from + i - 1>>, h * G + g - 1, <<s, from + i - 1>> >>]
         IN  \A d \in {"dk", "dv"} :
               LET v == Load(mem, <<d, Before(Done.kv_lens, s - 1) + n, h>>)
               IN  v[1] = <<s, n>> /\ FlattenSeq(v[2]) = FlattenSeq([g \in 1 .. G |-> OfHead(g)])
<1> DEFINE first == PK[s] - PQ[s]
           from == IF n > first THEN n ELSE first
           OfHead(g) == [i \in 1 .. PK[s] - from |-> << <<s, from + i - 1>>, h * Group + g - 1, <<s, from + i - 1>> >>]
           lo == Skipped(s, n)
           hd(g) == h * Group + g - 1
           ss == [g \in 1 .. Group |-> NonEmpty(DkvTiles(s, n, hd(g)))]
           S == {QueryTerms(s, hd(g))[x] : g \in 1 .. Group, x \in 0 .. PQ[s] - 1}
<1>1. PackedJob(job) /\ PackedShape /\ PackedLaunches /\ at = 4 /\ Done = job.launches[at - 1]
  BY PackedDone
<1>2. Done = job.launches[3]
  BY <1>1
<1>3. Done.q_lens = PQ /\ Done.kv_lens = PK /\ Done.hq = job.launches[1].hq /\ Done.hk = job.launches[1].hk
  BY <1>1, <1>2 DEF PackedLaunches, PackedRecord
<1>4. IsKey(s, n, h) /\ s \in 1 .. Len(PQ) /\ n \in 0 .. PK[s] - 1 /\ h \in 0 .. job.launches[1].hk - 1
  BY <1>1, <1>3 DEF IsKey, PackedShape
<1>5. PQ[s] \in Nat /\ PK[s] \in Nat /\ PQ[s] <= PK[s] /\ n \in Nat /\ first \in Nat
  <2>1. \A t \in 1 .. Len(PQ) : PQ[t] \in Nat /\ PK[t] \in Nat /\ PQ[t] <= PK[t]
    BY <1>1 DEF PackedShape
  <2>2. PQ[s] \in Nat /\ PK[s] \in Nat /\ PQ[s] <= PK[s]
    BY ONLY <1>4, <2>1
  <2> QED BY ONLY <1>4, <2>2 DEF first
<1>6. Group \in Nat /\ Done.hq \div Done.hk = Group
  BY <1>1, <1>3, <1>4, HeadOf DEF Group
<1>7. lo \in Nat /\ lo <= PQ[s] /\ PQ[s] - lo = PK[s] - from /\ from = first + lo
  <2>1. n \in 0 .. PK[s] - 1
    BY <1>4
  <2> QED BY ONLY <2>1, <1>5 DEF Skipped
<1>8. ss \in [1 .. Group -> Seq(Seq(S))]
  <2>1. ASSUME NEW g \in 1 .. Group PROVE NonEmpty(DkvTiles(s, n, hd(g))) \in Seq(Seq(S))
    <3>1. \A x \in 0 .. PQ[s] - 1 : QueryTerms(s, hd(g))[x] \in S
      OBVIOUS
    <3> HIDE DEF S, hd
    <3> QED BY <1>1, <1>4, <3>1, DkvPieces
  <2> HIDE DEF S, hd
  <2> QED BY <2>1
<1>9. ASSUME NEW g \in 1 .. Group PROVE FlattenSeq(ss[g]) = OfHead(g)
  <2>1. FlattenSeq(NonEmpty(DkvTiles(s, n, hd(g)))) = [i \in 1 .. PQ[s] - lo |-> QueryTerms(s, hd(g))[lo + i - 1]]
    <3> HIDE DEF hd
    <3> QED BY <1>1, <1>4, DkvFlat
  <2>2. ASSUME NEW i \in 1 .. PQ[s] - lo
        PROVE  QueryTerms(s, hd(g))[lo + i - 1] = << <<s, from + i - 1>>, hd(g), <<s, from + i - 1>> >>
    <3>1. lo + i - 1 \in 0 .. PQ[s] - 1
      <4> HIDE DEF lo
      <4> QED BY <1>5, <1>7
    <3>2. PICK x : x = lo + i - 1
      OBVIOUS
    <3>3. Position(s, x) = from + i - 1
      <4>1. Position(s, x) = first + x
        BY DEF Position
      <4> HIDE DEF lo, first, from
      <4> QED BY <1>5, <1>7, <3>2, <4>1
    <3>4. QueryTerms(s, hd(g))[x] = << <<s, Position(s, x)>>, hd(g), <<s, Position(s, x)>> >>
      <4> HIDE DEF hd
      <4> QED BY <3>1, <3>2 DEF QueryTerms
    <3> HIDE DEF hd, from, lo
    <3> QED BY <3>2, <3>3, <3>4
  <2>3. ss[g] = NonEmpty(DkvTiles(s, n, hd(g)))
    OBVIOUS
  <2>4. OfHead(g) = [i \in 1 .. PQ[s] - lo |-> << <<s, from + i - 1>>, hd(g), <<s, from + i - 1>> >>]
    <3> HIDE DEF lo, from
    <3> QED BY <1>7
  <2> HIDE DEF ss, hd, OfHead, lo, from
  <2> QED BY <2>1, <2>2, <2>3, <2>4
<1> HIDE DEF S
<1>10. FlattenSeq(FlattenSeq(ss)) = FlattenSeq([g \in 1 .. Group |-> OfHead(g)])
  <2> HIDE DEF ss, OfHead
  <2>1. FlattenSeq(FlattenSeq(ss)) = FlattenSeq([g \in 1 .. Group |-> FlattenSeq(ss[g])])
    BY ONLY <1>6, <1>8, FlatFlat
  <2>2. [g \in 1 .. Group |-> FlattenSeq(ss[g])] = [g \in 1 .. Group |-> OfHead(g)]
    BY <1>9
  <2> QED BY <2>1, <2>2
<1>11. ASSUME NEW d \in {"dk", "dv"}, NEW v, v = Load(mem, <<d, Before(PK, s - 1) + n, h>>)
       PROVE  v[1] = <<s, n>> /\ FlattenSeq(v[2]) = FlattenSeq([g \in 1 .. Group |-> OfHead(g)])
  <2>0. DkvMade(mem)
    BY <1>1 DEF PackedValues
  <2>1. v = DkvTerm(s, n, h)
    BY <1>4, <1>11, <2>0 DEF DkvMade, KRow
  <2>2. v[1] = <<s, n>> /\ v[2] = FlattenSeq(ss)
    BY <2>1 DEF DkvTerm
  <2> HIDE DEF ss, OfHead
  <2> QED BY <1>10, <2>2
<1> QED BY <1>3, <1>6, <1>11

LEMMA ValuesMeanGrad == Stream /\ PackedValues => GradExact
<1> SUFFICES ASSUME Stream, PackedValues PROVE GradExact
  OBVIOUS
<1> QED BY ValuesMeanDq, ValuesMeanDkv DEF GradExact

(* The backward pass of packed attention: for every packing, number of     *)
(* heads and tile, and in whatever order the programs run, each query gets *)
(* the gradient over exactly the keys it attended to, with its own         *)
(* log-sum-exp, and each key that of exactly the queries of its group that *)
(* attended to it, each once and in order (GradExact).                     *)
THEOREM GradIsExact == Spec => []GradExact
<1>1. Init => Stream /\ PackedValues
  BY StreamInit, PackedInit
<1>2. Stream /\ PackedValues /\ [Next]_vars => (Stream /\ PackedValues)'
  BY StreamStep, PackedStep
<1>3. Stream /\ PackedValues => GradExact
  BY ValuesMeanGrad
<1> QED BY <1>1, <1>2, <1>3, PTL DEF Spec

-----------------------------------------------------------------------------
\* Paged attention: an entry of a batch and the blocks it holds.
Entry(e) ==
  /\ e.start \in Nat /\ e.n \in Nat /\ Len(e.blocks) \in Nat /\ e.start + e.n <= Len(e.blocks) * PageSize
  /\ DOMAIN e.blocks = 1 .. Len(e.blocks) /\ Len(e.blocks) <= MaxBlocksPerReq
  /\ \A i \in 1 .. Len(e.blocks) : e.blocks[i] \in Nat /\ e.blocks[i] < MaxBlocks
  /\ \A i, k \in 1 .. Len(e.blocks) : e.blocks[i] = e.blocks[k] => i = k

\* The entries of a valid batch.
LEMMA EntryIs ==
  ASSUME NEW b, ValidBatch(b), NEW s \in 1 .. Len(b)
  PROVE  /\ Entry(b[s])
         /\ \A t \in 1 .. Len(b) : t # s =>
              \A i \in 1 .. Len(b[s].blocks), k \in 1 .. Len(b[t].blocks) : b[s].blocks[i] # b[t].blocks[k]
<1>1. Len(b) \in Nat /\ DOMAIN b = 1 .. Len(b)
  BY DEF ValidBatch
<1>2. \A t \in 1 .. Len(b) : b[t].blocks \in Seq(0 .. MaxBlocks - 1)
  BY <1>1 DEF ValidBatch
<1>3. \A t \in 1 .. Len(b) : Len(b[t].blocks) \in Nat /\ DOMAIN b[t].blocks = 1 .. Len(b[t].blocks)
  BY <1>2
<1>4. \A i \in 1 .. Len(b[s].blocks) : b[s].blocks[i] \in Nat /\ b[s].blocks[i] < MaxBlocks
  <2>1. MaxBlocks \in Nat
    BY CacheAssumption
  <2>2. b[s].blocks \in Seq(0 .. MaxBlocks - 1)
    BY <1>2
  <2>3. \A i \in 1 .. Len(b[s].blocks) : b[s].blocks[i] \in 0 .. MaxBlocks - 1
    BY ONLY <2>2, ElementOfSeq
  <2> QED BY <2>1, <2>3
<1>5. /\ b[s].start \in Nat /\ b[s].n \in Nat /\ b[s].start + b[s].n <= Len(b[s].blocks) * PageSize
      /\ Len(b[s].blocks) <= MaxBlocksPerReq
      /\ \A i, k \in DOMAIN b[s].blocks : b[s].blocks[i] = b[s].blocks[k] => i = k
  BY <1>1 DEF ValidBatch
<1>6. Entry(b[s])
  BY <1>3, <1>4, <1>5 DEF Entry
<1>7. \A t \in DOMAIN b \ {s} : \A i \in DOMAIN b[s].blocks, k \in DOMAIN b[t].blocks :
        b[s].blocks[i] # b[t].blocks[k]
  BY <1>1 DEF ValidBatch
<1> QED BY <1>1, <1>3, <1>6, <1>7

\* Query lengths are natural numbers.
LEMMA BatchLens ==
  ASSUME NEW b, ValidBatch(b)
  PROVE  /\ Len(b) \in Nat /\ QLens(b) \in Seq(Nat) /\ Len(QLens(b)) = Len(b)
         /\ \A s \in 1 .. Len(b) : QLens(b)[s] = b[s].n /\ b[s].n \in Nat
         /\ Total(b) = Before(QLens(b), Len(b)) /\ Total(b) \in Nat
         /\ \A s \in 0 .. Len(b) : Before(QLens(b), s) \in Nat
<1>1. Len(b) \in Nat /\ DOMAIN b = 1 .. Len(b)
  BY DEF ValidBatch
<1>2. \A s \in 1 .. Len(b) : b[s].n \in Nat
  BY <1>1, EntryIs DEF Entry
<1>3. QLens(b) = [s \in 1 .. Len(b) |-> b[s].n]
  BY <1>1 DEF QLens
<1>4. QLens(b) \in Seq(Nat) /\ Len(QLens(b)) = Len(b)
  BY <1>1, <1>2, <1>3
<1>5. \A s \in 0 .. Len(b) : Before(QLens(b), s) \in Nat
  BY <1>4, BeforeStep
<1> QED BY <1>1, <1>2, <1>3, <1>4, <1>5 DEF Total

\* Token x of the chunk of entry s, and its row.
IsToken(b, s, x) == s \in 1 .. Len(b) /\ x \in 0 .. b[s].n - 1
RowOf(b, s, x) == Before(QLens(b), s - 1) + x

\* The row of a token leads back to it.
LEMMA TokenIs ==
  ASSUME NEW b, ValidBatch(b), NEW s, NEW x, IsToken(b, s, x)
  PROVE  /\ RowOf(b, s, x) \in 0 .. Total(b) - 1
         /\ TokenAt(b, RowOf(b, s, x)) = << b[s], b[s].start + x >>
<1> DEFINE L == QLens(b)
           r == RowOf(b, s, x)
           P(j) == Before(L, j - 1) <= r /\ r < Before(L, j)
<1>1. Len(b) \in Nat /\ L \in Seq(Nat) /\ Len(L) = Len(b) /\ Total(b) = Before(L, Len(b)) /\ Total(b) \in Nat
  BY BatchLens
<1>2. s \in 1 .. Len(b) /\ x \in 0 .. b[s].n - 1 /\ L[s] = b[s].n /\ b[s].n \in Nat /\ b[s].start \in Nat
  <2>1. s \in 1 .. Len(b) /\ x \in 0 .. b[s].n - 1
    BY DEF IsToken
  <2> QED BY <2>1, BatchLens, EntryIs DEF Entry
<1>3. DOMAIN b = 1 .. Len(b)
  BY DEF ValidBatch
<1> HIDE DEF L
<1>4. Before(L, s - 1) \in Nat /\ Before(L, s) \in Nat /\ Before(L, s) = Before(L, s - 1) + b[s].n
  <2>1. s \in 1 .. Len(L) /\ s \in 0 .. Len(L) /\ s - 1 \in 0 .. Len(L)
    BY <1>1, <1>2
  <2> QED BY ONLY <1>1, <1>2, <2>1, BeforeStep
<1>5. r = Before(L, s - 1) + x
  BY DEF RowOf, L
<1>6. r \in Nat /\ P(s)
  <2> HIDE DEF r
  <2> QED BY <1>2, <1>4, <1>5
<1>7. Before(L, s) <= Total(b)
  <2>1. s \in 0 .. Len(L) /\ Len(b) \in 0 .. Len(L) /\ s <= Len(b)
    BY <1>1, <1>2
  <2> QED BY ONLY <1>1, <2>1, BeforeMono
<1>8. r \in 0 .. Total(b) - 1
  <2> HIDE DEF r
  <2> QED BY <1>1, <1>4, <1>6, <1>7
<1>9. \A j \in DOMAIN b : P(j) => j = s
  <2> SUFFICES ASSUME NEW j \in DOMAIN b, P(j) PROVE j = s
    OBVIOUS
  <2>1. j \in 1 .. Len(L) /\ s \in 1 .. Len(L) /\ r \in Int
    BY <1>1, <1>2, <1>3, <1>6
  <2> HIDE DEF r
  <2> QED BY ONLY <1>1, <1>6, <2>1, P(j), RowOfOne
<1>10. (CHOOSE j \in DOMAIN b : P(j)) = s
  <2> HIDE DEF P
  <2> QED BY <1>2, <1>3, <1>6, <1>9
<1>11. TokenAt(b, r) = << b[s], b[s].start + (r - Before(L, s - 1)) >>
  <2>1. (CHOOSE j \in DOMAIN b : Before(QLens(b), j - 1) <= r /\ r < Before(QLens(b), j)) = s
    BY <1>10 DEF L
  <2> QED BY <2>1 DEF TokenAt, L
<1>12. r - Before(L, s - 1) = x
  <2> HIDE DEF r
  <2> QED BY <1>2, <1>4, <1>5
<1> QED BY <1>8, <1>11, <1>12

\* Every row is that of a token.
LEMMA TokenOf ==
  ASSUME NEW b, ValidBatch(b), NEW r \in 0 .. Total(b) - 1
  PROVE  \E s, x : IsToken(b, s, x) /\ r = RowOf(b, s, x)
<1> DEFINE L == QLens(b)
<1>1. Len(b) \in Nat /\ L \in Seq(Nat) /\ Len(L) = Len(b) /\ Total(b) = Before(L, Len(b)) /\ Total(b) \in Nat
  BY BatchLens
<1> HIDE DEF L
<1>2. PICK s \in 1 .. Len(L) : Before(L, s - 1) <= r /\ r < Before(L, s)
  BY <1>1, RowOfSome
<1>3. Before(L, s - 1) \in Nat /\ Before(L, s) \in Nat /\ Before(L, s) = Before(L, s - 1) + b[s].n /\ b[s].n \in Nat
  <2>1. s \in 0 .. Len(L) /\ s - 1 \in 0 .. Len(L) /\ s \in 1 .. Len(b)
    BY <1>1
  <2>2. Before(L, s - 1) \in Nat /\ Before(L, s) \in Nat /\ Before(L, s) = Before(L, s - 1) + L[s]
    BY ONLY <1>1, <1>2, <2>1, BeforeStep
  <2>3. L[s] = b[s].n /\ b[s].n \in Nat
    BY <2>1, BatchLens DEF L
  <2> QED BY <2>2, <2>3
<1>4. PICK x : x = r - Before(L, s - 1)
  OBVIOUS
<1>5. x \in 0 .. b[s].n - 1 /\ r = Before(L, s - 1) + x
  BY <1>1, <1>2, <1>3, <1>4
<1>6. IsToken(b, s, x) /\ r = RowOf(b, s, x)
  BY <1>1, <1>5 DEF IsToken, RowOf, L
<1> QED BY <1>6

\* The page of a position and the slot it is stored in.
LEMMA SlotIs ==
  ASSUME NEW e, Entry(e), NEW p \in 0 .. Len(e.blocks) * PageSize - 1
  PROVE  /\ p \div PageSize \in 0 .. Len(e.blocks) - 1 /\ p % PageSize \in 0 .. PageSize - 1
         /\ p = (p \div PageSize) * PageSize + (p % PageSize)
         /\ SlotOf(e, p) \in 0 .. MaxBlocks * PageSize - 1
         /\ SlotOf(e, p) \div PageSize = e.blocks[(p \div PageSize) + 1]
         /\ SlotOf(e, p) % PageSize = p % PageSize
<1> DEFINE P == PageSize
           L == Len(e.blocks)
           q == p \div P
           r == p % P
<1>1. P \in Nat \ {0} /\ P \in Nat /\ L \in Nat /\ MaxBlocks \in Nat
  BY CacheAssumption DEF Entry
<1>2. L * P \in Nat
  <2> HIDE DEF P, L
  <2> QED BY ONLY <1>1, MulSucc
<1>3. p \in Nat /\ p < L * P
  <2> HIDE DEF P, L
  <2>1. p \in 0 .. L * P - 1
    BY DEF P, L
  <2> QED BY ONLY <1>2, <2>1
<1>4. q \in Nat /\ r \in Nat /\ r < P /\ p = q * P + r
  <2> HIDE DEF P
  <2> QED BY ONLY <1>1, <1>3, DivMod DEF q, r
<1> HIDE DEF P, L, q, r
<1>5. q < L
  <2> SUFFICES ASSUME L <= q PROVE FALSE
    BY <1>1, <1>4
  <2>1. L * P \in Nat /\ q * P \in Nat /\ L * P <= q * P
    BY ONLY <1>1, <1>4, L <= q, MulMono
  <2> QED BY ONLY <1>3, <1>4, <2>1
<1> DEFINE blk == e.blocks[q + 1]
<1>6. blk \in Nat /\ blk < MaxBlocks
  <2>1. q + 1 \in 1 .. L
    BY <1>1, <1>4, <1>5
  <2>2. \A i \in 1 .. L : e.blocks[i] \in Nat /\ e.blocks[i] < MaxBlocks
    BY DEF Entry, L
  <2> QED BY <2>1, <2>2
<1>7. SlotOf(e, p) = blk * P + r
  BY DEF SlotOf, P, q, r
<1> HIDE DEF blk
<1>8. blk * P \in Nat /\ (blk + 1) * P = blk * P + P /\ (blk + 1) * P <= MaxBlocks * P /\ MaxBlocks * P \in Nat
  <2>1. blk * P \in Nat /\ (blk + 1) * P = blk * P + P
    BY ONLY <1>1, <1>6, MulSucc
  <2>2. blk + 1 \in Nat /\ blk + 1 <= MaxBlocks
    BY <1>1, <1>6
  <2>3. (blk + 1) * P <= MaxBlocks * P /\ MaxBlocks * P \in Nat
    BY ONLY <1>1, <2>2, MulMono
  <2> QED BY ONLY <2>1, <2>3
<1> DEFINE slot == SlotOf(e, p)
<1>9. slot \in 0 .. MaxBlocks * P - 1
  <2> HIDE DEF slot
  <2>1. slot = blk * P + r
    BY <1>7 DEF slot
  <2> QED BY ONLY <2>1, <1>1, <1>4, <1>8
<1>10. slot \div P = blk /\ slot % P = r
  <2> HIDE DEF slot
  <2>1. slot = blk * P + r
    BY <1>7 DEF slot
  <2>2. slot \in Nat
    BY ONLY <2>1, <1>4, <1>8
  <2> QED BY ONLY <2>1, <2>2, <1>1, <1>4, <1>6, DivUnique
<1>11. q \in 0 .. L - 1 /\ r \in 0 .. P - 1
  BY ONLY <1>1, <1>4, <1>5
<1> QED BY <1>4, <1>9, <1>10, <1>11 DEF P, L, q, r, blk

\* The positions an entry has blocks for, those of its chunk among them.
Held(e) == 0 .. Len(e.blocks) * PageSize - 1
LEMMA ChunkHeld ==
  ASSUME NEW e, Entry(e)
  PROVE  /\ \A p \in 0 .. e.start + e.n - 1 : p \in Held(e)
         /\ \A x \in 0 .. e.n - 1 : e.start + x \in 0 .. e.start + e.n - 1 /\ e.start + x \in Held(e)
         /\ Len(e.blocks) * PageSize \in Nat
<1>1. Len(e.blocks) * PageSize \in Nat
  <2>1. Len(e.blocks) \in Nat /\ PageSize \in Nat
    BY CacheAssumption DEF Entry
  <2> QED BY ONLY <2>1, MulSucc
<1> DEFINE z == Len(e.blocks) * PageSize
<1>2. e.start \in Nat /\ e.n \in Nat /\ e.start + e.n <= z
  BY DEF Entry
<1>3. Held(e) = 0 .. z - 1
  BY DEF Held
<1> HIDE DEF z
<1>4. z \in Nat
  BY <1>1 DEF z
<1> QED BY <1>1, <1>2, <1>3, <1>4

\* Two positions of a batch never share a slot.
LEMMA SlotsApart ==
  ASSUME NEW b, ValidBatch(b), NEW s \in 1 .. Len(b), NEW t \in 1 .. Len(b),
         NEW p \in Held(b[s]), NEW q \in Held(b[t]), SlotOf(b[s], p) = SlotOf(b[t], q)
  PROVE  s = t /\ p = q
<1> DEFINE e == b[s]
           f == b[t]
           i == (p \div PageSize) + 1
           k == (q \div PageSize) + 1
<1>1. Entry(e) /\ Entry(f)
  BY EntryIs
<1> HIDE DEF e, f
<1>2. p \in Held(e) /\ q \in Held(f) /\ SlotOf(e, p) = SlotOf(f, q)
  BY DEF e, f
<1>3. /\ p \div PageSize \in 0 .. Len(e.blocks) - 1
      /\ p = (p \div PageSize) * PageSize + (p % PageSize)
      /\ SlotOf(e, p) \div PageSize = e.blocks[i] /\ SlotOf(e, p) % PageSize = p % PageSize
  BY <1>1, <1>2, SlotIs DEF Held
<1>4. /\ q \div PageSize \in 0 .. Len(f.blocks) - 1
      /\ q = (q \div PageSize) * PageSize + (q % PageSize)
      /\ SlotOf(f, q) \div PageSize = f.blocks[k] /\ SlotOf(f, q) % PageSize = q % PageSize
  BY <1>1, <1>2, SlotIs DEF Held
<1>5. e.blocks[i] = f.blocks[k] /\ p % PageSize = q % PageSize
  BY ONLY <1>2, <1>3, <1>4
<1>6. i \in 1 .. Len(e.blocks) /\ k \in 1 .. Len(f.blocks)
  <2>1. Len(e.blocks) \in Nat /\ Len(f.blocks) \in Nat
    BY <1>1 DEF Entry
  <2> QED BY <1>3, <1>4, <2>1
<1>7. s = t
  <2> SUFFICES ASSUME t # s PROVE FALSE
    OBVIOUS
  <2>1. \A u \in 1 .. Len(e.blocks), v \in 1 .. Len(f.blocks) : e.blocks[u] # f.blocks[v]
    BY EntryIs DEF e, f
  <2> HIDE DEF i, k
  <2> QED BY ONLY <2>1, <1>5, <1>6
<1>8. i = k
  <2>1. \A u, v \in 1 .. Len(e.blocks) : e.blocks[u] = e.blocks[v] => u = v
    BY <1>1 DEF Entry
  <2>2. e = f
    BY <1>7 DEF e, f
  <2> HIDE DEF i, k
  <2> QED BY ONLY <2>1, <2>2, <1>5, <1>6
<1>9. p \div PageSize = q \div PageSize
  <2>1. p \div PageSize \in Int /\ q \div PageSize \in Int
    BY <1>3, <1>4
  <2> QED BY <1>8, <2>1
<1> QED BY <1>3, <1>4, <1>5, <1>7, <1>9

-----------------------------------------------------------------------------
\* What the metadata of a batch says, and what it says of padded rows.
BlockOf(e, j) == IF j < Len(e.blocks) THEN e.blocks[j + 1] ELSE -1
Meta(b, m) ==
  /\ \A s, x : IsToken(b, s, x) =>
       /\ Load(m, <<"slot", RowOf(b, s, x)>>) = SlotOf(b[s], b[s].start + x)
       /\ Load(m, <<"tok", RowOf(b, s, x)>>) = << b[s].req, b[s].start + x >>
  /\ \A s \in 1 .. Len(b) :
       /\ Load(m, <<"ctx", s - 1>>) = b[s].start + b[s].n
       /\ \A j \in 0 .. MaxBlocksPerReq - 1 : Load(m, <<"bt", s - 1, j>>) = BlockOf(b[s], j)
  /\ \A s \in 0 .. Len(b) : Load(m, <<"qsl", s>>) = Before(QLens(b), s)
Padding(b, seqs, tokens, m) ==
  /\ \A r \in Total(b) .. tokens - 1 : Load(m, <<"slot", r>>) = -1
  /\ \A s \in Len(b) .. seqs - 1 : Load(m, <<"ctx", s>>) = 0

\* The tensors of the metadata.
MetaTensors == {"slot", "tok", "ctx", "bt", "qsl"}

\* v is the one value stored in cell c.
Puts(S, c, v) == <<c, v>> \in S /\ \A t \in S : t[1] = c => t[2] = v

\* What overrides, and what is not overridden.
LEMMA OverPuts ==
  ASSUME NEW A, NEW B, NEW c, NEW v
  PROVE  /\ Puts(B, c, v) => Puts(Over(A, B), c, v)
         /\ Puts(A, c, v) /\ (\A u \in B : u[1] # c) => Puts(Over(A, B), c, v)
         /\ (\A u \in A : u[1] # c) /\ (\A u \in B : u[1] # c) => \A u \in Over(A, B) : u[1] # c
<1>1. ASSUME Puts(B, c, v) PROVE Puts(Over(A, B), c, v)
  <2>1. << c, v >> \in B /\ << c, v >>[1] = c
    BY <1>1 DEF Puts
  <2> QED BY <1>1, <2>1 DEF Puts, Over
<1>2. ASSUME Puts(A, c, v), \A u \in B : u[1] # c PROVE Puts(Over(A, B), c, v)
  <2>1. << c, v >> \in A /\ << c, v >>[1] = c
    BY <1>2 DEF Puts
  <2>2. << c, v >> \in Over(A, B)
    BY <1>2, <2>1 DEF Over
  <2> QED BY <1>2, <2>2 DEF Puts, Over
<1>3. ASSUME \A u \in A : u[1] # c, \A u \in B : u[1] # c PROVE \A u \in Over(A, B) : u[1] # c
  BY <1>3 DEF Over
<1> QED BY <1>1, <1>2, <1>3

\* A store of the eager metadata.
LEMMA GenCtxIs ==
  ASSUME NEW b, ValidBatch(b), NEW t
  PROVE  t \in _prepare_gen_ctx(b) <=>
           \/ \E s, x : /\ IsToken(b, s, x)
                        /\ \/ t = << <<"slot", RowOf(b, s, x)>>, SlotOf(b[s], b[s].start + x) >>
                           \/ t = << <<"tok", RowOf(b, s, x)>>, << b[s].req, b[s].start + x >> >>
           \/ \E s \in 1 .. Len(b) : t = << <<"ctx", s - 1>>, b[s].start + b[s].n >>
           \/ \E s \in 1 .. Len(b) : \E j \in 0 .. MaxBlocksPerReq - 1 : t = << <<"bt", s - 1, j>>, BlockOf(b[s], j) >>
           \/ \E s \in 0 .. Len(b) : t = << <<"qsl", s>>, Before(QLens(b), s) >>
<1> DEFINE Toks == 0 .. Total(b) - 1
           Seqs == 0 .. Len(b) - 1
           A == \E r \in Toks : \/ t = << <<"slot", r>>, SlotOf(TokenAt(b, r)[1], TokenAt(b, r)[2]) >>
                                \/ t = << <<"tok", r>>, << TokenAt(b, r)[1].req, TokenAt(b, r)[2] >> >>
           B == \E s, x : /\ IsToken(b, s, x)
                          /\ \/ t = << <<"slot", RowOf(b, s, x)>>, SlotOf(b[s], b[s].start + x) >>
                             \/ t = << <<"tok", RowOf(b, s, x)>>, << b[s].req, b[s].start + x >> >>
           C0 == \E s \in Seqs : t = << <<"ctx", s>>, b[s + 1].start + b[s + 1].n >>
           C1 == \E s \in 1 .. Len(b) : t = << <<"ctx", s - 1>>, b[s].start + b[s].n >>
           D0 == \E s \in Seqs : \E j \in 0 .. MaxBlocksPerReq - 1 : t = << <<"bt", s, j>>, BlockOf(b[s + 1], j) >>
           D1 == \E s \in 1 .. Len(b) : \E j \in 0 .. MaxBlocksPerReq - 1 : t = << <<"bt", s - 1, j>>, BlockOf(b[s], j) >>
           Q == \E s \in 0 .. Len(b) : t = << <<"qsl", s>>, Before(QLens(b), s) >>
<1>1. t \in _prepare_gen_ctx(b) <=> A \/ C0 \/ D0 \/ Q
  BY DEF _prepare_gen_ctx, BlockOf
<1>2. A => B
  <2> SUFFICES ASSUME NEW r \in Toks, \/ t = << <<"slot", r>>, SlotOf(TokenAt(b, r)[1], TokenAt(b, r)[2]) >>
                                      \/ t = << <<"tok", r>>, << TokenAt(b, r)[1].req, TokenAt(b, r)[2] >> >>
               PROVE  B
    OBVIOUS
  <2>1. PICK s, x : IsToken(b, s, x) /\ r = RowOf(b, s, x)
    BY TokenOf
  <2>2. TokenAt(b, r) = << b[s], b[s].start + x >>
    BY <2>1, TokenIs
  <2>3. TokenAt(b, r)[1] = b[s] /\ TokenAt(b, r)[2] = b[s].start + x
    BY <2>2
  <2> QED BY <2>1, <2>3
<1>3. B => A
  <2> SUFFICES ASSUME NEW s, NEW x, IsToken(b, s, x),
                      \/ t = << <<"slot", RowOf(b, s, x)>>, SlotOf(b[s], b[s].start + x) >>
                      \/ t = << <<"tok", RowOf(b, s, x)>>, << b[s].req, b[s].start + x >> >>
               PROVE  A
    OBVIOUS
  <2>1. RowOf(b, s, x) \in Toks /\ TokenAt(b, RowOf(b, s, x)) = << b[s], b[s].start + x >>
    BY TokenIs
  <2>2. TokenAt(b, RowOf(b, s, x))[1] = b[s] /\ TokenAt(b, RowOf(b, s, x))[2] = b[s].start + x
    BY <2>1
  <2> QED BY <2>1, <2>2
<1>4. Len(b) \in Nat
  BY DEF ValidBatch
<1>5. \A s \in Seqs : s + 1 \in 1 .. Len(b) /\ s + 1 - 1 = s
  BY <1>4
<1>6. \A s \in 1 .. Len(b) : s - 1 \in Seqs /\ s - 1 + 1 = s
  BY <1>4
<1>7. C0 <=> C1
  <2> HIDE DEF Seqs
  <2>1. C0 => C1
    <3> SUFFICES ASSUME NEW s \in Seqs, t = << <<"ctx", s>>, b[s + 1].start + b[s + 1].n >> PROVE C1
      OBVIOUS
    <3>1. PICK u : u = s + 1
      OBVIOUS
    <3>2. u \in 1 .. Len(b) /\ u - 1 = s
      BY ONLY <1>4, <3>1, s \in Seqs DEF Seqs
    <3>3. t = << <<"ctx", u - 1>>, b[u].start + b[u].n >>
      BY <3>1, <3>2
    <3> QED BY <3>2, <3>3
  <2>2. C1 => C0
    <3> SUFFICES ASSUME NEW s \in 1 .. Len(b), t = << <<"ctx", s - 1>>, b[s].start + b[s].n >> PROVE C0
      OBVIOUS
    <3>1. PICK u : u = s - 1
      OBVIOUS
    <3>2. u \in Seqs /\ u + 1 = s
      BY <1>6, <3>1
    <3>3. t = << <<"ctx", u>>, b[u + 1].start + b[u + 1].n >>
      BY <3>1, <3>2
    <3> QED BY <3>2, <3>3
  <2> QED BY <2>1, <2>2
<1>8. D0 <=> D1
  <2> HIDE DEF Seqs
  <2>1. D0 => D1
    <3> SUFFICES ASSUME NEW s \in Seqs, NEW j \in 0 .. MaxBlocksPerReq - 1, t = << <<"bt", s, j>>, BlockOf(b[s + 1], j) >>
                 PROVE  D1
      OBVIOUS
    <3>1. PICK u : u = s + 1
      OBVIOUS
    <3>2. u \in 1 .. Len(b) /\ u - 1 = s
      BY ONLY <1>4, <3>1, s \in Seqs DEF Seqs
    <3>3. t = << <<"bt", u - 1, j>>, BlockOf(b[u], j) >>
      BY <3>1, <3>2
    <3> QED BY <3>2, <3>3
  <2>2. D1 => D0
    <3> SUFFICES ASSUME NEW s \in 1 .. Len(b), NEW j \in 0 .. MaxBlocksPerReq - 1, t = << <<"bt", s - 1, j>>, BlockOf(b[s], j) >>
                 PROVE  D0
      OBVIOUS
    <3>1. PICK u : u = s - 1
      OBVIOUS
    <3>2. u \in Seqs /\ u + 1 = s
      BY <1>6, <3>1
    <3>3. t = << <<"bt", u, j>>, BlockOf(b[u + 1], j) >>
      BY <3>1, <3>2
    <3> QED BY <3>2, <3>3
  <2> QED BY <2>1, <2>2
<1> HIDE DEF A, B, C0, C1, D0, D1, Q
<1>9. t \in _prepare_gen_ctx(b) <=> B \/ C1 \/ D1 \/ Q
  BY <1>1, <1>2, <1>3, <1>7, <1>8
<1> QED BY <1>9 DEF B, C1, D1, Q

\* The rows of a batch do not meet.
LEMMA TokensApart ==
  ASSUME NEW b, ValidBatch(b), NEW s, NEW x, IsToken(b, s, x), NEW t, NEW y, IsToken(b, t, y),
         RowOf(b, s, x) = RowOf(b, t, y)
  PROVE  s = t /\ x = y
<1> DEFINE L == QLens(b)
<1>1. L \in Seq(Nat) /\ Len(L) = Len(b) /\ \A u \in 1 .. Len(b) : L[u] = b[u].n
  BY BatchLens
<1>2. s \in 1 .. Len(L) /\ x \in 0 .. L[s] - 1 /\ t \in 1 .. Len(L) /\ y \in 0 .. L[t] - 1
  BY <1>1 DEF IsToken
<1>3. Before(L, s - 1) + x = Before(L, t - 1) + y
  BY DEF RowOf
<1> HIDE DEF L
<1> QED BY ONLY <1>1, <1>2, <1>3, RowsApart

\* A store that puts all of the metadata.
PutsMeta(b, S) ==
  /\ \A s, x : IsToken(b, s, x) =>
       /\ Puts(S, <<"slot", RowOf(b, s, x)>>, SlotOf(b[s], b[s].start + x))
       /\ Puts(S, <<"tok", RowOf(b, s, x)>>, << b[s].req, b[s].start + x >>)
  /\ \A s \in 1 .. Len(b) :
       /\ Puts(S, <<"ctx", s - 1>>, b[s].start + b[s].n)
       /\ \A j \in 0 .. MaxBlocksPerReq - 1 : Puts(S, <<"bt", s - 1, j>>, BlockOf(b[s], j))
  /\ \A s \in 0 .. Len(b) : Puts(S, <<"qsl", s>>, Before(QLens(b), s))
PutsPadding(b, seqs, tokens, S) ==
  /\ \A r \in Total(b) .. tokens - 1 : Puts(S, <<"slot", r>>, -1)
  /\ \A s \in Len(b) .. seqs - 1 : Puts(S, <<"ctx", s>>, 0)

\* What the eager metadata puts where.
LEMMA GenCtxPuts ==
  ASSUME NEW b, ValidBatch(b)
  PROVE  PutsMeta(b, _prepare_gen_ctx(b))
<1> DEFINE S == _prepare_gen_ctx(b)
<1>1. Len(b) \in Nat
  BY DEF ValidBatch
<1>2. ASSUME NEW s, NEW x, IsToken(b, s, x)
      PROVE  Puts(S, <<"slot", RowOf(b, s, x)>>, SlotOf(b[s], b[s].start + x))
  <2>1. << <<"slot", RowOf(b, s, x)>>, SlotOf(b[s], b[s].start + x) >> \in S
    BY <1>2, GenCtxIs
  <2>2. ASSUME NEW t \in S, t[1] = <<"slot", RowOf(b, s, x)>> PROVE t[2] = SlotOf(b[s], b[s].start + x)
    <3>1. PICK u, y : IsToken(b, u, y) /\ t = << <<"slot", RowOf(b, u, y)>>, SlotOf(b[u], b[u].start + y) >>
      BY <2>2, GenCtxIs
    <3>2. RowOf(b, u, y) = RowOf(b, s, x)
      BY <2>2, <3>1
    <3>3. u = s /\ y = x
      BY <1>2, <3>1, <3>2, TokensApart
    <3> QED BY <3>1, <3>3
  <2> QED BY <2>1, <2>2 DEF Puts
<1>3. ASSUME NEW s, NEW x, IsToken(b, s, x)
      PROVE  Puts(S, <<"tok", RowOf(b, s, x)>>, << b[s].req, b[s].start + x >>)
  <2>1. << <<"tok", RowOf(b, s, x)>>, << b[s].req, b[s].start + x >> >> \in S
    BY <1>3, GenCtxIs
  <2>2. ASSUME NEW t \in S, t[1] = <<"tok", RowOf(b, s, x)>> PROVE t[2] = << b[s].req, b[s].start + x >>
    <3>1. PICK u, y : IsToken(b, u, y) /\ t = << <<"tok", RowOf(b, u, y)>>, << b[u].req, b[u].start + y >> >>
      BY <2>2, GenCtxIs
    <3>2. RowOf(b, u, y) = RowOf(b, s, x)
      BY <2>2, <3>1
    <3>3. u = s /\ y = x
      BY <1>3, <3>1, <3>2, TokensApart
    <3> QED BY <3>1, <3>3
  <2> QED BY <2>1, <2>2 DEF Puts
<1>4. ASSUME NEW s \in 1 .. Len(b) PROVE Puts(S, <<"ctx", s - 1>>, b[s].start + b[s].n)
  <2>1. << <<"ctx", s - 1>>, b[s].start + b[s].n >> \in S
    BY GenCtxIs
  <2>2. ASSUME NEW t \in S, t[1] = <<"ctx", s - 1>> PROVE t[2] = b[s].start + b[s].n
    <3>1. PICK u \in 1 .. Len(b) : t = << <<"ctx", u - 1>>, b[u].start + b[u].n >>
      BY <2>2, GenCtxIs
    <3>2. u - 1 = s - 1
      BY <2>2, <3>1
    <3>3. u = s
      BY <1>1, <3>2
    <3> QED BY <3>1, <3>3
  <2> QED BY <2>1, <2>2 DEF Puts
<1>5. ASSUME NEW s \in 1 .. Len(b), NEW j \in 0 .. MaxBlocksPerReq - 1
      PROVE  Puts(S, <<"bt", s - 1, j>>, BlockOf(b[s], j))
  <2>1. << <<"bt", s - 1, j>>, BlockOf(b[s], j) >> \in S
    BY GenCtxIs
  <2>2. ASSUME NEW t \in S, t[1] = <<"bt", s - 1, j>> PROVE t[2] = BlockOf(b[s], j)
    <3>1. PICK u \in 1 .. Len(b), k \in 0 .. MaxBlocksPerReq - 1 : t = << <<"bt", u - 1, k>>, BlockOf(b[u], k) >>
      BY <2>2, GenCtxIs
    <3>2. u - 1 = s - 1 /\ k = j
      BY <2>2, <3>1
    <3>3. u = s
      BY <1>1, <3>2
    <3> QED BY <3>1, <3>2, <3>3
  <2> QED BY <2>1, <2>2 DEF Puts
<1>6. ASSUME NEW s \in 0 .. Len(b) PROVE Puts(S, <<"qsl", s>>, Before(QLens(b), s))
  <2>1. << <<"qsl", s>>, Before(QLens(b), s) >> \in S
    BY GenCtxIs
  <2>2. ASSUME NEW t \in S, t[1] = <<"qsl", s>> PROVE t[2] = Before(QLens(b), s)
    <3>1. PICK u \in 0 .. Len(b) : t = << <<"qsl", u>>, Before(QLens(b), u) >>
      BY <2>2, GenCtxIs
    <3>2. u = s
      BY <2>2, <3>1
    <3> QED BY <3>1, <3>2
  <2> QED BY <2>1, <2>2 DEF Puts
<1> HIDE DEF S
<1> QED BY ONLY <1>2, <1>3, <1>4, <1>5, <1>6 DEF PutsMeta, S

\* What is put is then read.
LEMMA PutsRead ==
  ASSUME NEW b, NEW S, NEW m, NEW n, n = Write(S, m)
  PROVE  /\ PutsMeta(b, S) => Meta(b, n)
         /\ \A seqs, tokens : PutsPadding(b, seqs, tokens, S) => Padding(b, seqs, tokens, n)
<1>1. \A c, v : Puts(S, c, v) => Load(n, c) = v
  BY WriteStored DEF Puts
<1>2. ASSUME PutsMeta(b, S) PROVE Meta(b, n)
  <2>1. \A s, x : IsToken(b, s, x) =>
          /\ Load(n, <<"slot", RowOf(b, s, x)>>) = SlotOf(b[s], b[s].start + x)
          /\ Load(n, <<"tok", RowOf(b, s, x)>>) = << b[s].req, b[s].start + x >>
    BY ONLY <1>1, <1>2 DEF PutsMeta
  <2>2. \A s \in 1 .. Len(b) :
          /\ Load(n, <<"ctx", s - 1>>) = b[s].start + b[s].n
          /\ \A j \in 0 .. MaxBlocksPerReq - 1 : Load(n, <<"bt", s - 1, j>>) = BlockOf(b[s], j)
    BY ONLY <1>1, <1>2 DEF PutsMeta
  <2>3. \A s \in 0 .. Len(b) : Load(n, <<"qsl", s>>) = Before(QLens(b), s)
    BY ONLY <1>1, <1>2 DEF PutsMeta
  <2> QED BY ONLY <2>1, <2>2, <2>3 DEF Meta
<1>3. ASSUME NEW seqs, NEW tokens, PutsPadding(b, seqs, tokens, S) PROVE Padding(b, seqs, tokens, n)
  BY ONLY <1>1, <1>3 DEF PutsPadding, Padding
<1> QED BY <1>2, <1>3

\* The eager metadata consists of cells of the metadata.
LEMMA GenCtxCells ==
  ASSUME NEW b, ValidBatch(b), NEW t \in _prepare_gen_ctx(b)
  PROVE  /\ t[1][1] \in MetaTensors
         /\ t[1][1] = "slot" => \E s, x : IsToken(b, s, x) /\ t[1] = <<"slot", RowOf(b, s, x)>>
         /\ t[1][1] = "ctx" => \E s \in 1 .. Len(b) : t[1] = <<"ctx", s - 1>>
<1>1. CASE \E s, x : IsToken(b, s, x) /\ t = << <<"slot", RowOf(b, s, x)>>, SlotOf(b[s], b[s].start + x) >>
  <2>1. PICK s, x : IsToken(b, s, x) /\ t = << <<"slot", RowOf(b, s, x)>>, SlotOf(b[s], b[s].start + x) >>
    BY <1>1
  <2>2. t[1] = <<"slot", RowOf(b, s, x)>>
    BY <2>1
  <2>3. t[1][1] = "slot"
    BY <2>2
  <2> QED BY <2>1, <2>2, <2>3 DEF MetaTensors
<1>2. CASE \E s, x : IsToken(b, s, x) /\ t = << <<"tok", RowOf(b, s, x)>>, << b[s].req, b[s].start + x >> >>
  <2>1. PICK s, x : t = << <<"tok", RowOf(b, s, x)>>, << b[s].req, b[s].start + x >> >>
    BY <1>2
  <2>2. t[1][1] = "tok"
    BY <2>1
  <2> QED BY <2>2 DEF MetaTensors
<1>3. CASE \E s \in 1 .. Len(b) : t = << <<"ctx", s - 1>>, b[s].start + b[s].n >>
  <2>1. PICK s \in 1 .. Len(b) : t = << <<"ctx", s - 1>>, b[s].start + b[s].n >>
    BY <1>3
  <2>2. t[1] = <<"ctx", s - 1>>
    BY <2>1
  <2>3. t[1][1] = "ctx"
    BY <2>2
  <2> QED BY <2>2, <2>3 DEF MetaTensors
<1>4. CASE \E s \in 1 .. Len(b) : \E j \in 0 .. MaxBlocksPerReq - 1 : t = << <<"bt", s - 1, j>>, BlockOf(b[s], j) >>
  <2>1. PICK s, j : t = << <<"bt", s - 1, j>>, BlockOf(b[s], j) >>
    BY <1>4
  <2>2. t[1][1] = "bt"
    BY <2>1
  <2> QED BY <2>2 DEF MetaTensors
<1>5. CASE \E s \in 0 .. Len(b) : t = << <<"qsl", s>>, Before(QLens(b), s) >>
  <2>1. PICK s : t = << <<"qsl", s>>, Before(QLens(b), s) >>
    BY <1>5
  <2>2. t[1][1] = "qsl"
    BY <2>1
  <2> QED BY <2>2 DEF MetaTensors
<1> HIDE DEF MetaTensors
<1> QED BY <1>1, <1>2, <1>3, <1>4, <1>5, GenCtxIs

\* A shape that covers a batch and lies in the buffers.
Covers(desc, b) ==
  /\ desc.num_seqs \in Len(b) .. MaxNumSeqs
  /\ desc.num_tokens \in Total(b) .. MaxNumBatchedTokens

\* The metadata of padded requests.
PaddedRows(b, desc) ==
  { << <<"bt", s, j>>, 0 >> : s \in Len(b) .. desc.num_seqs - 1, j \in 0 .. MaxBlocksPerReq - 1 }
  \cup { << <<"qsl", s>>, Total(b) >> : s \in Len(b) + 1 .. desc.num_seqs }

\* Its cells, and those of the buffers that are reset.
LEMMA PaddedCells ==
  ASSUME NEW b, NEW desc, NEW t \in PaddedRows(b, desc)
  PROVE  \/ \E s \in Len(b) .. desc.num_seqs - 1 : \E j : t[1] = <<"bt", s, j>>
         \/ \E s \in Len(b) + 1 .. desc.num_seqs : t[1] = <<"qsl", s>>
BY DEF PaddedRows

LEMMA ResetIs ==
  ASSUME NEW desc
  PROVE  /\ \A t \in ResetBuffers(desc) : t[1][1] \in MetaTensors
         /\ \A r \in 0 .. MaxNumBatchedTokens - 1 : Puts(ResetBuffers(desc), <<"slot", r>>, -1)
         /\ \A s \in 0 .. MaxNumSeqs - 1 : Puts(ResetBuffers(desc), <<"ctx", s>>, 0)
<1> DEFINE S == ResetBuffers(desc)
<1>1. ASSUME NEW t
      PROVE  t \in S <=> \/ \E r \in 0 .. MaxNumBatchedTokens - 1 : t = << <<"slot", r>>, -1 >>
                         \/ \E r \in 0 .. desc.num_tokens - 1 : t = << <<"tok", r>>, Pad >>
                         \/ \E s \in 0 .. MaxNumSeqs - 1 : t = << <<"ctx", s>>, 0 >>
                         \/ \E s \in 0 .. MaxNumSeqs - 1 : \E j \in 0 .. MaxBlocksPerReq - 1 : t = << <<"bt", s, j>>, -1 >>
                         \/ \E s \in 0 .. MaxNumSeqs : t = << <<"qsl", s>>, 0 >>
  BY DEF ResetBuffers
<1> HIDE DEF S
<1>2. ASSUME NEW t \in S PROVE t[1][1] \in MetaTensors
  <2>1. \/ \E r : t = << <<"slot", r>>, -1 >>
        \/ \E r : t = << <<"tok", r>>, Pad >>
        \/ \E s : t = << <<"ctx", s>>, 0 >>
        \/ \E s, j : t = << <<"bt", s, j>>, -1 >>
        \/ \E s : t = << <<"qsl", s>>, 0 >>
    BY <1>1
  <2>2. t[1][1] \in {"slot", "tok", "ctx", "bt", "qsl"}
    BY ONLY <2>1
  <2> QED BY <2>2 DEF MetaTensors
<1>3. ASSUME NEW r \in 0 .. MaxNumBatchedTokens - 1 PROVE Puts(S, <<"slot", r>>, -1)
  <2>1. << <<"slot", r>>, -1 >> \in S
    BY <1>1
  <2>2. ASSUME NEW t \in S, t[1] = <<"slot", r>> PROVE t[2] = -1
    BY <1>1, <2>2
  <2> QED BY ONLY <2>1, <2>2 DEF Puts
<1>4. ASSUME NEW s \in 0 .. MaxNumSeqs - 1 PROVE Puts(S, <<"ctx", s>>, 0)
  <2>1. << <<"ctx", s>>, 0 >> \in S
    BY <1>1
  <2>2. ASSUME NEW t \in S, t[1] = <<"ctx", s>> PROVE t[2] = 0
    BY <1>1, <2>2
  <2> QED BY ONLY <2>1, <2>2 DEF Puts
<1> QED BY <1>2, <1>3, <1>4 DEF S

\* What the buffers of a CUDA graph hold.
LEMMA GraphPuts ==
  ASSUME NEW b, ValidBatch(b), NEW desc, Covers(desc, b)
  PROVE  LET S == _prepare_input_buffers_from_gen_ctx(b, desc)
         IN  /\ PutsMeta(b, S) /\ PutsPadding(b, desc.num_seqs, desc.num_tokens, S)
             /\ \A t \in S : t[1][1] \in MetaTensors
<1> DEFINE A == ResetBuffers(desc)
           B == _prepare_gen_ctx(b)
           C == PaddedRows(b, desc)
           S == _prepare_input_buffers_from_gen_ctx(b, desc)
<1>1. S = Over(Over(A, B), C)
  BY DEF _prepare_input_buffers_from_gen_ctx, PaddedRows
<1>2. PutsMeta(b, B)
  BY GenCtxPuts
<1>3. \A t \in C : t[1][1] \in {"bt", "qsl"}
  <2>1. ASSUME NEW t \in C PROVE t[1][1] \in {"bt", "qsl"}
    BY PaddedCells
  <2> QED BY <2>1
<1>4. \A t \in C : /\ \A s \in 0 .. Len(b) - 1 : \A j : t[1] # <<"bt", s, j>>
                   /\ \A s \in 0 .. Len(b) : t[1] # <<"qsl", s>>
  <2> SUFFICES ASSUME NEW t \in C
               PROVE  /\ \A s \in 0 .. Len(b) - 1 : \A j : t[1] # <<"bt", s, j>>
                      /\ \A s \in 0 .. Len(b) : t[1] # <<"qsl", s>>
    OBVIOUS
  <2>1. Len(b) \in Nat
    BY DEF ValidBatch
  <2>2. \/ \E s \in Len(b) .. desc.num_seqs - 1 : \E j : t[1] = <<"bt", s, j>>
        \/ \E s \in Len(b) + 1 .. desc.num_seqs : t[1] = <<"qsl", s>>
    BY PaddedCells
  <2> QED BY ONLY <2>1, <2>2
<1>5. Len(b) \in Nat /\ Total(b) \in Nat /\ Covers(desc, b) /\ MaxNumSeqs \in Nat /\ MaxNumBatchedTokens \in Nat
  BY BatchLens, CacheAssumption
<1> HIDE DEF A, B, C, S

\* What the batch puts, unless padding overrides it.
<1>6. \A c, v : Puts(B, c, v) /\ (\A u \in C : u[1] # c) => Puts(S, c, v)
  BY <1>1, OverPuts
<1>7. ASSUME NEW s, NEW x, IsToken(b, s, x)
      PROVE  /\ Puts(S, <<"slot", RowOf(b, s, x)>>, SlotOf(b[s], b[s].start + x))
             /\ Puts(S, <<"tok", RowOf(b, s, x)>>, << b[s].req, b[s].start + x >>)
  <2>1. \A u \in C : u[1] # <<"slot", RowOf(b, s, x)>> /\ u[1] # <<"tok", RowOf(b, s, x)>>
    BY ONLY <1>3
  <2>2. /\ Puts(B, <<"slot", RowOf(b, s, x)>>, SlotOf(b[s], b[s].start + x))
        /\ Puts(B, <<"tok", RowOf(b, s, x)>>, << b[s].req, b[s].start + x >>)
    BY ONLY <1>2, <1>7 DEF PutsMeta
  <2> QED BY ONLY <1>6, <2>1, <2>2
<1>8. ASSUME NEW s \in 1 .. Len(b)
      PROVE  /\ Puts(S, <<"ctx", s - 1>>, b[s].start + b[s].n)
             /\ \A j \in 0 .. MaxBlocksPerReq - 1 : Puts(S, <<"bt", s - 1, j>>, BlockOf(b[s], j))
  <2>1. /\ Puts(B, <<"ctx", s - 1>>, b[s].start + b[s].n)
        /\ \A j \in 0 .. MaxBlocksPerReq - 1 : Puts(B, <<"bt", s - 1, j>>, BlockOf(b[s], j))
    BY ONLY <1>2, <1>8 DEF PutsMeta
  <2>2. \A u \in C : u[1] # <<"ctx", s - 1>>
    BY ONLY <1>3
  <2>3. s - 1 \in 0 .. Len(b) - 1
    BY <1>5
  <2>4. \A u \in C : \A j : u[1] # <<"bt", s - 1, j>>
    BY ONLY <1>4, <2>3
  <2>5. Puts(S, <<"ctx", s - 1>>, b[s].start + b[s].n)
    BY ONLY <1>6, <2>1, <2>2
  <2>6. ASSUME NEW j \in 0 .. MaxBlocksPerReq - 1 PROVE Puts(S, <<"bt", s - 1, j>>, BlockOf(b[s], j))
    BY ONLY <1>6, <2>1, <2>4, <2>6
  <2> QED BY <2>5, <2>6
<1>9. ASSUME NEW s \in 0 .. Len(b) PROVE Puts(S, <<"qsl", s>>, Before(QLens(b), s))
  <2>1. Puts(B, <<"qsl", s>>, Before(QLens(b), s))
    BY ONLY <1>2, <1>9 DEF PutsMeta
  <2>2. \A u \in C : u[1] # <<"qsl", s>>
    BY ONLY <1>4, <1>9
  <2> QED BY ONLY <1>6, <2>1, <2>2

\* What is reset, unless the batch or padding overrides it.
<1>10. \A c, v : Puts(A, c, v) /\ (\A u \in B : u[1] # c) /\ (\A u \in C : u[1] # c) => Puts(S, c, v)
  <2> SUFFICES ASSUME NEW c, NEW v, Puts(A, c, v), \A u \in B : u[1] # c, \A u \in C : u[1] # c PROVE Puts(S, c, v)
    OBVIOUS
  <2>1. Puts(Over(A, B), c, v)
    BY OverPuts
  <2> QED BY <1>1, <2>1, OverPuts
<1>11. ASSUME NEW r \in Total(b) .. desc.num_tokens - 1 PROVE Puts(S, <<"slot", r>>, -1)
  <2>1. r \in 0 .. MaxNumBatchedTokens - 1 /\ r >= Total(b)
    BY <1>5 DEF Covers
  <2>2. Puts(A, <<"slot", r>>, -1)
    BY <2>1, ResetIs DEF A
  <2>3. \A u \in C : u[1] # <<"slot", r>>
    BY ONLY <1>3
  <2>4. ASSUME NEW u \in B, u[1] = <<"slot", r>> PROVE FALSE
    <3>1. PICK s, x : IsToken(b, s, x) /\ u[1] = <<"slot", RowOf(b, s, x)>>
      BY <2>4, GenCtxCells DEF B
    <3>2. RowOf(b, s, x) \in 0 .. Total(b) - 1
      BY <3>1, TokenIs
    <3>3. r = RowOf(b, s, x)
      BY <2>4, <3>1
    <3> QED BY <1>5, <2>1, <3>2, <3>3
  <2> QED BY ONLY <1>10, <2>2, <2>3, <2>4
<1>12. ASSUME NEW s \in Len(b) .. desc.num_seqs - 1 PROVE Puts(S, <<"ctx", s>>, 0)
  <2>1. s \in 0 .. MaxNumSeqs - 1 /\ s >= Len(b)
    BY <1>5 DEF Covers
  <2>2. Puts(A, <<"ctx", s>>, 0)
    BY <2>1, ResetIs DEF A
  <2>3. \A u \in C : u[1] # <<"ctx", s>>
    BY ONLY <1>3
  <2>4. ASSUME NEW u \in B, u[1] = <<"ctx", s>> PROVE FALSE
    <3>1. PICK z \in 1 .. Len(b) : u[1] = <<"ctx", z - 1>>
      BY <2>4, GenCtxCells DEF B
    <3>2. s = z - 1
      BY <2>4, <3>1
    <3> QED BY <1>5, <2>1, <3>1, <3>2
  <2> QED BY ONLY <1>10, <2>2, <2>3, <2>4
<1>13. \A t \in S : t[1][1] \in MetaTensors
  <2>1. \A t \in S : t \in A \/ t \in B \/ t \in C
    BY <1>1 DEF Over
  <2>2. \A t \in B : t[1][1] \in MetaTensors
    BY GenCtxCells DEF B
  <2>3. \A t \in A : t[1][1] \in MetaTensors
    BY ResetIs DEF A
  <2>4. \A t \in C : t[1][1] \in MetaTensors
    BY <1>3 DEF MetaTensors
  <2> QED BY ONLY <2>1, <2>2, <2>3, <2>4
<1>14. PutsMeta(b, S)
  BY ONLY <1>7, <1>8, <1>9 DEF PutsMeta
<1>15. PutsPadding(b, desc.num_seqs, desc.num_tokens, S)
  BY ONLY <1>11, <1>12 DEF PutsPadding
<1> QED BY <1>13, <1>14, <1>15 DEF S

-----------------------------------------------------------------------------
\* The launches of one step: prepare, two stores, and attention.
StoreLaunch(l, cache, tokens) ==
  l.kernel = "store" /\ l.cache = cache /\ l.grid = {<<r>> : r \in 0 .. tokens - 1}
PagedLaunch(l, seqs) ==
  /\ l.kernel = "paged" /\ l.hq = 1 /\ l.hk = 1
  /\ l.bm \in Nat \ {0} /\ l.bn \in Nat \ {0} /\ l.bm % l.bn = 0
  /\ l.grid = (0 .. seqs - 1) \X (0 .. Cdiv(MaxBlocksPerReq * PageSize, l.bm) - 1) \X {0}
FlexLaunch(l, b) ==
  l.kernel = "flex" /\ l.num_seqs = Len(b) /\ l.num_tokens = Total(b) /\ l.grid = {<< 0 >>}
EagerLaunch(l, b) == l.kernel = "prepare" /\ l.batch = b /\ l.grid = {<< 0 >>}
GraphLaunch(l, b) == l.kernel = "prepare_graph" /\ l.batch = b /\ l.grid = {<< 0 >>} /\ Covers(l.desc, b)

\* What a program of these launches stores.
LEMMA PagedStored ==
  ASSUME NEW l, NEW p, NEW m
  PROVE  /\ l.kernel = "prepare" => Stored(l, p, 0, m) = _prepare_gen_ctx(l.batch)
         /\ l.kernel = "prepare_graph" => Stored(l, p, 0, m) = _prepare_input_buffers_from_gen_ctx(l.batch, l.desc)
         /\ l.kernel = "store" => Stored(l, p, 0, m) = _store_cache_kernel(l, p, m)
         /\ l.kernel = "paged" => Stored(l, p, 0, m) = _paged_attn_fwd_block_kernel(l, p, m)
         /\ l.kernel = "flex" => Stored(l, p, 0, m) = _prepare_paged_kv(l, m)
<1>1. ASSUME l.kernel = "prepare" PROVE Stored(l, p, 0, m) = _prepare_gen_ctx(l.batch)
  BY ONLY <1>1 DEF Stored
<1>2. ASSUME l.kernel = "prepare_graph"
      PROVE  Stored(l, p, 0, m) = _prepare_input_buffers_from_gen_ctx(l.batch, l.desc)
  BY ONLY <1>2 DEF Stored
<1>3. ASSUME l.kernel = "store" PROVE Stored(l, p, 0, m) = _store_cache_kernel(l, p, m)
  BY ONLY <1>3 DEF Stored
<1>4. ASSUME l.kernel = "paged" PROVE Stored(l, p, 0, m) = _paged_attn_fwd_block_kernel(l, p, m)
  BY ONLY <1>4 DEF Stored
<1>5. ASSUME l.kernel = "flex" PROVE Stored(l, p, 0, m) = _prepare_paged_kv(l, m)
  BY ONLY <1>5 DEF Stored
<1> QED BY <1>1, <1>2, <1>3, <1>4, <1>5

\* The slot of a token of a batch, and its key.
TokenSlot(b, s, x) == SlotOf(b[s], b[s].start + x)
TokenKey(b, s, x)  == << b[s].req, b[s].start + x >>

\* It is the slot of a cell of the cache.
LEMMA TokenSlotIs ==
  ASSUME NEW b, ValidBatch(b), NEW s, NEW x, IsToken(b, s, x)
  PROVE  /\ b[s].start + x \in Held(b[s]) /\ TokenSlot(b, s, x) \in Nat
         /\ Takes(b, TokenSlot(b, s, x))
<1>1. s \in 1 .. Len(b) /\ x \in 0 .. b[s].n - 1
  BY DEF IsToken
<1>2. Entry(b[s]) /\ DOMAIN b = 1 .. Len(b)
  BY <1>1, EntryIs DEF ValidBatch
<1>3. b[s].start + x \in Held(b[s])
  BY <1>1, <1>2, ChunkHeld
<1>4. TokenSlot(b, s, x) \in 0 .. MaxBlocks * PageSize - 1
  <2>1. SlotOf(b[s], b[s].start + x) \in 0 .. MaxBlocks * PageSize - 1
    BY <1>2, <1>3, SlotIs DEF Held
  <2> QED BY <2>1 DEF TokenSlot
<1>5. b[s].start + x \in b[s].start .. b[s].start + b[s].n - 1
  BY <1>1, <1>2 DEF Entry
<1>6. Takes(b, TokenSlot(b, s, x))
  BY <1>1, <1>2, <1>5 DEF Takes, TokenSlot
<1>7. TokenSlot(b, s, x) \in Nat
  <2>1. MaxBlocks * PageSize \in Nat
    <3>1. MaxBlocks \in Nat /\ PageSize \in Nat
      BY CacheAssumption
    <3> QED BY ONLY <3>1, MulSucc
  <2>2. PICK z : z = MaxBlocks * PageSize
    OBVIOUS
  <2> QED BY ONLY <1>4, <2>1, <2>2
<1> QED BY <1>3, <1>6, <1>7

\* A slot that is taken is that of a token.
LEMMA TakesToken ==
  ASSUME NEW b, ValidBatch(b), NEW slot, Takes(b, slot)
  PROVE  \E s, x : IsToken(b, s, x) /\ slot = TokenSlot(b, s, x)
<1>1. DOMAIN b = 1 .. Len(b)
  BY DEF ValidBatch
<1>2. PICK s \in 1 .. Len(b) : \E p \in b[s].start .. b[s].start + b[s].n - 1 : SlotOf(b[s], p) = slot
  BY <1>1 DEF Takes
<1>3. PICK p \in b[s].start .. b[s].start + b[s].n - 1 : SlotOf(b[s], p) = slot
  BY <1>2
<1>4. b[s].start \in Nat /\ b[s].n \in Nat
  BY EntryIs DEF Entry
<1>5. PICK x : x = p - b[s].start
  OBVIOUS
<1>6. x \in 0 .. b[s].n - 1 /\ b[s].start + x = p
  BY <1>3, <1>4, <1>5
<1> QED BY <1>3, <1>6 DEF IsToken, TokenSlot

\* Every token of the batch is stored in its slot, and nothing else is: padded rows
\* are skipped.
LEMMA StoreIs ==
  ASSUME NEW b, ValidBatch(b), NEW m, NEW seqs, NEW tokens \in Nat, Total(b) <= tokens,
         Meta(b, m), Padding(b, seqs, tokens, m), NEW l, NEW cache, StoreLaunch(l, cache, tokens), NEW t
  PROVE  t \in AllStores(l, m) <=>
           \E s, x : IsToken(b, s, x) /\ t = << <<cache, TokenSlot(b, s, x)>>, TokenKey(b, s, x) >>
<1>1. t \in AllStores(l, m) <=> \E r \in 0 .. tokens - 1 : t \in _store_cache_kernel(l, <<r>>, m)
  <2>1. \A p : Stored(l, p, 0, m) = _store_cache_kernel(l, p, m)
    BY PagedStored DEF StoreLaunch
  <2>2. t \in AllStores(l, m) <=> \E p \in l.grid : t \in _store_cache_kernel(l, p, m)
    BY <2>1 DEF AllStores
  <2>3. l.grid = {<<r>> : r \in 0 .. tokens - 1}
    BY DEF StoreLaunch
  <2> QED BY ONLY <2>2, <2>3
<1>2. ASSUME NEW r
      PROVE  t \in _store_cache_kernel(l, <<r>>, m) <=>
               Load(m, <<"slot", r>>) # -1
               /\ t = << <<cache, Load(m, <<"slot", r>>)>>, Load(m, <<"tok", r>>) >>
  BY DEF _store_cache_kernel, StoreLaunch
<1>3. ASSUME NEW r \in 0 .. tokens - 1, t \in _store_cache_kernel(l, <<r>>, m)
      PROVE  \E s, x : IsToken(b, s, x) /\ t = << <<cache, TokenSlot(b, s, x)>>, TokenKey(b, s, x) >>
  <2>1. Load(m, <<"slot", r>>) # -1 /\ t = << <<cache, Load(m, <<"slot", r>>)>>, Load(m, <<"tok", r>>) >>
    BY <1>2, <1>3
  <2>2. Total(b) \in Nat
    BY BatchLens
  <2>3. r \in 0 .. Total(b) - 1
    <3>1. \A q \in Total(b) .. tokens - 1 : Load(m, <<"slot", q>>) = -1
      BY DEF Padding
    <3> QED BY <2>1, <2>2, <3>1
  <2>4. PICK s, x : IsToken(b, s, x) /\ r = RowOf(b, s, x)
    BY <2>3, TokenOf
  <2>5. /\ Load(m, <<"slot", r>>) = SlotOf(b[s], b[s].start + x)
        /\ Load(m, <<"tok", r>>) = << b[s].req, b[s].start + x >>
    BY <2>4 DEF Meta
  <2> QED BY <2>1, <2>4, <2>5 DEF TokenSlot, TokenKey
<1>4. ASSUME NEW s, NEW x, IsToken(b, s, x), t = << <<cache, TokenSlot(b, s, x)>>, TokenKey(b, s, x) >>
      PROVE  \E r \in 0 .. tokens - 1 : t \in _store_cache_kernel(l, <<r>>, m)
  <2>1. PICK r : r = RowOf(b, s, x)
    OBVIOUS
  <2>2. r \in 0 .. tokens - 1
    <3>1. RowOf(b, s, x) \in 0 .. Total(b) - 1 /\ Total(b) \in Nat
      BY <1>4, TokenIs, BatchLens
    <3> QED BY <2>1, <3>1
  <2>3. /\ Load(m, <<"slot", r>>) = SlotOf(b[s], b[s].start + x)
        /\ Load(m, <<"tok", r>>) = << b[s].req, b[s].start + x >>
    BY <1>4, <2>1 DEF Meta
  <2>4. TokenSlot(b, s, x) \in Nat
    BY <1>4, TokenSlotIs
  <2>5. Load(m, <<"slot", r>>) # -1
    BY <2>3, <2>4 DEF TokenSlot
  <2>6. t = << <<cache, Load(m, <<"slot", r>>)>>, Load(m, <<"tok", r>>) >>
    BY <1>4, <2>3 DEF TokenSlot, TokenKey
  <2>7. t \in _store_cache_kernel(l, <<r>>, m)
    BY <1>2, <2>5, <2>6
  <2> QED BY <2>2, <2>7
<1> QED BY <1>1, <1>3, <1>4

\* So the tokens of the batch are cached, and the rest of the cache is as before.
LEMMA StoreFinish ==
  ASSUME NEW b, ValidBatch(b), NEW m, NEW seqs, NEW tokens \in Nat, Total(b) <= tokens,
         Meta(b, m), Padding(b, seqs, tokens, m), NEW l, NEW cache, StoreLaunch(l, cache, tokens),
         NEW n, n = Write(AllStores(l, m), m)
  PROVE  /\ \A s, x : IsToken(b, s, x) => Load(n, <<cache, TokenSlot(b, s, x)>>) = TokenKey(b, s, x)
         /\ \A slot : ~Takes(b, slot) => Load(n, <<cache, slot>>) = Load(m, <<cache, slot>>)
         /\ \A c : c[1] # cache => Load(n, c) = Load(m, c)
<1> DEFINE S == AllStores(l, m)
<1>1. \A t : t \in S <=> \E s, x : IsToken(b, s, x) /\ t = << <<cache, TokenSlot(b, s, x)>>, TokenKey(b, s, x) >>
  BY StoreIs
<1> HIDE DEF S
<1>2. ASSUME NEW s, NEW x, IsToken(b, s, x)
      PROVE  Load(n, <<cache, TokenSlot(b, s, x)>>) = TokenKey(b, s, x)
  <2>1. << <<cache, TokenSlot(b, s, x)>>, TokenKey(b, s, x) >> \in S
    BY <1>1, <1>2
  <2>2. ASSUME NEW t \in S, t[1] = <<cache, TokenSlot(b, s, x)>> PROVE t[2] = TokenKey(b, s, x)
    <3>1. PICK u, y : IsToken(b, u, y) /\ t = << <<cache, TokenSlot(b, u, y)>>, TokenKey(b, u, y) >>
      BY <1>1
    <3>2. TokenSlot(b, u, y) = TokenSlot(b, s, x) /\ t[2] = TokenKey(b, u, y)
      BY <2>2, <3>1
    <3>3. u \in 1 .. Len(b) /\ s \in 1 .. Len(b) /\ b[u].start + y \in Held(b[u]) /\ b[s].start + x \in Held(b[s])
      <4>1. u \in 1 .. Len(b) /\ s \in 1 .. Len(b)
        BY <1>2, <3>1 DEF IsToken
      <4>2. b[u].start + y \in Held(b[u])
        BY <3>1, TokenSlotIs
      <4>3. b[s].start + x \in Held(b[s])
        BY <1>2, TokenSlotIs
      <4> QED BY <4>1, <4>2, <4>3
    <3>4. u = s /\ b[u].start + y = b[s].start + x
      <4>1. PICK p, q : p = b[u].start + y /\ q = b[s].start + x
        OBVIOUS
      <4>2. SlotOf(b[u], p) = SlotOf(b[s], q)
        BY <3>2, <4>1 DEF TokenSlot
      <4>3. u \in 1 .. Len(b) /\ s \in 1 .. Len(b) /\ p \in Held(b[u]) /\ q \in Held(b[s])
        BY <3>3, <4>1
      <4>4. u = s /\ p = q
        BY ONLY ValidBatch(b), <4>2, <4>3, SlotsApart
      <4> QED BY <4>1, <4>4
    <3> QED BY ONLY <3>2, <3>4 DEF TokenKey
  <2> QED BY <2>1, <2>2, WriteStored DEF S
<1>3. ASSUME NEW slot, ~Takes(b, slot) PROVE Load(n, <<cache, slot>>) = Load(m, <<cache, slot>>)
  <2>1. ASSUME NEW t \in S PROVE t[1] # <<cache, slot>>
    <3>1. PICK s, x : IsToken(b, s, x) /\ t = << <<cache, TokenSlot(b, s, x)>>, TokenKey(b, s, x) >>
      BY <1>1
    <3>2. Takes(b, TokenSlot(b, s, x))
      BY <3>1, TokenSlotIs
    <3>3. TokenSlot(b, s, x) # slot
      BY <1>3, <3>2
    <3>4. t[1] = <<cache, TokenSlot(b, s, x)>>
      BY <3>1
    <3> QED BY <3>3, <3>4
  <2> QED BY <2>1, WriteKept DEF S
<1>4. ASSUME NEW c, c[1] # cache PROVE Load(n, c) = Load(m, c)
  <2>1. ASSUME NEW t \in S PROVE t[1] # c
    <3>1. PICK s, x : t = << <<cache, TokenSlot(b, s, x)>>, TokenKey(b, s, x) >>
      BY <1>1
    <3>2. t[1][1] = cache
      BY <3>1
    <3> QED BY <1>4, <3>2
  <2> QED BY <2>1, WriteKept DEF S
<1> QED BY <1>2, <1>3, <1>4

-----------------------------------------------------------------------------
\* A key and a value cached for every position of every entry up to its chunk's end.
CachedFor(b, m) ==
  \A s \in 1 .. Len(b) : \A p \in 0 .. b[s].start + b[s].n - 1 : \A c \in {"kc", "vc"} :
    Load(m, <<c, SlotOf(b[s], p)>>) = <<b[s].req, p>>

\* What the paged kernel reads of the metadata of sequence z.
QStart(m, z) == Load(m, <<"qsl", z>>)
KLen(m, z)   == Load(m, <<"ctx", z>>)
QFirst(m, z) == KLen(m, z) - (Load(m, <<"qsl", z + 1>>) - QStart(m, z))
PageOf(m, z, n) == Load(m, <<"bt", z, n \div PageSize>>)
PageSlot(m, z, n) == PageOf(m, z, n) * PageSize + (n - (n \div PageSize) * PageSize)
PageKeys(l, p, m) ==
  [n \in KeyLanes(l, p[2]) |->
     IF n < KLen(m, p[1]) /\ PageOf(m, p[1], n) >= 0
       THEN << Load(m, <<"kc", PageSlot(m, p[1], n)>>), Load(m, <<"vc", PageSlot(m, p[1], n)>>) >>
       ELSE Zero]

LEMMA MetaOf ==
  ASSUME NEW b, ValidBatch(b), NEW m, Meta(b, m), NEW s \in 1 .. Len(b)
  PROVE  /\ QStart(m, s - 1) = Before(QLens(b), s - 1) /\ QStart(m, s - 1) \in Nat
         /\ KLen(m, s - 1) = b[s].start + b[s].n /\ QFirst(m, s - 1) = b[s].start
         /\ b[s].start \in Nat /\ b[s].n \in Nat
<1>1. Len(b) \in Nat /\ QLens(b) \in Seq(Nat) /\ Len(QLens(b)) = Len(b) /\ QLens(b)[s] = b[s].n
  BY BatchLens
<1>2. b[s].start \in Nat /\ b[s].n \in Nat
  BY EntryIs DEF Entry
<1> DEFINE L == QLens(b)
<1> HIDE DEF L
<1>3. /\ Before(L, s - 1) \in Nat /\ Before(L, s) = Before(L, s - 1) + b[s].n
  <2>1. L \in Seq(Nat) /\ s \in 0 .. Len(L) /\ s - 1 \in 0 .. Len(L) /\ s \in 1 .. Len(L) /\ L[s] = b[s].n
    BY <1>1 DEF L
  <2> QED BY ONLY <2>1, BeforeStep
<1>4. s - 1 \in 0 .. Len(b) /\ s \in 0 .. Len(b) /\ (s - 1) + 1 = s
  BY <1>1
<1>5. Load(m, <<"qsl", s - 1>>) = Before(L, s - 1) /\ Load(m, <<"qsl", s>>) = Before(L, s)
  <2>1. \A z \in 0 .. Len(b) : Load(m, <<"qsl", z>>) = Before(L, z)
    BY DEF Meta, L
  <2> QED BY ONLY <1>4, <2>1
<1>6. Load(m, <<"ctx", s - 1>>) = b[s].start + b[s].n
  BY DEF Meta
<1>7. QStart(m, s - 1) = Before(L, s - 1) /\ KLen(m, s - 1) = b[s].start + b[s].n
  BY <1>5, <1>6 DEF QStart, KLen
<1>8. QFirst(m, s - 1) = (b[s].start + b[s].n) - (Before(L, s) - Before(L, s - 1))
  BY <1>4, <1>5, <1>7 DEF QFirst
<1> DEFINE u == b[s].start
           v == b[s].n
           a == Before(L, s - 1)
           z == Before(L, s)
<1>9. u \in Nat /\ v \in Nat /\ a \in Nat /\ z = a + v
  BY <1>2, <1>3
<1> HIDE DEF u, v, a, z
<1>10. (u + v) - (z - a) = u
  BY ONLY <1>9
<1> QED BY <1>2, <1>3, <1>7, <1>8, <1>10 DEF u, v, a, z, L

\* The page table leads to the slot of a position.
LEMMA PageIs ==
  ASSUME NEW b, ValidBatch(b), NEW m, Meta(b, m), NEW s \in 1 .. Len(b), NEW n \in 0 .. b[s].start + b[s].n - 1
  PROVE  PageOf(m, s - 1, n) >= 0 /\ PageSlot(m, s - 1, n) = SlotOf(b[s], n)
<1> DEFINE e == b[s]
           q == n \div PageSize
<1>1. Entry(e)
  BY EntryIs
<1>2. n \in Held(e)
  BY <1>1, ChunkHeld
<1>3. \A j \in 0 .. MaxBlocksPerReq - 1 : Load(m, <<"bt", s - 1, j>>) = BlockOf(e, j)
  BY DEF Meta
<1> HIDE DEF e
<1>4. q \in 0 .. Len(e.blocks) - 1 /\ n % PageSize \in 0 .. PageSize - 1 /\ n = q * PageSize + (n % PageSize)
  BY <1>1, <1>2, SlotIs DEF Held
<1> HIDE DEF q
<1>5. Len(e.blocks) \in Nat /\ Len(e.blocks) <= MaxBlocksPerReq /\ MaxBlocksPerReq \in Nat
  BY <1>1, CacheAssumption DEF Entry
<1>6. q \in Nat /\ q < Len(e.blocks) /\ q \in 0 .. MaxBlocksPerReq - 1 /\ q + 1 \in 1 .. Len(e.blocks)
  BY <1>4, <1>5
<1>7. Load(m, <<"bt", s - 1, q>>) = e.blocks[q + 1]
  BY <1>3, <1>6 DEF BlockOf
<1>8. e.blocks[q + 1] \in Nat
  BY <1>1, <1>6 DEF Entry
<1>9. PageOf(m, s - 1, n) = e.blocks[q + 1]
  BY <1>7 DEF PageOf, q
<1>10. n - q * PageSize = n % PageSize
  <2> DEFINE r == n % PageSize
             z == q * PageSize
  <2>1. z \in Nat
    <3>1. q \in Nat /\ PageSize \in Nat
      BY <1>6, CacheAssumption
    <3> QED BY ONLY <3>1, MulSucc
  <2>2. r \in Int /\ n = z + r
    BY <1>4
  <2> HIDE DEF r, z
  <2>3. n - z = r
    BY ONLY <2>1, <2>2
  <2> QED BY <2>3 DEF r, z
<1>11. PageSlot(m, s - 1, n) = e.blocks[q + 1] * PageSize + (n % PageSize)
  BY <1>9, <1>10 DEF PageSlot, q
<1>12. SlotOf(e, n) = e.blocks[q + 1] * PageSize + (n % PageSize)
  BY DEF SlotOf, q
<1>13. PageOf(m, s - 1, n) >= 0
  BY <1>8, <1>9
<1> QED BY <1>11, <1>12, <1>13 DEF e

\* The term of a row of the chunk, in whatever block it is computed.
LEMMA PagedFold ==
  ASSUME NEW b, ValidBatch(b), NEW m, Meta(b, m), CachedFor(b, m), NEW seqs, NEW l, PagedLaunch(l, seqs),
         NEW s \in 1 .. Len(b), NEW p, p[1] = s - 1, NEW k \in Nat, p[2] = k,
         NEW x \in 0 .. b[s].start + b[s].n - 1, x \in Lanes(k, l.bm)
  PROVE  OnlineSoftmax(l, k, x, PageKeys(l, p, m)) = Alone(b[s].req, x, l.bn)
<1> DEFINE key == PageKeys(l, p, m)
           e == b[s]
<1>1. l.bm \in Nat \ {0} /\ l.bn \in Nat \ {0} /\ l.bm % l.bn = 0
  BY DEF PagedLaunch
<1>2. KLen(m, s - 1) = e.start + e.n /\ e.start \in Nat /\ e.n \in Nat
  BY MetaOf
<1>3. ASSUME NEW n \in 0 .. e.start + e.n - 1
      PROVE  /\ PageOf(m, s - 1, n) >= 0 /\ PageSlot(m, s - 1, n) = SlotOf(e, n)
             /\ \A c \in {"kc", "vc"} : Load(m, <<c, SlotOf(e, n)>>) = <<e.req, n>>
  <2>1. PageOf(m, s - 1, n) >= 0 /\ PageSlot(m, s - 1, n) = SlotOf(e, n)
    BY PageIs
  <2>2. \A c \in {"kc", "vc"} : Load(m, <<c, SlotOf(e, n)>>) = <<e.req, n>>
    BY DEF CachedFor
  <2> QED BY <2>1, <2>2
<1>4. x \in 0 .. e.start + e.n - 1
  OBVIOUS
<1> HIDE DEF e
<1>5. x \in Nat /\ k * l.bm \in Nat /\ k * l.bm <= x /\ x < k * l.bm + l.bm
  <2>1. l.bm \in Nat \ {0}
    BY <1>1
  <2> QED BY ONLY <2>1, k \in Nat, x \in Lanes(k, l.bm), LaneIs
<1>6. InBlock(l, k, x)
  BY <1>1, <1>5 DEF InBlock
<1>7. OnlineSoftmax(l, k, x, key) = Folded(key, x, l.bn)
  <2> HIDE DEF key
  <2> QED BY ONLY <1>6, SoftmaxFolds
<1>8. Cdiv(l.bm, l.bn) * l.bn \in Nat /\ l.bm <= Cdiv(l.bm, l.bn) * l.bn
  <2>1. l.bm \in Nat
    BY <1>1
  <2>2. Cdiv(l.bm, l.bn) \in Nat /\ l.bm <= Cdiv(l.bm, l.bn) * l.bn
    BY ONLY <1>1, <2>1, CdivFacts
  <2> QED BY <1>1, <2>2
<1>9. ASSUME NEW n \in 0 .. x PROVE key[n] = << <<e.req, n>>, <<e.req, n>> >>
  <2>1. n \in KeyLanes(l, p[2])
    <3>1. KeyLanes(l, p[2]) = 0 .. k * l.bm + Cdiv(l.bm, l.bn) * l.bn - 1
      BY DEF KeyLanes
    <3> QED BY ONLY <1>1, <1>5, <1>8, <3>1, n \in 0 .. x
  <2>2. n \in 0 .. e.start + e.n - 1 /\ n < e.start + e.n
    BY <1>2, <1>4, <1>5
  <2>3. n < KLen(m, s - 1) /\ PageOf(m, s - 1, n) >= 0 /\ PageSlot(m, s - 1, n) = SlotOf(e, n)
    BY <1>2, <1>3, <2>2
  <2>4. key[n] = IF n < KLen(m, p[1]) /\ PageOf(m, p[1], n) >= 0
                   THEN << Load(m, <<"kc", PageSlot(m, p[1], n)>>), Load(m, <<"vc", PageSlot(m, p[1], n)>>) >>
                   ELSE Zero
    BY ONLY <2>1 DEF PageKeys, key
  <2>5. key[n] = << Load(m, <<"kc", SlotOf(e, n)>>), Load(m, <<"vc", SlotOf(e, n)>>) >>
    <3> HIDE DEF key
    <3>1. p[1] = s - 1
      OBVIOUS
    <3> QED BY ONLY <2>3, <2>4, <3>1
  <2> QED BY <1>3, <2>2, <2>5
<1> HIDE DEF key
<1>10. Folded(key, x, l.bn) = Alone(e.req, x, l.bn)
  <2>1. PICK r, w : r = e.req /\ w = l.bn
    OBVIOUS
  <2>2. \A n \in 0 .. x : key[n] = << <<r, n>>, <<r, n>> >>
    BY <1>9, <2>1
  <2>3. x \in Nat /\ w \in Nat \ {0}
    BY <1>1, <1>5, <2>1
  <2>4. Folded(key, x, w) = Alone(r, x, w)
    BY ONLY <2>2, <2>3, FoldedAlone
  <2> QED BY ONLY <2>1, <2>4
<1>11. OnlineSoftmax(l, k, x, key) = Alone(e.req, x, l.bn)
  BY ONLY <1>7, <1>10
<1> QED BY ONLY <1>11 DEF e, key

-----------------------------------------------------------------------------
\* What the programs of the paged kernel store.
LEMMA PagedStores ==
  ASSUME NEW l, NEW p, NEW m, NEW t
  PROVE  t \in _paged_attn_fwd_block_kernel(l, p, m) <=>
           /\ ~ (p[2] * l.bm >= KLen(m, p[1]) \/ (p[2] + 1) * l.bm <= QFirst(m, p[1]))
           /\ \E x \in {y \in Lanes(p[2], l.bm) : QFirst(m, p[1]) <= y /\ y < KLen(m, p[1])} :
                t = << <<"out", QStart(m, p[1]) + (x - QFirst(m, p[1])), p[3]>>,
                       << Load(m, <<"tok", QStart(m, p[1]) + (x - QFirst(m, p[1]))>>),
                          kv_head_of(l, p[3]), OnlineSoftmax(l, p[2], x, PageKeys(l, p, m)) >> >>
BY DEF _paged_attn_fwd_block_kernel, KLen, QFirst, QStart, PageOf, PageSlot, PageKeys

\* A launch with one head of keys for its one head of queries.
LEMMA OneHead ==
  ASSUME NEW l, l.hq = 1, l.hk = 1
  PROVE  kv_head_of(l, 0) = 0
<1>1. kv_head_of(l, 0) = 0 \div (1 \div 1)
  BY DEF kv_head_of
<1> QED BY ONLY <1>1

\* The term of a token, and where its row is.
TokenTerm(b, s, x, bn) == << TokenKey(b, s, x), 0, Alone(b[s].req, b[s].start + x, bn) >>
LEMMA TokenRow ==
  ASSUME NEW b, ValidBatch(b), NEW m, Meta(b, m), NEW s, NEW x, IsToken(b, s, x)
  PROVE  /\ b[s].start + x \in 0 .. b[s].start + b[s].n - 1
         /\ QStart(m, s - 1) + ((b[s].start + x) - QFirst(m, s - 1)) = RowOf(b, s, x)
         /\ Load(m, <<"tok", RowOf(b, s, x)>>) = TokenKey(b, s, x)
<1>1. s \in 1 .. Len(b) /\ x \in 0 .. b[s].n - 1
  BY DEF IsToken
<1>2. Load(m, <<"tok", RowOf(b, s, x)>>) = << b[s].req, b[s].start + x >>
  BY DEF Meta
<1> DEFINE u == b[s].start
           v == b[s].n
           a == QStart(m, s - 1)
           f == QFirst(m, s - 1)
<1>3. a = Before(QLens(b), s - 1) /\ a \in Nat /\ f = u /\ u \in Nat /\ v \in Nat
  BY <1>1, MetaOf
<1>4. x \in 0 .. v - 1 /\ RowOf(b, s, x) = a + x
  BY <1>1, <1>3 DEF RowOf
<1> HIDE DEF u, v, a, f
<1>5. u + x \in 0 .. u + v - 1 /\ a + ((u + x) - f) = a + x
  BY ONLY <1>3, <1>4
<1> QED BY <1>2, <1>4, <1>5 DEF u, v, a, f, TokenKey

\* Every store of the paged kernel is the attention of a token: the padded rows of a
\* graph have no context.
LEMMA PagedSound ==
  ASSUME NEW b, ValidBatch(b), NEW m, Meta(b, m), CachedFor(b, m), NEW seqs, NEW tokens, Padding(b, seqs, tokens, m),
         seqs \in Nat, NEW l, PagedLaunch(l, seqs), NEW t \in AllStores(l, m)
  PROVE  \E s, x : IsToken(b, s, x) /\ t = << <<"out", RowOf(b, s, x), 0>>, TokenTerm(b, s, x, l.bn) >>
<1>1. /\ l.kernel = "paged" /\ l.bm \in Nat \ {0} /\ l.hq = 1 /\ l.hk = 1
      /\ l.grid = (0 .. seqs - 1) \X (0 .. Cdiv(MaxBlocksPerReq * PageSize, l.bm) - 1) \X {0}
  BY DEF PagedLaunch
<1>2. PICK p \in l.grid : t \in Stored(l, p, 0, m)
  BY InAllStores
<1>3. p[1] \in 0 .. seqs - 1 /\ p[2] \in 0 .. Cdiv(MaxBlocksPerReq * PageSize, l.bm) - 1 /\ p[3] = 0
  BY <1>1
<1>4. p[1] \in Nat /\ p[2] \in Nat
  BY <1>3
<1>5. t \in _paged_attn_fwd_block_kernel(l, p, m)
  BY <1>1, <1>2, PagedStored
<1>6. Len(b) \in Nat
  BY DEF ValidBatch
<1>7. p[1] < Len(b)
  <2> SUFFICES ASSUME p[1] >= Len(b) PROVE FALSE
    BY <1>4, <1>6
  <2>1. p[1] \in Len(b) .. seqs - 1
    BY <1>3, <1>6
  <2>2. KLen(m, p[1]) = 0
    BY <2>1 DEF Padding, KLen
  <2>3. p[2] * l.bm \in Nat
    BY <1>1, <1>4
  <2>4. p[2] * l.bm >= KLen(m, p[1])
    BY <2>2, <2>3
  <2> QED BY <1>5, <2>4, PagedStores
<1> DEFINE s == p[1] + 1
<1>8. s \in 1 .. Len(b) /\ p[1] = s - 1
  BY <1>4, <1>6, <1>7
<1>9. PICK y \in Lanes(p[2], l.bm) :
        /\ QFirst(m, p[1]) <= y /\ y < KLen(m, p[1])
        /\ t = << <<"out", QStart(m, p[1]) + (y - QFirst(m, p[1])), p[3]>>,
                  << Load(m, <<"tok", QStart(m, p[1]) + (y - QFirst(m, p[1]))>>),
                     kv_head_of(l, p[3]), OnlineSoftmax(l, p[2], y, PageKeys(l, p, m)) >> >>
  BY <1>5, PagedStores
<1> HIDE DEF s
<1>10. QFirst(m, p[1]) = b[s].start /\ KLen(m, p[1]) = b[s].start + b[s].n /\ b[s].start \in Nat /\ b[s].n \in Nat
  BY <1>8, MetaOf
<1>11. y \in Nat
  BY <1>1, <1>4, LaneIs
<1>12. PICK x : x = y - b[s].start
  OBVIOUS
<1>13. x \in 0 .. b[s].n - 1 /\ y = b[s].start + x /\ y \in 0 .. b[s].start + b[s].n - 1
  BY <1>9, <1>10, <1>11, <1>12
<1>14. IsToken(b, s, x)
  BY <1>8, <1>13 DEF IsToken
<1>15. QStart(m, p[1]) + (y - QFirst(m, p[1])) = RowOf(b, s, x) /\ Load(m, <<"tok", RowOf(b, s, x)>>) = TokenKey(b, s, x)
  <2>1. /\ QStart(m, s - 1) + ((b[s].start + x) - QFirst(m, s - 1)) = RowOf(b, s, x)
        /\ Load(m, <<"tok", RowOf(b, s, x)>>) = TokenKey(b, s, x)
    BY ONLY <1>14, ValidBatch(b), Meta(b, m), TokenRow
  <2> QED BY ONLY <1>8, <1>13, <2>1
<1>16. OnlineSoftmax(l, p[2], y, PageKeys(l, p, m)) = Alone(b[s].req, y, l.bn)
  BY <1>4, <1>8, <1>13, PagedFold
<1>17. t = << <<"out", RowOf(b, s, x), 0>>, << TokenKey(b, s, x), 0, Alone(b[s].req, y, l.bn) >> >>
  BY <1>1, <1>3, <1>9, <1>15, <1>16, OneHead
<1> QED BY <1>13, <1>14, <1>17 DEF TokenTerm

\* Every token gets its attention.
LEMMA PagedComplete ==
  ASSUME NEW b, ValidBatch(b), NEW m, Meta(b, m), CachedFor(b, m), NEW seqs \in Nat, Len(b) <= seqs,
         NEW l, PagedLaunch(l, seqs), NEW s, NEW x, IsToken(b, s, x)
  PROVE  << <<"out", RowOf(b, s, x), 0>>, TokenTerm(b, s, x, l.bn) >> \in AllStores(l, m)
<1> DEFINE y == b[s].start + x
           k == y \div l.bm
           p == <<s - 1, k, 0>>
           z == MaxBlocksPerReq * PageSize
           t == << <<"out", RowOf(b, s, x), 0>>, TokenTerm(b, s, x, l.bn) >>
<1>1. /\ l.kernel = "paged" /\ l.bm \in Nat \ {0} /\ l.hq = 1 /\ l.hk = 1
      /\ l.grid = (0 .. seqs - 1) \X (0 .. Cdiv(z, l.bm) - 1) \X {0}
  BY DEF PagedLaunch
<1>2. s \in 1 .. Len(b) /\ x \in 0 .. b[s].n - 1 /\ Len(b) \in Nat
  BY DEF IsToken, ValidBatch
<1>3. /\ KLen(m, s - 1) = b[s].start + b[s].n /\ QFirst(m, s - 1) = b[s].start
      /\ b[s].start \in Nat /\ b[s].n \in Nat
  BY <1>2, MetaOf
<1>4. /\ y \in 0 .. b[s].start + b[s].n - 1 /\ QStart(m, s - 1) + (y - QFirst(m, s - 1)) = RowOf(b, s, x)
      /\ Load(m, <<"tok", RowOf(b, s, x)>>) = TokenKey(b, s, x)
  <2>1. /\ b[s].start + x \in 0 .. b[s].start + b[s].n - 1
        /\ QStart(m, s - 1) + ((b[s].start + x) - QFirst(m, s - 1)) = RowOf(b, s, x)
        /\ Load(m, <<"tok", RowOf(b, s, x)>>) = TokenKey(b, s, x)
    BY ONLY ValidBatch(b), Meta(b, m), IsToken(b, s, x), TokenRow
  <2> QED BY ONLY <2>1
<1>5. z \in Nat /\ y \in 0 .. z - 1
  <2> DEFINE w == Len(b[s].blocks) * PageSize
  <2>1. Entry(b[s])
    BY <1>2, EntryIs
  <2>2. w \in Nat /\ y \in 0 .. w - 1
    BY <1>4, <2>1, ChunkHeld DEF Held
  <2>3. w <= z /\ z \in Nat
    <3>1. Len(b[s].blocks) \in Nat /\ MaxBlocksPerReq \in Nat /\ PageSize \in Nat /\ Len(b[s].blocks) <= MaxBlocksPerReq
      BY <2>1, CacheAssumption DEF Entry
    <3> QED BY ONLY <3>1, MulMono
  <2> HIDE DEF w, y, z
  <2> QED BY ONLY <2>2, <2>3
<1>6. y \in Nat
  <2> HIDE DEF y, z
  <2> QED BY <1>5
<1>d. y < b[s].start + b[s].n /\ b[s].start <= y
  <2>1. x \in 0 .. b[s].n - 1 /\ b[s].start \in Nat /\ b[s].n \in Nat
    BY ONLY <1>2, <1>3
  <2>2. PICK v, n : v = b[s].start /\ n = b[s].n
    OBVIOUS
  <2>3. v + x < v + n /\ v <= v + x
    BY ONLY <2>1, <2>2
  <2> QED BY ONLY <2>2, <2>3 DEF y
<1> HIDE DEF y, z, p, t
<1>7. /\ y \div l.bm \in 0 .. Cdiv(z, l.bm) - 1
      /\ y % l.bm \in 0 .. l.bm - 1
      /\ (y \div l.bm) * l.bm + (y % l.bm) = y
  <2>1. l.bm \in Nat \ {0}
    BY <1>1
  <2> QED BY ONLY <1>5, <2>1, TileOf
<1>8. k \in 0 .. Cdiv(z, l.bm) - 1 /\ k \in Nat /\ k * l.bm \in Nat /\ k * l.bm <= y /\ y < k * l.bm + l.bm
  <2> DEFINE w == l.bm
             r == y % l.bm
             c == Cdiv(z, l.bm)
  <2>1. w \in Nat \ {0} /\ r \in 0 .. w - 1 /\ k * w + r = y /\ k \in 0 .. c - 1
    BY <1>1, <1>7
  <2> HIDE DEF w, r, k, c
  <2>2. k \in Nat
    BY ONLY <2>1
  <2>3. k * w \in Nat
    BY ONLY <2>1, <2>2, MulSucc
  <2>4. k * w <= y /\ y < k * w + w
    BY ONLY <1>6, <2>1, <2>3
  <2> QED BY <2>1, <2>2, <2>3, <2>4 DEF w, c
<1> HIDE DEF k
<1>9. y \in Lanes(k, l.bm)
  <2>1. l.bm \in Nat \ {0}
    BY <1>1
  <2> QED BY ONLY <1>6, <1>8, <2>1, LaneIs
<1>10. p \in l.grid /\ p[1] = s - 1 /\ p[2] = k /\ p[3] = 0
  <2>1. s - 1 \in 0 .. seqs - 1
    BY ONLY <1>2, seqs \in Nat, Len(b) <= seqs
  <2> QED BY <1>1, <1>8, <2>1 DEF p
<1>11. OnlineSoftmax(l, k, y, PageKeys(l, p, m)) = Alone(b[s].req, y, l.bn)
  <2>1. s \in 1 .. Len(b)
    BY <1>2
  <2> QED BY <1>4, <1>8, <1>9, <1>10, <2>1, PagedFold
<1>12. t = << <<"out", QStart(m, p[1]) + (y - QFirst(m, p[1])), p[3]>>,
              << Load(m, <<"tok", QStart(m, p[1]) + (y - QFirst(m, p[1]))>>),
                 kv_head_of(l, p[3]), OnlineSoftmax(l, p[2], y, PageKeys(l, p, m)) >> >>
  <2>1. t = << <<"out", RowOf(b, s, x), 0>>, << TokenKey(b, s, x), 0, Alone(b[s].req, y, l.bn) >> >>
    BY DEF t, TokenTerm, y
  <2>2. kv_head_of(l, p[3]) = 0
    BY <1>1, <1>10, OneHead
  <2> QED BY ONLY <1>4, <1>10, <1>11, <2>1, <2>2
<1>13. ~ (p[2] * l.bm >= KLen(m, p[1]) \/ (p[2] + 1) * l.bm <= QFirst(m, p[1]))
  <2>1. (k + 1) * l.bm = k * l.bm + l.bm
    <3>1. k \in Nat /\ l.bm \in Nat
      BY <1>1, <1>8
    <3> QED BY ONLY <3>1, MulSucc
  <2>2. y < b[s].start + b[s].n /\ b[s].start <= y
    BY ONLY <1>d
  <2>3. ~ (k * l.bm >= b[s].start + b[s].n)
    <3> DEFINE q == k * l.bm
    <3>1. q \in Nat /\ q <= y
      BY <1>8
    <3> HIDE DEF q
    <3>2. ~ (q >= b[s].start + b[s].n)
      BY <1>3, <1>6, <2>2, <3>1
    <3> QED BY <3>2 DEF q
  <2>4. ~ ((k + 1) * l.bm <= b[s].start)
    <3> DEFINE q == (k + 1) * l.bm
    <3>1. y < q /\ q \in Nat
      BY <1>1, <1>8, <2>1
    <3> HIDE DEF q
    <3>2. ~ (q <= b[s].start)
      BY <1>3, <1>6, <2>2, <3>1
    <3> QED BY <3>2 DEF q
  <2> QED BY ONLY <1>3, <1>10, <2>3, <2>4
<1>14. y \in {v \in Lanes(p[2], l.bm) : QFirst(m, p[1]) <= v /\ v < KLen(m, p[1])}
  <2>1. y < b[s].start + b[s].n /\ b[s].start <= y
    BY ONLY <1>d
  <2> QED BY ONLY <1>3, <1>9, <1>10, <2>1
<1>15. t \in _paged_attn_fwd_block_kernel(l, p, m)
  BY ONLY <1>12, <1>13, <1>14, PagedStores
<1>16. t \in Stored(l, p, 0, m)
  BY <1>1, <1>15, PagedStored
<1> QED BY <1>10, <1>16, InAllStores DEF t

\* So the paged launch leaves the attention of each token in its row.
LEMMA PagedFinish ==
  ASSUME NEW b, ValidBatch(b), NEW m, Meta(b, m), CachedFor(b, m), NEW seqs \in Nat, NEW tokens, Padding(b, seqs, tokens, m),
         Len(b) <= seqs, NEW l, PagedLaunch(l, seqs), NEW n, n = Write(AllStores(l, m), m)
  PROVE  /\ \A s, x : IsToken(b, s, x) => Load(n, <<"out", RowOf(b, s, x), 0>>) = TokenTerm(b, s, x, l.bn)
         /\ \A c : c[1] # "out" => Load(n, c) = Load(m, c)
<1> DEFINE S == AllStores(l, m)
<1>1. ASSUME NEW t \in S
      PROVE  \E s, x : IsToken(b, s, x) /\ t = << <<"out", RowOf(b, s, x), 0>>, TokenTerm(b, s, x, l.bn) >>
  BY PagedSound
<1>2. ASSUME NEW s, NEW x, IsToken(b, s, x)
      PROVE  << <<"out", RowOf(b, s, x), 0>>, TokenTerm(b, s, x, l.bn) >> \in S
  BY <1>2, PagedComplete
<1> HIDE DEF S
<1>3. ASSUME NEW s, NEW x, IsToken(b, s, x) PROVE Load(n, <<"out", RowOf(b, s, x), 0>>) = TokenTerm(b, s, x, l.bn)
  <2> DEFINE c == <<"out", RowOf(b, s, x), 0>>
             v == TokenTerm(b, s, x, l.bn)
  <2>1. << c, v >> \in S
    BY <1>2, <1>3
  <2>2. ASSUME NEW t \in S, t[1] = c PROVE t[2] = v
    <3>1. PICK u, y : IsToken(b, u, y) /\ t = << <<"out", RowOf(b, u, y), 0>>, TokenTerm(b, u, y, l.bn) >>
      BY <1>1
    <3>2. RowOf(b, u, y) = RowOf(b, s, x) /\ t[2] = TokenTerm(b, u, y, l.bn)
      BY <2>2, <3>1
    <3>3. u = s /\ y = x
      BY <1>3, <3>1, <3>2, TokensApart
    <3> QED BY <3>2, <3>3
  <2> HIDE DEF c, v
  <2>3. Load(Write(S, m), c) = v
    BY ONLY <2>1, <2>2, WriteStored
  <2> QED BY <2>3 DEF c, v, S
<1>4. ASSUME NEW c, c[1] # "out" PROVE Load(n, c) = Load(m, c)
  <2>1. ASSUME NEW t \in S PROVE t[1] # c
    <3>1. PICK s, x : t = << <<"out", RowOf(b, s, x), 0>>, TokenTerm(b, s, x, l.bn) >>
      BY <1>1
    <3>2. t[1][1] = "out"
      BY <3>1
    <3> QED BY <1>4, <3>2
  <2> QED BY <2>1, WriteKept DEF S
<1> QED BY <1>3, <1>4

-----------------------------------------------------------------------------
\* Lanes in ascending order: each of them, once.
LEMMA AscendingIs ==
  ASSUME NEW n \in Nat, NEW S \in SUBSET (0 .. n - 1)
  PROVE  /\ Cardinality(S) \in Nat /\ Ascending(S) = [i \in 1 .. Cardinality(S) |-> Ascending(S)[i]]
         /\ \A i \in 1 .. Cardinality(S) : Ascending(S)[i] \in S
         /\ \A x \in S : \E i \in 1 .. Cardinality(S) : Ascending(S)[i] = x
<1> DEFINE B(x) == {y \in S : y < x}
           c == Cardinality(S)
<1>1. c \in Nat /\ IsFiniteSet(S)
  BY Count
<1>2. ASSUME NEW x \in S PROVE Cardinality(B(x)) + 1 <= c /\ Cardinality(B(x)) \in Nat
  <2>1. B(x) \in SUBSET S /\ x \in S /\ x \notin B(x)
    <3>1. x \in Int
      OBVIOUS
    <3> QED BY <3>1
  <2> HIDE DEF B
  <2>2. Cardinality(B(x)) + 1 <= Cardinality(S) /\ Cardinality(B(x)) \in 0 .. n
    BY <2>1, CountAdd
  <2> QED BY <2>2
<1>3. ASSUME NEW x \in S, NEW z \in S, x < z PROVE Cardinality(B(x)) # Cardinality(B(z))
  <2>1. B(x) \in SUBSET B(z) /\ x \in B(z) /\ x \notin B(x) /\ B(z) \in SUBSET (0 .. n - 1)
    <3>1. x \in Int /\ z \in Int /\ \A y \in S : y \in Int
      OBVIOUS
    <3>2. \A y \in B(x) : y \in B(z)
      BY <1>3, <3>1
    <3>3. x \in B(z) /\ x \notin B(x)
      BY <1>3, <3>1
    <3>4. \A y \in B(z) : y \in S
      OBVIOUS
    <3> HIDE DEF B
    <3> QED BY <3>2, <3>3, <3>4
  <2> HIDE DEF B
  <2>2. Cardinality(B(x)) + 1 <= Cardinality(B(z)) /\ Cardinality(B(x)) \in 0 .. n /\ Cardinality(B(z)) \in 0 .. n
    BY <2>1, CountAdd
  <2> QED BY <2>2
<1>4. ASSUME NEW x \in S, NEW z \in S, Cardinality(B(x)) = Cardinality(B(z)) PROVE x = z
  <2>1. x \in Int /\ z \in Int
    OBVIOUS
  <2>2. ~ (x < z) /\ ~ (z < x)
    BY <1>3, <1>4
  <2> QED BY ONLY <2>1, <2>2
<1> DEFINE f == [x \in S |-> Cardinality(B(x)) + 1]
<1> HIDE DEF B
<1>5. f \in Surjection(S, 1 .. c)
  <2>1. f \in [S -> 1 .. c]
    BY <1>1, <1>2
  <2>2. \A x, z \in S : f[x] = f[z] => x = z
    <3> SUFFICES ASSUME NEW x \in S, NEW z \in S, f[x] = f[z] PROVE x = z
      OBVIOUS
    <3>1. Cardinality(B(x)) + 1 = Cardinality(B(z)) + 1
      OBVIOUS
    <3>2. Cardinality(B(x)) = Cardinality(B(z))
      BY <1>2, <3>1
    <3> QED BY <1>4, <3>2
  <2>3. f \in Injection(S, 1 .. c)
    BY <2>1, <2>2 DEF Injection, IsInjective
  <2>4. IsFiniteSet(1 .. c) /\ Cardinality(1 .. c) = c
    <3>1. 1 \in Int /\ c \in Int
      BY <1>1
    <3>2. IsFiniteSet(1 .. c) /\ Cardinality(1 .. c) = IF 1 > c THEN 0 ELSE c - 1 + 1
      BY ONLY <3>1, FS_Interval
    <3> HIDE DEF c
    <3> QED BY <1>1, <3>2
  <2>5. Cardinality(S) = Cardinality(1 .. c)
    BY <2>4
  <2> HIDE DEF f, c
  <2> QED BY <2>3, <2>4, <2>5, FS_Injection
<1>6. \A i \in 1 .. c : \E x \in S : f[x] = i
  BY <1>5 DEF Surjection
<1>7. ASSUME NEW i \in 1 .. c PROVE Ascending(S)[i] \in S /\ Cardinality(B(Ascending(S)[i])) = i - 1
  <2>1. PICK x \in S : f[x] = i
    BY <1>6
  <2>2. Cardinality(B(x)) = i - 1
    BY <1>2, <2>1
  <2>3. Ascending(S)[i] = CHOOSE y \in S : Cardinality(B(y)) = i - 1
    BY DEF Ascending, B
  <2> QED BY <2>2, <2>3
<1>8. ASSUME NEW x \in S PROVE \E i \in 1 .. c : Ascending(S)[i] = x
  <2>1. PICK i : i = Cardinality(B(x)) + 1
    OBVIOUS
  <2>2. i \in 1 .. c /\ i - 1 = Cardinality(B(x))
    BY <1>1, <1>2, <2>1
  <2>3. Ascending(S)[i] \in S /\ Cardinality(B(Ascending(S)[i])) = Cardinality(B(x))
    BY <1>7, <2>2
  <2>4. Ascending(S)[i] = x
    BY <1>4, <2>3
  <2> QED BY <2>2, <2>4
<1>9. Ascending(S) = [i \in 1 .. c |-> Ascending(S)[i]]
  <2> DEFINE g(i) == CHOOSE x \in S : Cardinality({y \in S : y < x}) = i - 1
  <2>1. Ascending(S) = [i \in 1 .. c |-> g(i)]
    BY DEF Ascending
  <2> HIDE DEF g
  <2> QED BY <2>1
<1> QED BY <1>1, <1>7, <1>8, <1>9

\* What flex attention makes of a query: its sequence, its position, and the slots it sees.
FlexSeq(l, m, q) ==
  IF l.num_seqs > 1 THEN CHOOSE s \in 0 .. l.num_seqs - 1 : QStart(m, s) <= q /\ q < QStart(m, s + 1) ELSE 0
FlexPos(l, m, q) ==
  LET s == FlexSeq(l, m, q)
  IN  IF l.num_seqs > 1 THEN (KLen(m, s) - (QStart(m, s + 1) - QStart(m, s))) + (q - QStart(m, s))
                        ELSE (KLen(m, 0) - l.num_tokens) + q
Sees(m, s, pos, slot) ==
  LET j == physical_to_logical(m, s, slot \div PageSize)
      idx == j * PageSize + (slot % PageSize)
  IN  j >= 0 /\ idx <= pos /\ idx < KLen(m, s)
FlexSlots(l, m, q) ==
  {slot \in 0 .. MaxBlocks * PageSize - 1 : Sees(m, FlexSeq(l, m, q), FlexPos(l, m, q), slot)}
FlexTerm(l, m, q) ==
  << Load(m, <<"tok", q>>),
     [i \in DOMAIN Ascending(FlexSlots(l, m, q)) |->
        << Load(m, <<"kc", Ascending(FlexSlots(l, m, q))[i]>>), Load(m, <<"vc", Ascending(FlexSlots(l, m, q))[i]>>) >>] >>

LEMMA FlexStores ==
  ASSUME NEW l, NEW m
  PROVE  _prepare_paged_kv(l, m) = {<< <<"flex", q>>, FlexTerm(l, m, q) >> : q \in 0 .. l.num_tokens - 1}
BY DEF _prepare_paged_kv, FlexTerm, FlexSlots, Sees, FlexPos, FlexSeq, QStart, KLen

\* The query of a token is its own sequence's, at its own position.
LEMMA FlexQuery ==
  ASSUME NEW b, ValidBatch(b), NEW m, Meta(b, m), NEW l, FlexLaunch(l, b), NEW s, NEW x, IsToken(b, s, x)
  PROVE  FlexSeq(l, m, RowOf(b, s, x)) = s - 1 /\ FlexPos(l, m, RowOf(b, s, x)) = b[s].start + x
<1> DEFINE r == RowOf(b, s, x)
           L == QLens(b)
           P(z) == QStart(m, z) <= r /\ r < QStart(m, z + 1)
<1>1. l.num_seqs = Len(b) /\ l.num_tokens = Total(b)
  BY DEF FlexLaunch
<1>2. s \in 1 .. Len(b) /\ x \in 0 .. b[s].n - 1 /\ Len(b) \in Nat
  BY DEF IsToken, ValidBatch
<1>3. /\ KLen(m, s - 1) = b[s].start + b[s].n /\ b[s].start \in Nat /\ b[s].n \in Nat
  BY <1>2, MetaOf
<1>4. L \in Seq(Nat) /\ Len(L) = Len(b) /\ L[s] = b[s].n /\ Total(b) = Before(L, Len(b)) /\ Total(b) \in Nat
  BY <1>2, BatchLens
<1>5. r \in 0 .. Total(b) - 1
  BY TokenIs
<1>6. r = Before(L, s - 1) + x
  BY DEF RowOf
<1>7. \A z \in 0 .. Len(b) : QStart(m, z) = Before(L, z)
  BY DEF Meta, QStart
<1> HIDE DEF r, L
<1>8. Before(L, s - 1) \in Nat /\ Before(L, s) = Before(L, s - 1) + b[s].n
  <2>1. s \in 1 .. Len(L) /\ s \in 0 .. Len(L) /\ s - 1 \in 0 .. Len(L)
    BY <1>2, <1>4
  <2> QED BY ONLY <1>4, <2>1, BeforeStep
<1>9. QStart(m, s - 1) = Before(L, s - 1) /\ QStart(m, (s - 1) + 1) = Before(L, s)
  <2>1. s - 1 \in 0 .. Len(b) /\ s \in 0 .. Len(b) /\ (s - 1) + 1 = s
    BY <1>2
  <2> QED BY <1>7, <2>1
<1>10. P(s - 1) /\ s - 1 \in 0 .. Len(b) - 1
  BY <1>2, <1>3, <1>6, <1>8, <1>9
<1>11. ASSUME NEW z \in 0 .. Len(b) - 1, P(z) PROVE z = s - 1
  <2>1. PICK u : u = z + 1
    OBVIOUS
  <2>2. u \in 1 .. Len(L) /\ u - 1 = z /\ u \in 0 .. Len(b) /\ z \in 0 .. Len(b) /\ s \in 1 .. Len(L) /\ r \in Int
    BY <1>2, <1>4, <1>5, <2>1
  <2>3. Before(L, u - 1) <= r /\ r < Before(L, u)
    BY <1>7, <1>11, <2>1, <2>2
  <2>4. Before(L, s - 1) <= r /\ r < Before(L, s)
    BY <1>9, <1>10
  <2>5. u = s
    BY ONLY <1>4, <2>2, <2>3, <2>4, RowOfOne
  <2> QED BY <1>2, <2>2, <2>5
<1>12. FlexSeq(l, m, r) = s - 1
  <2>1. CASE l.num_seqs > 1
    <3>1. FlexSeq(l, m, r) = CHOOSE z \in 0 .. Len(b) - 1 : P(z)
      BY <1>1, <2>1 DEF FlexSeq
    <3> HIDE DEF P
    <3> QED BY ONLY <1>10, <1>11, <3>1
  <2>2. CASE ~ (l.num_seqs > 1)
    <3>1. FlexSeq(l, m, r) = 0
      BY <2>2 DEF FlexSeq
    <3> QED BY <1>1, <1>2, <2>2, <3>1
  <2> QED BY <2>1, <2>2
<1> DEFINE a == Before(L, s - 1)
           z == Before(L, s)
           u == b[s].start
           v == b[s].n
<1>13. a \in Nat /\ z = a + v /\ u \in Nat /\ v \in Nat /\ x \in Nat /\ r = a + x
  BY <1>2, <1>3, <1>6, <1>8
<1>14. FlexPos(l, m, r) = u + x
  <2>1. CASE l.num_seqs > 1
    <3>1. FlexPos(l, m, r) = ((u + v) - (z - a)) + (r - a)
      BY <1>3, <1>9, <1>12, <2>1 DEF FlexPos
    <3> HIDE DEF u, v, a, z
    <3> QED BY ONLY <1>13, <3>1
  <2>2. CASE ~ (l.num_seqs > 1)
    <3>1. Len(b) = 1 /\ s = 1 /\ s - 1 = 0
      <4>1. Len(b) \in Nat /\ ~ (Len(b) > 1)
        BY <1>1, <1>2, <2>2
      <4>2. PICK k : k = Len(b)
        OBVIOUS
      <4>3. k \in Nat /\ ~ (k > 1) /\ s \in 1 .. k
        BY <1>2, <4>1, <4>2
      <4>4. k = 1 /\ s = 1 /\ s - 1 = 0
        BY ONLY <4>3
      <4> QED BY <4>2, <4>4
    <3>2. FlexPos(l, m, r) = ((u + v) - Total(b)) + r
      BY <1>1, <1>3, <2>2, <3>1 DEF FlexPos
    <3>3. Total(b) = z /\ a = 0
      <4>1. 0 \in 0 .. Len(L)
        BY <1>4
      <4>2. Before(L, 0) = 0
        BY ONLY <1>4, <4>1, BeforeStep
      <4> QED BY <1>4, <3>1, <4>2
    <3> HIDE DEF u, v, a, z
    <3> QED BY ONLY <1>13, <3>2, <3>3
  <2> QED BY <2>1, <2>2
<1> QED BY <1>12, <1>14 DEF r

-----------------------------------------------------------------------------
\* The page table inverted.
LEMMA LogicalIs ==
  ASSUME NEW b, ValidBatch(b), NEW m, Meta(b, m), NEW s \in 1 .. Len(b), NEW k \in Nat
  PROVE  LET v == physical_to_logical(m, s - 1, k)
         IN  /\ \A j \in 0 .. Len(b[s].blocks) - 1 : b[s].blocks[j + 1] = k => v = j
             /\ v >= 0 => v \in 0 .. Len(b[s].blocks) - 1 /\ b[s].blocks[v + 1] = k
<1> DEFINE e == b[s]
           v == physical_to_logical(m, s - 1, k)
           js == {j \in 0 .. MaxBlocksPerReq - 1 : Load(m, <<"bt", s - 1, j>>) = k}
<1>1. Entry(e)
  BY EntryIs
<1>2. \A j \in 0 .. MaxBlocksPerReq - 1 : Load(m, <<"bt", s - 1, j>>) = BlockOf(e, j)
  BY DEF Meta
<1>3. v = IF js = {} THEN -1 ELSE CHOOSE j \in js : \A i \in js : i <= j
  BY DEF physical_to_logical
<1> HIDE DEF e, v
<1>4. /\ Len(e.blocks) \in Nat /\ MaxBlocksPerReq \in Nat /\ Len(e.blocks) <= MaxBlocksPerReq
      /\ \A i, u \in 1 .. Len(e.blocks) : e.blocks[i] = e.blocks[u] => i = u
  BY <1>1, CacheAssumption DEF Entry
<1>5. ASSUME NEW j PROVE j \in js <=> j \in 0 .. Len(e.blocks) - 1 /\ e.blocks[j + 1] = k
  <2>1. j \in js <=> j \in 0 .. MaxBlocksPerReq - 1 /\ BlockOf(e, j) = k
    BY <1>2
  <2>2. j \in 0 .. MaxBlocksPerReq - 1 => (BlockOf(e, j) = k <=> j < Len(e.blocks) /\ e.blocks[j + 1] = k)
    BY <1>4 DEF BlockOf
  <2> HIDE DEF js
  <2> QED BY <1>4, <2>1, <2>2
<1>6. ASSUME NEW j \in js PROVE v = j
  <2>1. \A i \in js : i = j
    <3> SUFFICES ASSUME NEW i \in js PROVE i = j
      OBVIOUS
    <3>1. /\ i \in 0 .. Len(e.blocks) - 1 /\ e.blocks[i + 1] = k
          /\ j \in 0 .. Len(e.blocks) - 1 /\ e.blocks[j + 1] = k
      BY <1>5
    <3>2. i + 1 \in 1 .. Len(e.blocks) /\ j + 1 \in 1 .. Len(e.blocks)
      BY <1>4, <3>1
    <3>3. i + 1 = j + 1
      BY <1>4, <3>1, <3>2
    <3> QED BY <3>1, <3>3
  <2>2. js # {} /\ j <= j
    OBVIOUS
  <2>3. v = CHOOSE i \in js : \A u \in js : u <= i
    BY <1>3, <2>2
  <2> HIDE DEF js
  <2>4. \A u \in js : u <= j
    BY <2>1, <2>2
  <2>5. v \in js
    BY <2>3, <2>4
  <2> QED BY <2>1, <2>5
<1>7. ASSUME NEW j \in 0 .. Len(e.blocks) - 1, e.blocks[j + 1] = k PROVE v = j
  BY <1>5, <1>6, <1>7
<1>8. ASSUME v >= 0 PROVE v \in 0 .. Len(e.blocks) - 1 /\ e.blocks[v + 1] = k
  <2>1. CASE js = {}
    BY <1>3, <1>8, <2>1
  <2>2. CASE js # {}
    <3>1. PICK j : j \in js
      BY <2>2
    <3>2. v \in js
      BY <1>6, <3>1
    <3> QED BY <1>5, <3>2
  <2> QED BY <2>1, <2>2
<1> QED BY <1>7, <1>8 DEF e, v

\* A query sees the slots of its own positions, and no other.
LEMMA SeesIs ==
  ASSUME NEW b, ValidBatch(b), NEW m, Meta(b, m), NEW s \in 1 .. Len(b),
         NEW pos \in 0 .. b[s].start + b[s].n - 1, NEW slot \in 0 .. MaxBlocks * PageSize - 1
  PROVE  Sees(m, s - 1, pos, slot) <=> \E p \in 0 .. pos : slot = SlotOf(b[s], p)
<1> DEFINE e == b[s]
           P == PageSize
           k == slot \div P
           r == slot % P
           j == physical_to_logical(m, s - 1, k)
<1>1. Entry(e) /\ KLen(m, s - 1) = e.start + e.n /\ e.start \in Nat /\ e.n \in Nat
  BY EntryIs, MetaOf
<1>2. pos \in 0 .. e.start + e.n - 1
  OBVIOUS
<1>3. P \in Nat \ {0} /\ MaxBlocks \in Nat
  BY CacheAssumption
<1>4. slot \in Nat
  <2>1. MaxBlocks * P \in Nat
    <3>1. P \in Nat
      BY <1>3
    <3> QED BY ONLY <1>3, <3>1, MulSucc
  <2>2. PICK z : z = MaxBlocks * P
    OBVIOUS
  <2>3. slot \in 0 .. z - 1
    BY <2>2
  <2> QED BY ONLY <2>1, <2>2, <2>3
<1>5. k \in Nat /\ r \in Nat /\ r < P /\ slot = k * P + r
  BY ONLY <1>3, <1>4, DivMod
<1>6. Sees(m, s - 1, pos, slot) <=> j >= 0 /\ j * P + r <= pos /\ j * P + r < KLen(m, s - 1)
  BY DEF Sees
<1>7. /\ \A u \in 0 .. Len(e.blocks) - 1 : e.blocks[u + 1] = k => j = u
      /\ j >= 0 => j \in 0 .. Len(e.blocks) - 1 /\ e.blocks[j + 1] = k
  BY ONLY <1>5, ValidBatch(b), Meta(b, m), s \in 1 .. Len(b), LogicalIs
<1>8. Len(e.blocks) \in Nat /\ \A p \in 0 .. e.start + e.n - 1 : p \in Held(e)
  BY <1>1, ChunkHeld DEF Entry
<1> HIDE DEF e, P, k, r, j
<1>9. ASSUME Sees(m, s - 1, pos, slot) PROVE \E p \in 0 .. pos : slot = SlotOf(e, p)
  <2>1. j >= 0 /\ j * P + r <= pos
    BY <1>6, <1>9
  <2>2. j \in 0 .. Len(e.blocks) - 1 /\ e.blocks[j + 1] = k
    BY <1>7, <2>1
  <2>3. j \in Nat
    BY <1>8, <2>2
  <2>4. j * P \in Nat
    <3>1. P \in Nat
      BY <1>3
    <3> QED BY ONLY <2>3, <3>1, MulSucc
  <2>5. PICK p : p = j * P + r
    OBVIOUS
  <2>6. p \in Nat /\ p <= pos /\ p \in 0 .. pos
    <3> DEFINE z == j * P
    <3>1. z \in Nat /\ p = z + r /\ z + r <= pos
      BY <2>1, <2>4, <2>5
    <3> HIDE DEF z
    <3>2. pos \in Int
      BY <1>1, <1>2
    <3> QED BY ONLY <1>5, <3>1, <3>2
  <2>7. p \div P = j /\ p % P = r
    BY ONLY <1>3, <1>5, <2>3, <2>5, <2>6, DivUnique
  <2>8. SlotOf(e, p) = slot
    <3>1. SlotOf(e, p) = e.blocks[j + 1] * P + r
      BY <2>7 DEF SlotOf, P
    <3> QED BY ONLY <1>5, <2>2, <3>1
  <2> QED BY <2>6, <2>8
<1>10. ASSUME NEW p \in 0 .. pos, slot = SlotOf(e, p) PROVE Sees(m, s - 1, pos, slot)
  <2>1. p \in 0 .. e.start + e.n - 1 /\ p <= pos /\ p < e.start + e.n
    BY <1>1, <1>2
  <2>2. p \in Held(e)
    BY <1>8, <2>1
  <2>3. /\ p \div P \in 0 .. Len(e.blocks) - 1 /\ p = (p \div P) * P + (p % P)
        /\ SlotOf(e, p) \div P = e.blocks[(p \div P) + 1] /\ SlotOf(e, p) % P = p % P
    BY <1>1, <2>2, SlotIs DEF Held, P
  <2>4. k = e.blocks[(p \div P) + 1] /\ r = p % P
    BY <1>10, <2>3 DEF k, r
  <2>5. j = p \div P
    BY <1>7, <2>3, <2>4
  <2>6. j * P + r = p
    BY <2>3, <2>4, <2>5
  <2>7. j >= 0
    BY <1>8, <2>3, <2>5
  <2> QED BY <1>1, <1>6, <2>1, <2>6, <2>7
<1> QED BY <1>9, <1>10 DEF e

\* What flex attention owes a token: its own keys, each once.
FlexRight(b, s, x, v) ==
  /\ v[1] = TokenKey(b, s, x) /\ Len(v[2]) = b[s].start + x + 1
  /\ ToSet(v[2]) = {<< <<b[s].req, p>>, <<b[s].req, p>> >> : p \in 0 .. b[s].start + x}

LEMMA FlexTermIs ==
  ASSUME NEW b, ValidBatch(b), NEW m, Meta(b, m), CachedFor(b, m), NEW l, FlexLaunch(l, b),
         NEW s, NEW x, IsToken(b, s, x)
  PROVE  FlexRight(b, s, x, FlexTerm(l, m, RowOf(b, s, x)))
<1> DEFINE q == RowOf(b, s, x)
           e == b[s]
           pos == e.start + x
           S == FlexSlots(l, m, q)
           A == Ascending(S)
           v == FlexTerm(l, m, q)
           N == MaxBlocks * PageSize
<1>1. s \in 1 .. Len(b)
  BY DEF IsToken
<1>2. pos \in 0 .. e.start + e.n - 1 /\ Load(m, <<"tok", q>>) = TokenKey(b, s, x)
  BY TokenRow
<1>3. FlexSeq(l, m, q) = s - 1 /\ FlexPos(l, m, q) = pos
  BY FlexQuery
<1>4. Entry(e) /\ e.start \in Nat /\ e.n \in Nat
  BY <1>1, EntryIs DEF Entry
<1>5. N \in Nat
  <2>1. MaxBlocks \in Nat /\ PageSize \in Nat
    BY CacheAssumption
  <2> QED BY ONLY <2>1, MulSucc
<1>6. \A p \in 0 .. e.start + e.n - 1 : p \in Held(e) /\ SlotOf(e, p) \in 0 .. N - 1
  <2> SUFFICES ASSUME NEW p \in 0 .. e.start + e.n - 1 PROVE p \in Held(e) /\ SlotOf(e, p) \in 0 .. N - 1
    OBVIOUS
  <2>1. p \in Held(e)
    BY <1>4, ChunkHeld
  <2> QED BY <1>4, <2>1, SlotIs DEF Held
<1>7. S = {slot \in 0 .. N - 1 : \E p \in 0 .. pos : slot = SlotOf(e, p)}
  <2>1. S = {slot \in 0 .. N - 1 : Sees(m, s - 1, pos, slot)}
    BY <1>3 DEF FlexSlots
  <2>2. ASSUME NEW slot \in 0 .. N - 1 PROVE Sees(m, s - 1, pos, slot) <=> \E p \in 0 .. pos : slot = SlotOf(e, p)
    BY <1>1, <1>2, SeesIs
  <2> HIDE DEF S, pos, e, N
  <2> QED BY <2>1, <2>2
<1>8. \A p, u \in 0 .. pos : SlotOf(e, p) = SlotOf(e, u) => p = u
  <2> SUFFICES ASSUME NEW p \in 0 .. pos, NEW u \in 0 .. pos, SlotOf(e, p) = SlotOf(e, u) PROVE p = u
    OBVIOUS
  <2>1. p \in 0 .. e.start + e.n - 1 /\ u \in 0 .. e.start + e.n - 1
    BY <1>2, <1>4
  <2>2. p \in Held(e) /\ u \in Held(e)
    BY <1>6, <2>1
  <2> QED BY <1>1, <2>2, SlotsApart
<1>9. v = << Load(m, <<"tok", q>>), [i \in DOMAIN A |-> << Load(m, <<"kc", A[i]>>), Load(m, <<"vc", A[i]>>) >>] >>
  BY DEF FlexTerm
<1>10. ASSUME NEW p \in 0 .. pos
       PROVE  Load(m, <<"kc", SlotOf(e, p)>>) = <<e.req, p>> /\ Load(m, <<"vc", SlotOf(e, p)>>) = <<e.req, p>>
  <2>1. p \in 0 .. e.start + e.n - 1
    BY <1>2, <1>4
  <2> QED BY <1>1, <2>1 DEF CachedFor
<1>11. pos \in Nat /\ \A p \in 0 .. pos : SlotOf(e, p) \in 0 .. N - 1
  <2>1. pos \in Nat
    BY <1>2, <1>4
  <2>2. \A p \in 0 .. pos : p \in 0 .. e.start + e.n - 1
    BY <1>2, <1>4
  <2> QED BY <1>6, <2>1, <2>2
<1> HIDE DEF S, A, v, e, N, q, pos
<1>12. Cardinality(S) = pos + 1
  <2> DEFINE f == [p \in 0 .. pos |-> SlotOf(e, p)]
             T == 0 .. pos
  <2>1. IsFiniteSet(T) /\ Cardinality(T) = pos + 1
    <3>1. 0 \in Int /\ pos \in Int
      BY <1>11
    <3>2. IsFiniteSet(T) /\ Cardinality(T) = IF 0 > pos THEN 0 ELSE pos - 0 + 1
      BY ONLY <3>1, FS_Interval
    <3> QED BY <1>11, <3>2
  <2>2. f \in [T -> S]
    BY <1>7, <1>11
  <2>3. \A a, z \in T : f[a] = f[z] => a = z
    BY <1>8
  <2>4. \A t \in S : \E a \in T : f[a] = t
    BY <1>7
  <2> HIDE DEF f, T
  <2>5. f \in Surjection(T, S) /\ f \in Injection(T, S)
    BY <2>2, <2>3, <2>4 DEF Surjection, Injection, IsInjective
  <2>6. Cardinality(S) = Cardinality(T)
    BY <2>1, <2>5, FS_Surjection
  <2> QED BY <2>1, <2>6
<1>13. /\ A = [i \in 1 .. pos + 1 |-> A[i]]
       /\ \A i \in 1 .. pos + 1 : A[i] \in S
       /\ \A z \in S : \E i \in 1 .. pos + 1 : A[i] = z
  <2>1. S \in SUBSET (0 .. N - 1)
    BY <1>7
  <2> QED BY <1>5, <1>12, <2>1, AscendingIs DEF A
<1> DEFINE F == [i \in 1 .. pos + 1 |-> << Load(m, <<"kc", A[i]>>), Load(m, <<"vc", A[i]>>) >>]
<1>14. v[1] = TokenKey(b, s, x) /\ v[2] = F
  <2>1. DOMAIN A = 1 .. pos + 1
    BY ONLY <1>13
  <2> QED BY ONLY <1>2, <1>9, <2>1
<1>15. Len(F) = pos + 1 /\ DOMAIN F = 1 .. pos + 1
  <2>1. pos + 1 \in Nat
    BY <1>11
  <2> QED BY ONLY <2>1
<1>16. ToSet(F) = {<< <<e.req, p>>, <<e.req, p>> >> : p \in 0 .. pos}
  <2>1. ToSet(F) = {F[i] : i \in 1 .. pos + 1}
    BY ONLY <1>15 DEF ToSet
  <2>2. ASSUME NEW i \in 1 .. pos + 1 PROVE \E p \in 0 .. pos : F[i] = << <<e.req, p>>, <<e.req, p>> >>
    <3>1. PICK p \in 0 .. pos : A[i] = SlotOf(e, p)
      BY <1>7, <1>13
    <3>2. F[i] = << Load(m, <<"kc", A[i]>>), Load(m, <<"vc", A[i]>>) >>
      OBVIOUS
    <3> HIDE DEF F
    <3> QED BY <1>10, <3>1, <3>2
  <2>3. ASSUME NEW p \in 0 .. pos PROVE \E i \in 1 .. pos + 1 : F[i] = << <<e.req, p>>, <<e.req, p>> >>
    <3>1. SlotOf(e, p) \in S
      BY <1>7, <1>11
    <3>2. PICK i \in 1 .. pos + 1 : A[i] = SlotOf(e, p)
      BY <1>13, <3>1
    <3>3. F[i] = << Load(m, <<"kc", A[i]>>), Load(m, <<"vc", A[i]>>) >>
      OBVIOUS
    <3> HIDE DEF F
    <3> QED BY <1>10, <3>2, <3>3
  <2> HIDE DEF F
  <2> QED BY ONLY <2>1, <2>2, <2>3
<1> HIDE DEF F
<1>17. Len(v[2]) = pos + 1 /\ ToSet(v[2]) = {<< <<e.req, p>>, <<e.req, p>> >> : p \in 0 .. pos}
  BY ONLY <1>14, <1>15, <1>16
<1> QED BY ONLY <1>14, <1>17 DEF FlexRight, v, e, q, pos

\* So flex attention leaves them for every token.
LEMMA FlexFinish ==
  ASSUME NEW b, ValidBatch(b), NEW m, Meta(b, m), CachedFor(b, m), NEW l, FlexLaunch(l, b),
         NEW n, n = Write(AllStores(l, m), m)
  PROVE  /\ \A s, x : IsToken(b, s, x) => FlexRight(b, s, x, Load(n, <<"flex", RowOf(b, s, x)>>))
         /\ \A c : c[1] # "flex" => Load(n, c) = Load(m, c)
<1> DEFINE S == AllStores(l, m)
<1>1. l.kernel = "flex" /\ l.num_tokens = Total(b) /\ l.grid = {<< 0 >>}
  BY DEF FlexLaunch
<1>2. S = {<< <<"flex", q>>, FlexTerm(l, m, q) >> : q \in 0 .. Total(b) - 1}
  <2>1. \A t : t \in S <=> \E p \in l.grid : t \in Stored(l, p, 0, m)
    BY InAllStores
  <2>2. \A p : Stored(l, p, 0, m) = _prepare_paged_kv(l, m)
    BY <1>1, PagedStored
  <2>3. _prepare_paged_kv(l, m) = {<< <<"flex", q>>, FlexTerm(l, m, q) >> : q \in 0 .. Total(b) - 1}
    BY <1>1, FlexStores
  <2> HIDE DEF S
  <2>4. \A t : t \in S <=> t \in _prepare_paged_kv(l, m)
    BY ONLY <1>1, <2>1, <2>2
  <2> QED BY ONLY <2>3, <2>4
<1> HIDE DEF S
<1>3. ASSUME NEW s, NEW x, IsToken(b, s, x)
      PROVE  FlexRight(b, s, x, Load(n, <<"flex", RowOf(b, s, x)>>))
  <2>1. PICK q : q = RowOf(b, s, x)
    OBVIOUS
  <2>2. q \in 0 .. Total(b) - 1
    BY <1>3, <2>1, TokenIs
  <2>3. << <<"flex", q>>, FlexTerm(l, m, q) >> \in S
    BY <1>2, <2>2
  <2>4. \A t \in S : t[1] = <<"flex", q>> => t[2] = FlexTerm(l, m, q)
    BY <1>2
  <2>5. Load(n, <<"flex", q>>) = FlexTerm(l, m, q)
    BY <2>3, <2>4, WriteStored DEF S
  <2>6. FlexRight(b, s, x, FlexTerm(l, m, q))
    BY <1>3, <2>1, FlexTermIs
  <2> QED BY <2>1, <2>5, <2>6
<1>4. ASSUME NEW c, c[1] # "flex" PROVE Load(n, c) = Load(m, c)
  <2>1. ASSUME NEW t \in S PROVE t[1] # c
    <3>1. t[1][1] = "flex"
      BY <1>2
    <3> QED BY <1>4, <3>1
  <2> QED BY <2>1, WriteKept DEF S
<1> QED BY <1>3, <1>4

-----------------------------------------------------------------------------
\* The four launches of each kind of step.
LEMMA StepLaunches ==
  ASSUME NEW b, NEW tile
  PROVE  /\ LET S == EagerStep(b, tile)
                F == PagedForward(Len(b), Total(b), tile)
            IN  /\ S[1] = [kernel |-> "prepare", batch |-> b, grid |-> {<< 0 >>}]
                /\ S[2] = F[1] /\ S[3] = F[2] /\ S[4] = F[3]
         /\ LET S == GraphStep(b, tile)
                d == dispatch(Len(b), Total(b))
                F == PagedForward(d.num_seqs, d.num_tokens, tile)
            IN  /\ S[1] = [kernel |-> "prepare_graph", batch |-> b, desc |-> d, grid |-> {<< 0 >>}]
                /\ S[2] = F[1] /\ S[3] = F[2] /\ S[4] = F[3]
         /\ LET S == FlexStep(b)
                F == PagedForward(Len(b), Total(b), << 1, 1 >>)
            IN  /\ S[1] = [kernel |-> "prepare", batch |-> b, grid |-> {<< 0 >>}]
                /\ S[2] = F[1] /\ S[3] = F[2]
                /\ S[4] = [kernel |-> "flex", num_seqs |-> Len(b), num_tokens |-> Total(b), grid |-> {<< 0 >>}]
<1>1. ASSUME NEW p, NEW F, F = [i \in 1 .. 3 |-> F[i]]
      PROVE  LET S == << p >> \o F
             IN  S[1] = p /\ S[2] = F[1] /\ S[3] = F[2] /\ S[4] = F[3]
  <2> DEFINE A == << p >>
  <2>1. A = [i \in 1 .. 1 |-> A[i]] /\ A[1] = p
    OBVIOUS
  <2> HIDE DEF A
  <2>2. /\ \A i \in 1 .. 1 : (A \o F)[i] = A[i]
        /\ \A i \in 1 .. 3 : (A \o F)[1 + i] = F[i]
    BY ONLY <1>1, <2>1, 1 \in Nat, 3 \in Nat, Appended
  <2> DEFINE S == A \o F
  <2>3. ASSUME NEW k \in 2 .. 4 PROVE S[k] = F[k - 1]
    <3>1. k - 1 \in 1 .. 3 /\ 1 + (k - 1) = k
      OBVIOUS
    <3> QED BY <2>2, <3>1
  <2>4. S[1] = p
    BY ONLY <2>1, <2>2
  <2> HIDE DEF S
  <2>5. S[2] = F[1] /\ S[3] = F[2] /\ S[4] = F[3]
    BY ONLY <2>3
  <2> QED BY <2>4, <2>5 DEF S, A
<1>2. \A n, t, w : PagedForward(n, t, w) = [i \in 1 .. 3 |-> PagedForward(n, t, w)[i]]
  BY DEF PagedForward
<1>3. LET S == EagerStep(b, tile)
          F == PagedForward(Len(b), Total(b), tile)
      IN  /\ S[1] = [kernel |-> "prepare", batch |-> b, grid |-> {<< 0 >>}]
          /\ S[2] = F[1] /\ S[3] = F[2] /\ S[4] = F[3]
  BY <1>1, <1>2 DEF EagerStep
<1>4. LET S == GraphStep(b, tile)
          d == dispatch(Len(b), Total(b))
          F == PagedForward(d.num_seqs, d.num_tokens, tile)
      IN  /\ S[1] = [kernel |-> "prepare_graph", batch |-> b, desc |-> d, grid |-> {<< 0 >>}]
          /\ S[2] = F[1] /\ S[3] = F[2] /\ S[4] = F[3]
  BY <1>1, <1>2 DEF GraphStep
<1>5. LET S == FlexStep(b)
          F == PagedForward(Len(b), Total(b), << 1, 1 >>)
      IN  /\ S[1] = [kernel |-> "prepare", batch |-> b, grid |-> {<< 0 >>}]
          /\ S[2] = F[1] /\ S[3] = F[2]
          /\ S[4] = [kernel |-> "flex", num_seqs |-> Len(b), num_tokens |-> Total(b), grid |-> {<< 0 >>}]
  <2> DEFINE F == PagedForward(Len(b), Total(b), << 1, 1 >>)
             p == [kernel |-> "prepare", batch |-> b, grid |-> {<< 0 >>}]
             f == [kernel |-> "flex", num_seqs |-> Len(b), num_tokens |-> Total(b), grid |-> {<< 0 >>}]
             A == << p >>
             B == SubSeq(F, 1, 2)
             C == << f >>
  <2>1. FlexStep(b) = (A \o B) \o C
    BY DEF FlexStep
  <2>2. F = [i \in 1 .. 3 |-> F[i]]
    BY <1>2
  <2>3. A = [i \in 1 .. 1 |-> A[i]] /\ A[1] = p /\ C = [i \in 1 .. 1 |-> C[i]] /\ C[1] = f
    OBVIOUS
  <2> HIDE DEF F, p, f, A, C
  <2>4. B = [i \in 1 .. 2 |-> B[i]] /\ B[1] = F[1] /\ B[2] = F[2]
    BY <2>2
  <2> HIDE DEF B
  <2>5. /\ Len(A \o B) = 1 + 2
        /\ \A i \in 1 .. 1 : (A \o B)[i] = A[i]
        /\ \A i \in 1 .. 2 : (A \o B)[1 + i] = B[i]
    BY ONLY <2>3, <2>4, 1 \in Nat, 2 \in Nat, Appended
  <2> DEFINE D == A \o B
  <2>6. D = [i \in 1 .. 3 |-> D[i]]
    BY <2>3, <2>4
  <2>7. D[1] = p /\ D[1 + 1] = F[1] /\ D[1 + 2] = F[2]
    BY ONLY <2>3, <2>4, <2>5
  <2> HIDE DEF D
  <2>8. /\ \A i \in 1 .. 3 : (D \o C)[i] = D[i]
        /\ \A i \in 1 .. 1 : (D \o C)[3 + i] = C[i]
    BY ONLY <2>3, <2>6, 1 \in Nat, 3 \in Nat, Appended
  <2> DEFINE S == D \o C
  <2>9. ASSUME NEW k \in 4 .. 4 PROVE S[k] = C[k - 3]
    <3>1. k - 3 \in 1 .. 1 /\ 3 + (k - 3) = k
      OBVIOUS
    <3> QED BY <2>8, <3>1
  <2>10. ASSUME NEW k \in 1 .. 3 PROVE S[k] = D[k]
    BY <2>8
  <2> HIDE DEF S
  <2>11. S[4] = f
    BY ONLY <2>3, <2>9
  <2>12. S[1] = p /\ S[2] = F[1] /\ S[3] = F[2]
    BY ONLY <2>7, <2>10
  <2> QED BY <2>1, <2>11, <2>12 DEF S, D, F, p, f
<1> QED BY <1>3, <1>4, <1>5

\* The shape of a captured step, and of an eager one.
SeqsOf(j, i) ==
  IF j.launches[4 * i - 3].kernel = "prepare" THEN Len(BatchOf(j, i)) ELSE j.launches[4 * i - 3].desc.num_seqs
TokensOf(j, i) ==
  IF j.launches[4 * i - 3].kernel = "prepare" THEN Total(BatchOf(j, i)) ELSE j.launches[4 * i - 3].desc.num_tokens
StepShape(j, i) ==
  LET b == BatchOf(j, i)
  IN  /\ ValidBatch(b) /\ SeqsOf(j, i) \in Nat /\ TokensOf(j, i) \in Nat
      /\ Len(b) <= SeqsOf(j, i) /\ Total(b) <= TokensOf(j, i)
      /\ \/ EagerLaunch(j.launches[4 * i - 3], b) /\ SeqsOf(j, i) = Len(b) /\ TokensOf(j, i) = Total(b)
         \/ /\ GraphLaunch(j.launches[4 * i - 3], b)
            /\ SeqsOf(j, i) = j.launches[4 * i - 3].desc.num_seqs
            /\ TokensOf(j, i) = j.launches[4 * i - 3].desc.num_tokens
      /\ StoreLaunch(j.launches[4 * i - 2], "kc", TokensOf(j, i))
      /\ StoreLaunch(j.launches[4 * i - 1], "vc", TokensOf(j, i))
      /\ PagedLaunch(j.launches[4 * i], SeqsOf(j, i)) \/ FlexLaunch(j.launches[4 * i], b)

\* The number of steps of a job.
StepsOf(j) == Len(j.launches) \div 4
LEMMA StepIs ==
  ASSUME NEW j, PagedJob(j), StepsOf(j) \in Nat, NEW i \in 1 .. StepsOf(j)
  PROVE  StepShape(j, i)
<1> DEFINE b == BatchOf(j, i)
           step == [x \in 1 .. 4 |-> j.launches[4 * i - 4 + x]]
<1>1. PagedStep(step) /\ ValidBatch(b)
  BY DEF PagedJob, StepsOf
<1>2. i \in Nat
  OBVIOUS
<1>3. /\ step[1] = j.launches[4 * i - 3] /\ step[2] = j.launches[4 * i - 2]
      /\ step[3] = j.launches[4 * i - 1] /\ step[4] = j.launches[4 * i]
  <2>1. 4 * i - 4 + 1 = 4 * i - 3 /\ 4 * i - 4 + 2 = 4 * i - 2 /\ 4 * i - 4 + 3 = 4 * i - 1 /\ 4 * i - 4 + 4 = 4 * i
    BY <1>2
  <2> QED BY <2>1
<1>4. step[1].batch = b
  BY <1>3 DEF BatchOf
<1>5. Len(b) \in Nat /\ Total(b) \in Nat
  BY <1>1, BatchLens
<1>6. /\ SeqsOf(j, i) = IF step[1].kernel = "prepare" THEN Len(b) ELSE step[1].desc.num_seqs
      /\ TokensOf(j, i) = IF step[1].kernel = "prepare" THEN Total(b) ELSE step[1].desc.num_tokens
  BY <1>3 DEF SeqsOf, TokensOf
<1> DEFINE seqs == SeqsOf(j, i)
           tokens == TokensOf(j, i)
           tile == << step[4].bm, step[4].bn >>
           desc == step[1].desc
<1>7. \/ step[4].kernel = "flex" /\ step = FlexStep(b)
      \/ /\ step[4].kernel = "paged" /\ {tile[1], tile[2]} \subseteq Nat \ {0} /\ tile[1] % tile[2] = 0
         /\ \/ step[1].kernel = "prepare" /\ step = EagerStep(b, tile)
            \/ /\ step[1].kernel = "prepare_graph" /\ step = GraphStep(b, tile)
               /\ desc.num_seqs \in Len(b) .. MaxNumSeqs
               /\ desc.num_tokens \in Total(b) .. MaxNumBatchedTokens
  BY <1>1, <1>4 DEF PagedStep
<1>8. SUFFICES /\ seqs \in Nat /\ tokens \in Nat /\ Len(b) <= seqs /\ Total(b) <= tokens
               /\ \/ EagerLaunch(step[1], b) /\ seqs = Len(b) /\ tokens = Total(b)
                  \/ GraphLaunch(step[1], b) /\ seqs = step[1].desc.num_seqs /\ tokens = step[1].desc.num_tokens
               /\ StoreLaunch(step[2], "kc", tokens) /\ StoreLaunch(step[3], "vc", tokens)
               /\ PagedLaunch(step[4], seqs) \/ FlexLaunch(step[4], b)
  BY <1>1, <1>3 DEF StepShape
<1> HIDE DEF step, b, seqs, tokens
<1>9. /\ seqs = IF step[1].kernel = "prepare" THEN Len(b) ELSE step[1].desc.num_seqs
      /\ tokens = IF step[1].kernel = "prepare" THEN Total(b) ELSE step[1].desc.num_tokens
  BY <1>6 DEF seqs, tokens
<1>10. ASSUME NEW n, NEW t, NEW w, NEW F, F = PagedForward(n, t, w)
       PROVE  /\ StoreLaunch(F[1], "kc", t) /\ StoreLaunch(F[2], "vc", t)
              /\ F[3].kernel = "paged" /\ F[3].hq = 1 /\ F[3].hk = 1 /\ F[3].bm = w[1] /\ F[3].bn = w[2]
              /\ F[3].grid = (0 .. n - 1) \X (0 .. Cdiv(MaxBlocksPerReq * PageSize, w[1]) - 1) \X {0}
  BY <1>10 DEF PagedForward, StoreLaunch
<1>11. CASE step[4].kernel = "flex" /\ step = FlexStep(b)
  <2> DEFINE F == PagedForward(Len(b), Total(b), << 1, 1 >>)
  <2>1. /\ step[1] = [kernel |-> "prepare", batch |-> b, grid |-> {<< 0 >>}]
        /\ step[2] = F[1] /\ step[3] = F[2]
        /\ step[4] = [kernel |-> "flex", num_seqs |-> Len(b), num_tokens |-> Total(b), grid |-> {<< 0 >>}]
    BY <1>11, StepLaunches
  <2>2. StoreLaunch(F[1], "kc", Total(b)) /\ StoreLaunch(F[2], "vc", Total(b))
    BY <1>10
  <2> HIDE DEF F
  <2>3. seqs = Len(b) /\ tokens = Total(b)
    BY <1>9, <2>1
  <2>4. EagerLaunch(step[1], b)
    BY <2>1 DEF EagerLaunch
  <2>5. FlexLaunch(step[4], b)
    BY <2>1 DEF FlexLaunch
  <2>6. StoreLaunch(step[2], "kc", tokens) /\ StoreLaunch(step[3], "vc", tokens)
    BY <2>1, <2>2, <2>3
  <2> QED BY <1>5, <2>3, <2>4, <2>5, <2>6
<1>12. ASSUME {tile[1], tile[2]} \subseteq Nat \ {0}, tile[1] % tile[2] = 0, NEW n, NEW t,
              NEW F, F = PagedForward(n, t, tile), step[2] = F[1], step[3] = F[2], step[4] = F[3]
       PROVE  StoreLaunch(step[2], "kc", t) /\ StoreLaunch(step[3], "vc", t) /\ PagedLaunch(step[4], n)
  <2>1. tile[1] = step[4].bm /\ tile[2] = step[4].bn
    OBVIOUS
  <2> HIDE DEF tile
  <2>2. /\ StoreLaunch(F[1], "kc", t) /\ StoreLaunch(F[2], "vc", t)
        /\ F[3].kernel = "paged" /\ F[3].hq = 1 /\ F[3].hk = 1 /\ F[3].bm = tile[1] /\ F[3].bn = tile[2]
        /\ F[3].grid = (0 .. n - 1) \X (0 .. Cdiv(MaxBlocksPerReq * PageSize, tile[1]) - 1) \X {0}
    BY <1>10, <1>12
  <2>3. PagedLaunch(F[3], n)
    BY <1>12, <2>2 DEF PagedLaunch
  <2> QED BY <1>12, <2>2, <2>3
<1>13. CASE /\ step[1].kernel = "prepare" /\ step = EagerStep(b, tile)
            /\ {tile[1], tile[2]} \subseteq Nat \ {0} /\ tile[1] % tile[2] = 0
  <2> DEFINE F == PagedForward(Len(b), Total(b), tile)
  <2>1. /\ step[1] = [kernel |-> "prepare", batch |-> b, grid |-> {<< 0 >>}]
        /\ step[2] = F[1] /\ step[3] = F[2] /\ step[4] = F[3]
    <3> HIDE DEF tile
    <3> QED BY <1>13, StepLaunches
  <2>2. seqs = Len(b) /\ tokens = Total(b)
    BY <1>9, <1>13
  <2>3. EagerLaunch(step[1], b)
    BY <2>1 DEF EagerLaunch
  <2> HIDE DEF tile
  <2>4. StoreLaunch(step[2], "kc", Total(b)) /\ StoreLaunch(step[3], "vc", Total(b)) /\ PagedLaunch(step[4], Len(b))
    BY <1>12, <1>13, <2>1
  <2> QED BY <1>5, <2>2, <2>3, <2>4
<1>14. CASE /\ step[1].kernel = "prepare_graph" /\ step = GraphStep(b, tile)
            /\ {tile[1], tile[2]} \subseteq Nat \ {0} /\ tile[1] % tile[2] = 0
            /\ desc.num_seqs \in Len(b) .. MaxNumSeqs
            /\ desc.num_tokens \in Total(b) .. MaxNumBatchedTokens
  <2> DEFINE d == dispatch(Len(b), Total(b))
             F == PagedForward(d.num_seqs, d.num_tokens, tile)
  <2>1. /\ step[1] = [kernel |-> "prepare_graph", batch |-> b, desc |-> d, grid |-> {<< 0 >>}]
        /\ step[2] = F[1] /\ step[3] = F[2] /\ step[4] = F[3]
    <3> HIDE DEF tile
    <3> QED BY <1>14, StepLaunches
  <2> HIDE DEF d, tile
  <2>2. desc = d /\ step[1].kernel = "prepare_graph" /\ step[1].batch = b /\ step[1].grid = {<< 0 >>}
    BY <2>1
  <2>3. seqs = desc.num_seqs /\ tokens = desc.num_tokens
    BY <1>9, <2>2
  <2>4. GraphLaunch(step[1], b)
    BY <1>14, <2>2 DEF GraphLaunch, Covers
  <2>5. StoreLaunch(step[2], "kc", d.num_tokens) /\ StoreLaunch(step[3], "vc", d.num_tokens) /\ PagedLaunch(step[4], d.num_seqs)
    BY <1>12, <1>14, <2>1
  <2>6. MaxNumSeqs \in Nat /\ MaxNumBatchedTokens \in Nat
    BY CacheAssumption
  <2> HIDE DEF desc
  <2>7. seqs \in Nat /\ tokens \in Nat /\ Len(b) <= seqs /\ Total(b) <= tokens
    BY <1>5, <1>14, <2>3, <2>6
  <2> QED BY <2>2, <2>3, <2>4, <2>5, <2>7 DEF desc
<1> QED BY <1>7, <1>11, <1>13, <1>14

-----------------------------------------------------------------------------
\* What holds after a - 1 launches of a job of paged attention.  Its stores are the
\* launches 4i - 2 (keys) and 4i - 1 (values); Gone: a later batch was given the slot.
StoreAt(c, i) == IF c = "kc" THEN 4 * i - 2 ELSE 4 * i - 1
Gone(j, i, a, slot) == \E k \in i + 1 .. StepsOf(j) : a > 4 * k - 3 /\ Takes(BatchOf(j, k), slot)
CacheOk(j, a, m) ==
  \A i \in 1 .. StepsOf(j) : \A c \in {"kc", "vc"} : a > StoreAt(c, i) =>
    \A s, x : IsToken(BatchOf(j, i), s, x) /\ ~ Gone(j, i, a, TokenSlot(BatchOf(j, i), s, x)) =>
      Load(m, <<c, TokenSlot(BatchOf(j, i), s, x)>>) = TokenKey(BatchOf(j, i), s, x)
MetaOk(j, a, m) ==
  \A i \in 1 .. StepsOf(j) : 4 * i - 3 < a /\ a <= 4 * i =>
    Meta(BatchOf(j, i), m) /\ Padding(BatchOf(j, i), SeqsOf(j, i), TokensOf(j, i), m)
Attends(j, i, m) ==
  LET b == BatchOf(j, i)
      l == j.launches[4 * i]
  IN  /\ l.kernel = "paged" =>
           \A s, x : IsToken(b, s, x) => Load(m, <<"out", RowOf(b, s, x), 0>>) = TokenTerm(b, s, x, l.bn)
      /\ l.kernel = "flex" =>
           \A s, x : IsToken(b, s, x) => FlexRight(b, s, x, Load(m, <<"flex", RowOf(b, s, x)>>))
OutOk(j, a, m) == \A i \in 1 .. StepsOf(j) : a = 4 * i + 1 => Attends(j, i, m)
PagedMem(j, a, m) == CacheOk(j, a, m) /\ MetaOk(j, a, m) /\ OutOk(j, a, m)
CacheTensors == {"kc", "vc"}

\* A job of paged attention at one of its steps.
AtStep(j, i) == PagedJob(j) /\ StepsOf(j) \in Nat /\ i \in 1 .. StepsOf(j)

\* Keys before the chunk come from earlier steps, those of the chunk from this one.
LEMMA CachedReady ==
  ASSUME NEW j, NEW i, AtStep(j, i), NEW m, CacheOk(j, 4 * i, m)
  PROVE  CachedFor(BatchOf(j, i), m)
<1> DEFINE b == BatchOf(j, i)
           N == StepsOf(j)
<1>1. /\ N \in Nat /\ i \in 1 .. N /\ PagedJob(j)
      /\ \A k \in 1 .. N : ValidBatch(BatchOf(j, k))
  <2>1. N \in Nat /\ i \in 1 .. N /\ PagedJob(j)
    BY DEF AtStep
  <2>2. ASSUME NEW k \in 1 .. N PROVE ValidBatch(BatchOf(j, k))
    <3>1. StepShape(j, k)
      BY <2>1, StepIs
    <3> QED BY <3>1 DEF StepShape
  <2> QED BY <2>1, <2>2
<1> SUFFICES ASSUME NEW s \in 1 .. Len(b), NEW p \in 0 .. b[s].start + b[s].n - 1, NEW c \in {"kc", "vc"}
             PROVE  Load(m, <<c, SlotOf(b[s], p)>>) = <<b[s].req, p>>
  BY DEF CachedFor
<1> DEFINE e == b[s]
           slot == SlotOf(e, p)
<1>2. ValidBatch(b) /\ Entry(e) /\ e.start \in Nat /\ e.n \in Nat /\ DOMAIN b = 1 .. Len(b)
  BY <1>1, EntryIs DEF Entry, ValidBatch
<1>3. p \in Held(e)
  BY <1>2, ChunkHeld
<1>4. CASE p < e.start
  <2>1. p \in 0 .. e.start - 1
    BY <1>2, <1>4
  <2>2. PICK k \in 1 .. i - 1 : /\ Stores(BatchOf(j, k), slot, e.req, p)
                                /\ \A u \in k + 1 .. i - 1 : ~ Takes(BatchOf(j, u), slot)
    <3>1. \A z \in 1 .. N : \A t \in DOMAIN BatchOf(j, z) :
            \A pos \in 0 .. BatchOf(j, z)[t].start - 1 :
              \E k \in 1 .. z - 1 :
                /\ Stores(BatchOf(j, k), SlotOf(BatchOf(j, z)[t], pos), BatchOf(j, z)[t].req, pos)
                /\ \A u \in k + 1 .. z - 1 : ~ Takes(BatchOf(j, u), SlotOf(BatchOf(j, z)[t], pos))
      BY <1>1 DEF PagedJob, StepsOf
    <3>2. s \in DOMAIN b
      BY <1>2
    <3> QED BY <1>1, <2>1, <3>1, <3>2
  <2>3. k \in 1 .. N /\ k \in Nat /\ i \in Nat /\ k < i
    BY <1>1
  <2> DEFINE d == BatchOf(j, k)
  <2>4. ValidBatch(d) /\ DOMAIN d = 1 .. Len(d)
    BY <1>1, <2>3 DEF ValidBatch
  <2>5. PICK t \in 1 .. Len(d) : /\ d[t].req = e.req /\ p \in d[t].start .. d[t].start + d[t].n - 1
                                 /\ SlotOf(d[t], p) = slot
    BY <2>2, <2>4 DEF Stores
  <2>6. PICK x : x = p - d[t].start
    OBVIOUS
  <2>7. d[t].start \in Nat /\ d[t].n \in Nat
    BY <2>4, EntryIs DEF Entry
  <2>8. x \in 0 .. d[t].n - 1 /\ d[t].start + x = p
    BY <2>5, <2>6, <2>7
  <2>9. IsToken(d, t, x) /\ TokenSlot(d, t, x) = slot /\ TokenKey(d, t, x) = <<e.req, p>>
    BY <2>5, <2>8 DEF IsToken, TokenSlot, TokenKey
  <2>10. ~ Takes(b, slot)
    <3> SUFFICES ASSUME Takes(b, slot) PROVE FALSE
      OBVIOUS
    <3>1. PICK u, y : IsToken(b, u, y) /\ slot = TokenSlot(b, u, y)
      BY <1>2, TakesToken
    <3>2. b[u].start + y \in Held(b[u]) /\ u \in 1 .. Len(b) /\ y \in 0 .. b[u].n - 1
      BY <1>2, <3>1, TokenSlotIs DEF IsToken
    <3>3. PICK q : q = b[u].start + y
      OBVIOUS
    <3>4. q \in Held(b[u]) /\ SlotOf(b[u], q) = SlotOf(b[s], p) /\ p \in Held(b[s])
      BY <1>3, <3>1, <3>2, <3>3 DEF TokenSlot
    <3>5. u = s /\ q = p
      BY ONLY <1>2, <3>2, <3>4, s \in 1 .. Len(b), SlotsApart
    <3> QED BY <1>2, <1>4, <3>2, <3>3, <3>5
  <2>11. ~ Gone(j, k, 4 * i, slot)
    <3> SUFFICES ASSUME NEW u \in k + 1 .. N, 4 * i > 4 * u - 3, Takes(BatchOf(j, u), slot) PROVE FALSE
      BY DEF Gone
    <3>1. u \in Nat /\ u <= i /\ u >= k + 1
      BY <1>1, <2>3
    <3>2. CASE u = i
      BY <2>10, <3>2
    <3>3. CASE u # i
      <4>1. u \in k + 1 .. i - 1
        BY <2>3, <3>1, <3>3
      <4> QED BY <2>2, <4>1
    <3> QED BY <3>2, <3>3
  <2>12. 4 * i > StoreAt(c, k)
    BY <2>3 DEF StoreAt
  <2> HIDE DEF d, slot, e
  <2>13. Load(m, <<c, TokenSlot(d, t, x)>>) = TokenKey(d, t, x)
    BY <2>3, <2>9, <2>11, <2>12 DEF CacheOk, d
  <2> QED BY <2>9, <2>13 DEF slot, e
<1>5. CASE ~ (p < e.start)
  <2>1. PICK x : x = p - e.start
    OBVIOUS
  <2>2. x \in 0 .. e.n - 1 /\ e.start + x = p
    BY <1>2, <1>5, <2>1
  <2>3. IsToken(b, s, x) /\ TokenSlot(b, s, x) = slot /\ TokenKey(b, s, x) = <<e.req, p>>
    BY <2>2 DEF IsToken, TokenSlot, TokenKey
  <2>4. ~ Gone(j, i, 4 * i, slot)
    <3> SUFFICES ASSUME NEW u \in i + 1 .. N, 4 * i > 4 * u - 3 PROVE FALSE
      BY DEF Gone
    <3>1. u \in Nat /\ i \in Nat /\ u >= i + 1
      BY <1>1
    <3> QED BY <3>1
  <2>5. 4 * i > StoreAt(c, i) /\ i \in 1 .. N
    <3>1. i \in Nat
      BY <1>1
    <3> QED BY <1>1, <3>1 DEF StoreAt
  <2> HIDE DEF b, slot, e
  <2>6. Load(m, <<c, TokenSlot(b, s, x)>>) = TokenKey(b, s, x)
    BY <2>3, <2>4, <2>5 DEF CacheOk, b
  <2> QED BY <2>3, <2>6 DEF slot, e
<1> QED BY <1>4, <1>5

\* Memory that agrees on the metadata, or on the cache, keeps what they say.
LEMMA MetaAgrees ==
  ASSUME NEW b, NEW seqs, NEW tokens, NEW m, NEW n, \A c : c[1] \in MetaTensors => Load(n, c) = Load(m, c)
  PROVE  /\ Meta(b, m) => Meta(b, n)
         /\ Padding(b, seqs, tokens, m) => Padding(b, seqs, tokens, n)
<1>1. \A r : \A x \in {"slot", "tok", "ctx", "qsl"} : Load(n, <<x, r>>) = Load(m, <<x, r>>)
  <2> SUFFICES ASSUME NEW r, NEW x \in {"slot", "tok", "ctx", "qsl"} PROVE Load(n, <<x, r>>) = Load(m, <<x, r>>)
    OBVIOUS
  <2>1. PICK c : c = <<x, r>>
    OBVIOUS
  <2>2. c[1] \in MetaTensors
    BY <2>1 DEF MetaTensors
  <2> QED BY <2>1, <2>2
<1>2. \A s, k : Load(n, <<"bt", s, k>>) = Load(m, <<"bt", s, k>>)
  <2> SUFFICES ASSUME NEW s, NEW k PROVE Load(n, <<"bt", s, k>>) = Load(m, <<"bt", s, k>>)
    OBVIOUS
  <2>1. PICK c : c = <<"bt", s, k>>
    OBVIOUS
  <2>2. c[1] \in MetaTensors
    BY <2>1 DEF MetaTensors
  <2> QED BY <2>1, <2>2
<1>3. \A r : /\ Load(n, <<"slot", r>>) = Load(m, <<"slot", r>>) /\ Load(n, <<"tok", r>>) = Load(m, <<"tok", r>>)
             /\ Load(n, <<"ctx", r>>) = Load(m, <<"ctx", r>>) /\ Load(n, <<"qsl", r>>) = Load(m, <<"qsl", r>>)
  BY <1>1
<1>4. Meta(b, m) => Meta(b, n)
  BY ONLY <1>2, <1>3 DEF Meta
<1>5. Padding(b, seqs, tokens, m) => Padding(b, seqs, tokens, n)
  BY ONLY <1>3 DEF Padding
<1> QED BY <1>4, <1>5

LEMMA CacheStays ==
  ASSUME NEW j, NEW a \in Nat, NEW m, NEW n, CacheOk(j, a, m),
         \A c \in CacheTensors : \A slot : Load(n, <<c, slot>>) = Load(m, <<c, slot>>),
         \A i \in 1 .. StepsOf(j) : \A c \in CacheTensors : a + 1 > StoreAt(c, i) => a > StoreAt(c, i)
  PROVE  CacheOk(j, a + 1, n)
<1> SUFFICES ASSUME NEW i \in 1 .. StepsOf(j), NEW c \in {"kc", "vc"}, a + 1 > StoreAt(c, i), NEW s, NEW x,
                    IsToken(BatchOf(j, i), s, x), ~ Gone(j, i, a + 1, TokenSlot(BatchOf(j, i), s, x))
             PROVE  Load(n, <<c, TokenSlot(BatchOf(j, i), s, x)>>) = TokenKey(BatchOf(j, i), s, x)
  BY DEF CacheOk
<1> DEFINE slot == TokenSlot(BatchOf(j, i), s, x)
<1>1. a > StoreAt(c, i)
  BY DEF CacheTensors
<1>2. ~ Gone(j, i, a, slot)
  <2> SUFFICES ASSUME Gone(j, i, a, slot) PROVE FALSE
    OBVIOUS
  <2>1. PICK k \in i + 1 .. StepsOf(j) : a > 4 * k - 3 /\ Takes(BatchOf(j, k), slot)
    BY DEF Gone
  <2>2. a + 1 > 4 * k - 3
    <3>1. k \in Int
      OBVIOUS
    <3> QED BY <2>1, <3>1
  <2> QED BY <2>1, <2>2 DEF Gone
<1>3. Load(m, <<c, slot>>) = TokenKey(BatchOf(j, i), s, x)
  BY <1>1, <1>2 DEF CacheOk
<1>4. Load(n, <<c, slot>>) = Load(m, <<c, slot>>)
  BY DEF CacheTensors
<1> QED BY <1>3, <1>4

-----------------------------------------------------------------------------
\* What the first launch of a step leaves.
LEMMA PrepareFinish ==
  ASSUME NEW b, ValidBatch(b), NEW l, NEW seqs, NEW tokens,
         \/ EagerLaunch(l, b) /\ seqs = Len(b) /\ tokens = Total(b)
         \/ GraphLaunch(l, b) /\ seqs = l.desc.num_seqs /\ tokens = l.desc.num_tokens,
         NEW m, NEW n, n = Write(AllStores(l, m), m)
  PROVE  /\ Meta(b, n) /\ Padding(b, seqs, tokens, n)
         /\ \A c : c[1] \notin MetaTensors => Load(n, c) = Load(m, c)
<1> DEFINE S == AllStores(l, m)
<1>1. l.grid = {<< 0 >>}
  BY DEF EagerLaunch, GraphLaunch
<1>2. S = Stored(l, << 0 >>, 0, m)
  BY <1>1 DEF AllStores
<1>3. PutsMeta(b, S) /\ PutsPadding(b, seqs, tokens, S) /\ \A t \in S : t[1][1] \in MetaTensors
  <2>1. CASE EagerLaunch(l, b) /\ seqs = Len(b) /\ tokens = Total(b)
    <3>1. S = _prepare_gen_ctx(b)
      BY <1>2, <2>1, PagedStored DEF EagerLaunch
    <3> HIDE DEF S
    <3>2. PutsMeta(b, S) /\ \A t \in S : t[1][1] \in MetaTensors
      BY <3>1, GenCtxPuts, GenCtxCells
    <3>3. PutsPadding(b, seqs, tokens, S)
      <4>1. Len(b) \in Nat /\ Total(b) \in Nat
        BY BatchLens
      <4>2. Total(b) .. Total(b) - 1 = {} /\ Len(b) .. Len(b) - 1 = {}
        BY <4>1
      <4> QED BY <2>1, <4>2 DEF PutsPadding
    <3> QED BY <3>2, <3>3
  <2>2. CASE GraphLaunch(l, b) /\ seqs = l.desc.num_seqs /\ tokens = l.desc.num_tokens
    <3>1. S = _prepare_input_buffers_from_gen_ctx(b, l.desc)
      BY <1>2, <2>2, PagedStored DEF GraphLaunch
    <3>2. Covers(l.desc, b)
      BY <2>2 DEF GraphLaunch
    <3> HIDE DEF S
    <3> QED BY <2>2, <3>1, <3>2, GraphPuts
  <2> QED BY <2>1, <2>2
<1> HIDE DEF S
<1>4. n = Write(S, m)
  BY DEF S
<1>5. Meta(b, n) /\ Padding(b, seqs, tokens, n)
  BY <1>3, <1>4, PutsRead
<1>6. ASSUME NEW c, c[1] \notin MetaTensors PROVE Load(n, c) = Load(m, c)
  <2>1. \A t \in S : t[1] # c
    BY <1>3, <1>6
  <2> QED BY <1>4, <2>1, WriteKept
<1> QED BY <1>5, <1>6

\* The numbers of the launches of step i, among those of the other steps.
LEMMA LaunchAt ==
  ASSUME NEW i \in Nat \ {0}, NEW k \in Nat \ {0}, NEW d \in 1 .. 4, NEW a, a = 4 * i - 4 + d
  PROVE  /\ a \in Nat /\ a + 1 \in Nat
         /\ 4 * k - 3 < a + 1 /\ a + 1 <= 4 * k <=> k = i /\ d # 4
         /\ a + 1 = 4 * k + 1 <=> k = i /\ d = 4
         /\ a + 1 > 4 * k - 2 <=> k < i \/ (k = i /\ d >= 2)
         /\ a > 4 * k - 2 <=> k < i \/ (k = i /\ d >= 3)
         /\ a + 1 > 4 * k - 1 <=> k < i \/ (k = i /\ d >= 3)
         /\ a > 4 * k - 1 <=> k < i \/ (k = i /\ d >= 4)
         /\ a > 4 * k - 3 <=> k < i \/ (k = i /\ d >= 2)
         /\ a + 1 > 4 * k - 3 <=> k < i \/ (k = i /\ d >= 1)
OBVIOUS

\* Step i of a job, its four launches.
AtLaunch(j, i, d, a) == AtStep(j, i) /\ d \in 1 .. 4 /\ a = 4 * i - 4 + d
LEMMA AtLaunchIs ==
  ASSUME NEW j, NEW i, NEW d, NEW a, AtLaunch(j, i, d, a)
  PROVE  /\ StepShape(j, i) /\ i \in 1 .. StepsOf(j) /\ i \in Nat \ {0} /\ StepsOf(j) \in Nat
         /\ \A k \in 1 .. StepsOf(j) : k \in Nat \ {0} /\ StepShape(j, k)
         /\ d \in 1 .. 4 /\ a = 4 * i - 4 + d /\ a \in Nat
<1>1. /\ PagedJob(j) /\ StepsOf(j) \in Nat /\ i \in 1 .. StepsOf(j) /\ d \in 1 .. 4 /\ a = 4 * i - 4 + d
  BY DEF AtLaunch, AtStep
<1>2. ASSUME NEW k \in 1 .. StepsOf(j) PROVE k \in Nat \ {0} /\ StepShape(j, k)
  <2>1. k \in Nat \ {0}
    BY <1>1
  <2> QED BY <1>1, <2>1, StepIs
<1>3. i \in Nat \ {0}
  BY <1>1
<1>4. a \in Nat
  BY <1>1, <1>3
<1> QED BY <1>1, <1>2, <1>3, <1>4

\* The metadata of step i is there from its second launch on, the attention after its last.
LEMMA MetaAt ==
  ASSUME NEW j, NEW i, NEW d, NEW a, AtLaunch(j, i, d, a), NEW n
  PROVE  /\ d # 4 /\ Meta(BatchOf(j, i), n) /\ Padding(BatchOf(j, i), SeqsOf(j, i), TokensOf(j, i), n) => MetaOk(j, a + 1, n)
         /\ d = 4 => MetaOk(j, a + 1, n)
         /\ d # 4 => OutOk(j, a + 1, n)
         /\ d = 4 /\ Attends(j, i, n) => OutOk(j, a + 1, n)
         /\ d # 1 /\ MetaOk(j, a, n) =>
              Meta(BatchOf(j, i), n) /\ Padding(BatchOf(j, i), SeqsOf(j, i), TokensOf(j, i), n)
<1>1. /\ i \in 1 .. StepsOf(j) /\ i \in Nat \ {0} /\ d \in 1 .. 4 /\ a = 4 * i - 4 + d
      /\ \A k \in 1 .. StepsOf(j) : k \in Nat \ {0}
  BY AtLaunchIs
<1>2. ASSUME NEW k \in 1 .. StepsOf(j)
      PROVE  /\ 4 * k - 3 < a + 1 /\ a + 1 <= 4 * k <=> k = i /\ d # 4
             /\ a + 1 = 4 * k + 1 <=> k = i /\ d = 4
  BY <1>1, LaunchAt
<1>3. d # 1 => 4 * i - 3 < a /\ a <= 4 * i
  BY <1>1
<1>4. d # 1 /\ MetaOk(j, a, n) =>
        Meta(BatchOf(j, i), n) /\ Padding(BatchOf(j, i), SeqsOf(j, i), TokensOf(j, i), n)
  BY <1>1, <1>3 DEF MetaOk
<1>5. d # 4 /\ Meta(BatchOf(j, i), n) /\ Padding(BatchOf(j, i), SeqsOf(j, i), TokensOf(j, i), n) => MetaOk(j, a + 1, n)
  BY <1>2 DEF MetaOk
<1>6. d = 4 => MetaOk(j, a + 1, n)
  BY <1>2 DEF MetaOk
<1>7. d # 4 => OutOk(j, a + 1, n)
  BY <1>2 DEF OutOk
<1>8. d = 4 /\ Attends(j, i, n) => OutOk(j, a + 1, n)
  BY <1>2 DEF OutOk
<1> QED BY <1>4, <1>5, <1>6, <1>7, <1>8

\* Launches that store neither keys nor values leave the cache as it is.
LEMMA CacheKeeps ==
  ASSUME NEW j, NEW i, NEW d, NEW a, AtLaunch(j, i, d, a), d \in {1, 4}, NEW m, CacheOk(j, a, m), NEW n,
         \A c : c[1] \in CacheTensors => Load(n, c) = Load(m, c)
  PROVE  CacheOk(j, a + 1, n)
<1>1. /\ i \in 1 .. StepsOf(j) /\ i \in Nat \ {0} /\ d \in 1 .. 4 /\ a = 4 * i - 4 + d /\ a \in Nat
      /\ \A k \in 1 .. StepsOf(j) : k \in Nat \ {0}
  BY AtLaunchIs
<1>2. ASSUME NEW k \in 1 .. StepsOf(j), NEW c \in CacheTensors, a + 1 > StoreAt(c, k) PROVE a > StoreAt(c, k)
  <2>1. /\ a + 1 > 4 * k - 2 => a > 4 * k - 2
        /\ a + 1 > 4 * k - 1 => a > 4 * k - 1
    <3>1. k \in Nat \ {0}
      BY <1>1
    <3> QED BY ONLY <1>1, <3>1, d \in {1, 4}
  <2> QED BY <1>2, <2>1 DEF StoreAt
<1>3. ASSUME NEW c \in CacheTensors, NEW slot PROVE Load(n, <<c, slot>>) = Load(m, <<c, slot>>)
  <2>1. PICK x : x = <<c, slot>>
    OBVIOUS
  <2>2. x[1] \in CacheTensors
    BY <2>1
  <2> QED BY <2>1, <2>2
<1> QED BY <1>1, <1>2, <1>3, CacheStays

\* The first launch of a step.
LEMMA PrepareStep ==
  ASSUME NEW j, NEW i, NEW a, AtLaunch(j, i, 1, a), NEW m, PagedMem(j, a, m),
         NEW n, n = Write(AllStores(j.launches[a], m), m)
  PROVE  PagedMem(j, a + 1, n)
<1>1. StepShape(j, i) /\ i \in Nat \ {0} /\ a = 4 * i - 4 + 1
  BY AtLaunchIs
<1>2. a = 4 * i - 3
  BY <1>1
<1> DEFINE b == BatchOf(j, i)
           l == j.launches[a]
<1>3. /\ ValidBatch(b)
      /\ \/ EagerLaunch(l, b) /\ SeqsOf(j, i) = Len(b) /\ TokensOf(j, i) = Total(b)
         \/ GraphLaunch(l, b) /\ SeqsOf(j, i) = l.desc.num_seqs /\ TokensOf(j, i) = l.desc.num_tokens
  BY <1>1, <1>2 DEF StepShape
<1> HIDE DEF b, l
<1>4. /\ Meta(b, n) /\ Padding(b, SeqsOf(j, i), TokensOf(j, i), n)
      /\ \A c : c[1] \notin MetaTensors => Load(n, c) = Load(m, c)
  <2>1. n = Write(AllStores(l, m), m)
    BY DEF l
  <2>2. PICK seqs, tokens : seqs = SeqsOf(j, i) /\ tokens = TokensOf(j, i)
    OBVIOUS
  <2>3. \/ EagerLaunch(l, b) /\ seqs = Len(b) /\ tokens = Total(b)
        \/ GraphLaunch(l, b) /\ seqs = l.desc.num_seqs /\ tokens = l.desc.num_tokens
    BY ONLY <1>3, <2>2
  <2>4. /\ Meta(b, n) /\ Padding(b, seqs, tokens, n)
        /\ \A c : c[1] \notin MetaTensors => Load(n, c) = Load(m, c)
    <3> HIDE DEF b, l
    <3>1. ASSUME NEW u, NEW v, ValidBatch(u),
                 \/ EagerLaunch(v, u) /\ seqs = Len(u) /\ tokens = Total(u)
                 \/ GraphLaunch(v, u) /\ seqs = v.desc.num_seqs /\ tokens = v.desc.num_tokens,
                 n = Write(AllStores(v, m), m)
          PROVE  /\ Meta(u, n) /\ Padding(u, seqs, tokens, n)
                 /\ \A c : c[1] \notin MetaTensors => Load(n, c) = Load(m, c)
      BY ONLY <3>1, PrepareFinish
    <3> QED BY ONLY <1>3, <2>1, <2>3, <3>1
  <2> QED BY <2>2, <2>4
<1>5. MetaOk(j, a + 1, n) /\ OutOk(j, a + 1, n)
  BY <1>4, MetaAt DEF b
<1>6. CacheOk(j, a + 1, n)
  <2>1. \A c : c[1] \in CacheTensors => Load(n, c) = Load(m, c)
    <3>1. CacheTensors \cap MetaTensors = {}
      BY DEF CacheTensors, MetaTensors
    <3> QED BY <1>4, <3>1
  <2>2. CacheOk(j, a, m)
    BY DEF PagedMem
  <2> QED BY <2>1, <2>2, CacheKeeps
<1> QED BY <1>5, <1>6 DEF PagedMem

\* A launch that stores keys, or values: those of its step are cached, and of those
\* cached before, all but the ones the batch takes the slots of.
LEMMA StoreStep ==
  ASSUME NEW j, NEW i, NEW d \in {2, 3}, NEW a, AtLaunch(j, i, d, a), NEW m, PagedMem(j, a, m),
         NEW n, n = Write(AllStores(j.launches[a], m), m)
  PROVE  PagedMem(j, a + 1, n)
<1>1. /\ StepShape(j, i) /\ i \in 1 .. StepsOf(j) /\ i \in Nat \ {0} /\ a = 4 * i - 4 + d
      /\ StepsOf(j) \in Nat /\ a \in Nat
      /\ \A k \in 1 .. StepsOf(j) : k \in Nat \ {0} /\ StepShape(j, k)
  BY AtLaunchIs
<1> DEFINE b == BatchOf(j, i)
           l == j.launches[a]
           cache == IF d = 2 THEN "kc" ELSE "vc"
           tokens == TokensOf(j, i)
<1>2. (d = 2 => a = 4 * i - 2) /\ (d = 3 => a = 4 * i - 1)
  BY <1>1
<1>3. ValidBatch(b) /\ tokens \in Nat /\ Total(b) <= tokens /\ StoreLaunch(l, cache, tokens)
  BY <1>1, <1>2 DEF StepShape
<1>4. Meta(b, m) /\ Padding(b, SeqsOf(j, i), tokens, m)
  <2>1. d # 1 /\ MetaOk(j, a, m)
    BY DEF PagedMem
  <2> QED BY <2>1, MetaAt
<1> HIDE DEF b, l, tokens
<1>5. /\ \A s, x : IsToken(b, s, x) => Load(n, <<cache, TokenSlot(b, s, x)>>) = TokenKey(b, s, x)
      /\ \A slot : ~Takes(b, slot) => Load(n, <<cache, slot>>) = Load(m, <<cache, slot>>)
      /\ \A c : c[1] # cache => Load(n, c) = Load(m, c)
  <2>1. n = Write(AllStores(l, m), m)
    BY DEF l
  <2> HIDE DEF cache
  <2> QED BY ONLY <1>3, <1>4, <2>1, StoreFinish
<1>6. cache \in CacheTensors /\ CacheTensors = {"kc", "vc"}
  BY DEF CacheTensors
<1>7. MetaOk(j, a + 1, n) /\ OutOk(j, a + 1, n)
  <2>1. \A c : c[1] \in MetaTensors => Load(n, c) = Load(m, c)
    <3>1. cache \notin MetaTensors
      BY DEF MetaTensors
    <3> QED BY <1>5, <3>1
  <2>2. Meta(b, n) /\ Padding(b, SeqsOf(j, i), tokens, n)
    BY ONLY <1>4, <2>1, MetaAgrees
  <2>3. d # 4
    OBVIOUS
  <2> QED BY <2>2, <2>3, MetaAt DEF b, tokens
<1>8. CacheOk(j, a + 1, n)
  <2> SUFFICES ASSUME NEW k \in 1 .. StepsOf(j), NEW c \in {"kc", "vc"}, a + 1 > StoreAt(c, k), NEW s, NEW x,
                      IsToken(BatchOf(j, k), s, x), ~ Gone(j, k, a + 1, TokenSlot(BatchOf(j, k), s, x))
               PROVE  Load(n, <<c, TokenSlot(BatchOf(j, k), s, x)>>) = TokenKey(BatchOf(j, k), s, x)
    BY DEF CacheOk
  <2> DEFINE slot == TokenSlot(BatchOf(j, k), s, x)
  <2>1. k \in Nat \ {0}
    BY <1>1
  <2>2. k <= i /\ (c # cache \/ k # i => a > StoreAt(c, k))
    <3>1. /\ a + 1 > 4 * k - 2 => k <= i
          /\ a + 1 > 4 * k - 1 => k <= i
          /\ k < i => a > 4 * k - 2 /\ a > 4 * k - 1
          /\ d = 2 /\ k = i => ~ (a + 1 > 4 * k - 1)
          /\ d = 3 /\ k = i => a > 4 * k - 2
      BY ONLY <1>1, <2>1, d \in {2, 3}
    <3>2. k <= i
      BY <3>1 DEF StoreAt
    <3>3. CASE k # i
      BY <1>1, <2>1, <3>1, <3>2, <3>3 DEF StoreAt
    <3>4. CASE k = i /\ c # cache
      BY <3>1, <3>4 DEF StoreAt
    <3> QED BY <3>2, <3>3, <3>4
  <2>3. ~ Gone(j, k, a, slot)
    <3> SUFFICES ASSUME Gone(j, k, a, slot) PROVE FALSE
      OBVIOUS
    <3>1. PICK u \in k + 1 .. StepsOf(j) : a > 4 * u - 3 /\ Takes(BatchOf(j, u), slot)
      BY DEF Gone
    <3>2. a + 1 > 4 * u - 3
      <4>1. u \in Int
        OBVIOUS
      <4> QED BY <1>1, <3>1, <4>1
    <3> QED BY <3>1, <3>2 DEF Gone
  <2>4. CASE k = i /\ c = cache
    BY <1>5, <2>4 DEF b
  <2>5. CASE k # i \/ c # cache
    <3>1. Load(m, <<c, slot>>) = TokenKey(BatchOf(j, k), s, x)
      <4>1. CacheOk(j, a, m)
        BY DEF PagedMem
      <4>2. a > StoreAt(c, k)
        BY <2>2, <2>5
      <4> QED BY <2>3, <4>1, <4>2 DEF CacheOk
    <3>2. CASE c # cache
      <4>1. PICK z : z = <<c, slot>>
        OBVIOUS
      <4>2. Load(n, z) = Load(m, z)
        BY <1>5, <3>2, <4>1
      <4> QED BY <3>1, <4>1, <4>2
    <3>3. CASE c = cache
      <4>1. k < i /\ i \in k + 1 .. StepsOf(j)
        BY <1>1, <2>1, <2>2, <2>5, <3>3
      <4>2. a + 1 > 4 * i - 3
        BY <1>1
      <4>3. ~ Takes(b, slot)
        BY <4>1, <4>2 DEF Gone, b
      <4>4. Load(n, <<c, slot>>) = Load(m, <<c, slot>>)
        BY <1>5, <3>3, <4>3
      <4> QED BY <3>1, <4>4
    <3> QED BY <3>2, <3>3
  <2> QED BY <2>4, <2>5
<1> QED BY <1>7, <1>8 DEF PagedMem

\* The attention launch of a step.
LEMMA AttendStep ==
  ASSUME NEW j, NEW i, NEW a, AtLaunch(j, i, 4, a), NEW m, PagedMem(j, a, m),
         NEW n, n = Write(AllStores(j.launches[a], m), m)
  PROVE  PagedMem(j, a + 1, n)
<1>1. StepShape(j, i) /\ i \in Nat \ {0} /\ a = 4 * i - 4 + 4 /\ AtStep(j, i)
  BY AtLaunchIs DEF AtLaunch
<1>2. a = 4 * i
  BY <1>1
<1> DEFINE b == BatchOf(j, i)
           l == j.launches[a]
           seqs == SeqsOf(j, i)
           tokens == TokensOf(j, i)
<1>3. ValidBatch(b) /\ seqs \in Nat /\ Len(b) <= seqs /\ (PagedLaunch(l, seqs) \/ FlexLaunch(l, b))
  BY <1>1, <1>2 DEF StepShape
<1>4. Meta(b, m) /\ Padding(b, seqs, tokens, m)
  <2>1. MetaOk(j, a, m)
    BY DEF PagedMem
  <2> QED BY <2>1, MetaAt
<1>5. CachedFor(b, m)
  <2>1. CacheOk(j, 4 * i, m)
    BY <1>2 DEF PagedMem
  <2> QED BY <1>1, <2>1, CachedReady
<1>6. n = Write(AllStores(l, m), m) /\ l = j.launches[4 * i]
  BY <1>2
<1> HIDE DEF b, l, seqs, tokens
<1>7. Attends(j, i, n) /\ \A c : c[1] \notin {"out", "flex"} => Load(n, c) = Load(m, c)
  <2>1. CASE PagedLaunch(l, seqs)
    <3>1. /\ \A s, x : IsToken(b, s, x) => Load(n, <<"out", RowOf(b, s, x), 0>>) = TokenTerm(b, s, x, l.bn)
          /\ \A c : c[1] # "out" => Load(n, c) = Load(m, c)
      BY ONLY <1>3, <1>4, <1>5, <1>6, <2>1, PagedFinish
    <3>2. l.kernel # "flex"
      BY <2>1 DEF PagedLaunch
    <3>3. Attends(j, i, n)
      BY <1>6, <3>1, <3>2 DEF Attends, b
    <3> QED BY <3>1, <3>3
  <2>2. CASE FlexLaunch(l, b)
    <3>1. /\ \A s, x : IsToken(b, s, x) => FlexRight(b, s, x, Load(n, <<"flex", RowOf(b, s, x)>>))
          /\ \A c : c[1] # "flex" => Load(n, c) = Load(m, c)
      BY ONLY <1>3, <1>4, <1>5, <1>6, <2>2, FlexFinish
    <3>2. l.kernel # "paged"
      BY <2>2 DEF FlexLaunch
    <3>3. Attends(j, i, n)
      BY <1>6, <3>1, <3>2 DEF Attends, b
    <3> QED BY <3>1, <3>3
  <2> QED BY <1>3, <2>1, <2>2
<1>8. MetaOk(j, a + 1, n) /\ OutOk(j, a + 1, n)
  BY <1>7, MetaAt
<1>9. CacheOk(j, a + 1, n)
  <2>1. \A c : c[1] \in CacheTensors => Load(n, c) = Load(m, c)
    <3>1. CacheTensors \cap {"out", "flex"} = {}
      BY DEF CacheTensors
    <3> QED BY <1>7, <3>1
  <2>2. CacheOk(j, a, m)
    BY DEF PagedMem
  <2> QED BY <2>1, <2>2, CacheKeeps
<1> QED BY <1>8, <1>9 DEF PagedMem

-----------------------------------------------------------------------------
\* The invariant of a paged job: what its finished launches have left.
PagedValues == PagedJob(job) => PagedMem(job, at, mem)

\* Every launch of a paged job is one of the four of a step.
LEMMA LaunchOf ==
  ASSUME NEW j \in Jobs, PagedJob(j), NEW a \in 1 .. Len(j.launches)
  PROVE  \E i, d : AtLaunch(j, i, d, a)
<1>1. Len(j.launches) \in Nat
  BY JobsAssumption
<1>2. StepsOf(j) \in Nat /\ Len(j.launches) = 4 * StepsOf(j)
  <2>1. \A n \in Nat : n \div 4 \in Nat
    OBVIOUS
  <2>2. StepsOf(j) \in Nat
    BY <1>1, <2>1 DEF StepsOf
  <2> QED BY <2>2 DEF PagedJob, StepsOf
<1>3. PICK i, d : i = (a + 3) \div 4 /\ d = ((a + 3) % 4) + 1
  OBVIOUS
<1>4. a \in Nat \ {0} /\ a <= 4 * StepsOf(j)
  BY <1>1, <1>2
<1>5. i \in Nat /\ d \in 1 .. 4 /\ a + 3 = 4 * i + (d - 1)
  BY <1>3, <1>4
<1>6. i \in 1 .. StepsOf(j) /\ a = 4 * i - 4 + d
  BY <1>2, <1>4, <1>5
<1>7. AtLaunch(j, i, d, a)
  BY <1>2, <1>5, <1>6 DEF AtLaunch, AtStep
<1> QED BY <1>7

\* The kernels of the four.
LEMMA KernelOf ==
  ASSUME NEW j, NEW i, NEW d, NEW a, AtLaunch(j, i, d, a)
  PROVE  /\ d = 1 => a = 4 * i - 3 /\ j.launches[a].kernel \in {"prepare", "prepare_graph"}
         /\ d \in {2, 3} => j.launches[a].kernel = "store"
         /\ d = 4 => a = 4 * i /\ j.launches[a].kernel \in {"paged", "flex"}
<1>1. StepShape(j, i) /\ i \in Nat \ {0} /\ d \in 1 .. 4 /\ a = 4 * i - 4 + d
  BY AtLaunchIs
<1>2. /\ d = 1 => a = 4 * i - 3
      /\ d = 2 => a = 4 * i - 2
      /\ d = 3 => a = 4 * i - 1
      /\ d = 4 => a = 4 * i
  BY <1>1
<1>3. /\ j.launches[4 * i - 3].kernel \in {"prepare", "prepare_graph"}
      /\ j.launches[4 * i - 2].kernel = "store" /\ j.launches[4 * i - 1].kernel = "store"
      /\ j.launches[4 * i].kernel \in {"paged", "flex"}
  BY <1>1 DEF StepShape, EagerLaunch, GraphLaunch, StoreLaunch, PagedLaunch, FlexLaunch
<1> QED BY <1>2, <1>3

\* A launch of a paged job takes what is left to what it should leave.
LEMMA LaunchStep ==
  ASSUME NEW j \in Jobs, PagedJob(j), NEW a \in 1 .. Len(j.launches), NEW m, PagedMem(j, a, m),
         NEW n, n = Write(AllStores(j.launches[a], m), m)
  PROVE  PagedMem(j, a + 1, n) /\ a \in Nat
<1>1. PICK i, d : AtLaunch(j, i, d, a)
  BY LaunchOf
<1>2. d \in 1 .. 4 /\ a \in Nat
  BY <1>1, AtLaunchIs
<1>3. CASE d = 1
  BY <1>1, <1>2, <1>3, PrepareStep
<1>4. CASE d \in {2, 3}
  BY <1>1, <1>2, <1>4, StoreStep
<1>5. CASE d = 4
  BY <1>1, <1>2, <1>5, AttendStep
<1> QED BY <1>2, <1>3, <1>4, <1>5

\* No launch has finished at first.
LEMMA PagedInit == Init => PagedValues
<1> SUFFICES ASSUME Init, PagedJob(job) PROVE PagedMem(job, 1, mem)
  BY DEF PagedValues, Init
<1>1. ASSUME NEW i \in 1 .. StepsOf(job)
      PROVE  ~ (4 * i - 3 < 1) /\ 1 # 4 * i + 1 /\ ~ (1 > 4 * i - 2) /\ ~ (1 > 4 * i - 1)
  <2>1. i \in Int /\ i >= 1
    OBVIOUS
  <2> QED BY <2>1
<1>2. CacheOk(job, 1, mem)
  BY <1>1 DEF CacheOk, StoreAt
<1>3. MetaOk(job, 1, mem)
  BY <1>1 DEF MetaOk
<1>4. OutOk(job, 1, mem)
  BY <1>1 DEF OutOk
<1> QED BY <1>2, <1>3, <1>4 DEF PagedMem

\* The memory of a paged job, launch by launch.
LEMMA PagedNext == Stream /\ PagedValues /\ [Next]_vars => PagedValues'
<1> SUFFICES ASSUME Stream, PagedValues, [Next]_vars, PagedJob(job) PROVE PagedMem(job, at', mem') /\ job' = job
  <2>1. job' = job => (PagedJob(job') <=> PagedJob(job)) /\ (PagedMem(job', at', mem') <=> PagedMem(job, at', mem'))
    OBVIOUS
  <2>2. [Next]_vars => job' = job
    BY DEF Next, RunProgram, FinishLaunch, vars
  <2> QED BY <2>1, <2>2 DEF PagedValues
<1>1. PagedMem(job, at, mem)
  BY DEF PagedValues
<1>2. CASE UNCHANGED vars
  BY <1>1, <1>2 DEF vars
<1>3. CASE Next
  <2>1. at \in 1 .. Len(job.launches) /\ at <= Len(job.launches) /\ job \in Jobs
    <3>1. Len(job.launches) \in Nat /\ at \in 1 .. Len(job.launches) + 1 /\ job \in Jobs
      BY JobsAssumption DEF Stream
    <3> QED BY <1>3, <3>1 DEF Next
  <2>2. Launch(at).kernel \notin Atomic
    <3>1. PICK i, d : AtLaunch(job, i, d, at)
      BY <2>1, LaunchOf
    <3>2. d \in 1 .. 4
      BY <3>1, AtLaunchIs
    <3> QED BY <3>1, <3>2, KernelOf DEF Launch, Atomic
  <2>3. CASE \E p \in Launch(at).grid : RunProgram(p)
    <3>1. PICK p \in Launch(at).grid : RunProgram(p)
      BY <2>3
    <3>2. mem' = mem
      BY <2>1, <2>2, <3>1, RunKeeps
    <3>3. job' = job /\ at' = at
      BY <3>1 DEF RunProgram
    <3> QED BY <1>1, <3>2, <3>3
  <2>4. CASE FinishLaunch
    <3>1. mem' = Write(AllStores(job.launches[at], mem), mem)
      BY <2>1, <2>2, <2>4, StreamFinish DEF Launch
    <3>2. job' = job /\ at' = at + 1
      BY <2>4 DEF FinishLaunch
    <3>3. PagedMem(job, at + 1, mem')
      BY <1>1, <2>1, <3>1, LaunchStep
    <3> QED BY <3>2, <3>3
  <2> QED BY <1>3, <2>3, <2>4 DEF Next
<1> QED BY <1>2, <1>3

\* The launches that prepare a batch are the first of each step.
LEMMA PreparingIs ==
  ASSUME job \in Jobs, PagedJob(job)
  PROVE  /\ \A z \in 1 .. Len(job.launches) : Preparing(z) => \E k \in 1 .. StepsOf(job) : z = 4 * k - 3
         /\ \A k \in 1 .. StepsOf(job) : Preparing(4 * k - 3)
         /\ Len(job.launches) \in Nat /\ StepsOf(job) \in Nat /\ Len(job.launches) = 4 * StepsOf(job)
<1>1. Len(job.launches) \in Nat
  BY JobsAssumption
<1>2. StepsOf(job) \in Nat /\ Len(job.launches) = 4 * StepsOf(job)
  <2>1. \A n \in Nat : n \div 4 \in Nat
    OBVIOUS
  <2>2. StepsOf(job) \in Nat
    BY <1>1, <2>1 DEF StepsOf
  <2> QED BY <2>2 DEF PagedJob, StepsOf
<1>3. ASSUME NEW z \in 1 .. Len(job.launches), Preparing(z) PROVE \E k \in 1 .. StepsOf(job) : z = 4 * k - 3
  <2>1. PICK i, d : AtLaunch(job, i, d, z)
    BY LaunchOf
  <2>2. d \in 1 .. 4 /\ i \in 1 .. StepsOf(job)
    BY <2>1, AtLaunchIs
  <2>3. d = 1
    BY <1>3, <2>1, <2>2, KernelOf DEF Preparing, Launch
  <2> QED BY <2>1, <2>2, <2>3, KernelOf
<1>4. ASSUME NEW k \in 1 .. StepsOf(job) PROVE Preparing(4 * k - 3)
  <2>1. AtLaunch(job, k, 1, 4 * k - 3)
    <3>1. 4 * k - 3 = 4 * k - 4 + 1
      BY <1>2
    <3> QED BY <1>2, <3>1 DEF AtLaunch, AtStep
  <2> QED BY <2>1, KernelOf DEF Preparing, Launch
<1> QED BY <1>1, <1>2, <1>3, <1>4

\* A job of which a paged kernel has just finished, and which launch that was.
LEMMA PagedDone ==
  ASSUME Stream, PagedValues, NEW k \in {"store", "paged", "flex"}, Just({k})
  PROVE  /\ job \in Jobs /\ PagedJob(job) /\ PagedMem(job, at, mem) /\ at \in Nat /\ at - 1 \in 1 .. Len(job.launches)
         /\ k # "store" => \E i : /\ AtLaunch(job, i, 4, at - 1) /\ at = 4 * i + 1 /\ Done = job.launches[4 * i]
                                  /\ job.launches[4 * i].kernel = k
<1>1. /\ at - 1 \in DOMAIN job.launches /\ job \in Jobs /\ at \in Nat
      /\ DOMAIN job.launches = 1 .. Len(job.launches)
  BY JobsAssumption DEF Stream, Just
<1>2. job.launches[at - 1].kernel = k /\ Done = job.launches[at - 1]
  BY DEF Just, Launch, Done
<1>3. PagedJob(job)
  BY <1>1, <1>2, JobsAssumption DEF PagedKernelNames
<1>4. PagedMem(job, at, mem)
  BY <1>3 DEF PagedValues
<1>5. ASSUME k # "store"
      PROVE  \E i : /\ AtLaunch(job, i, 4, at - 1) /\ at = 4 * i + 1 /\ Done = job.launches[4 * i]
                    /\ job.launches[4 * i].kernel = k
  <2>1. PICK i, d : AtLaunch(job, i, d, at - 1)
    BY <1>1, <1>3, LaunchOf
  <2>2. d \in 1 .. 4 /\ i \in Nat
    BY <2>1, AtLaunchIs
  <2>3. d = 4
    BY <1>2, <1>5, <2>1, <2>2, KernelOf
  <2>4. at - 1 = 4 * i
    BY <2>1, <2>3, KernelOf
  <2>5. at = 4 * i + 1
    BY <1>1, <2>2, <2>4
  <2> QED BY <1>2, <2>1, <2>3, <2>4, <2>5
<1> QED BY <1>1, <1>3, <1>4, <1>5

\* The batch of the last launch is that of its step.
LEMMA BatchIs ==
  ASSUME job \in Jobs, PagedJob(job), NEW i, AtLaunch(job, i, 4, at - 1), at = 4 * i + 1
  PROVE  Batch = BatchOf(job, i) /\ ValidBatch(BatchOf(job, i))
<1>1. /\ StepShape(job, i) /\ i \in 1 .. StepsOf(job) /\ i \in Nat \ {0} /\ StepsOf(job) \in Nat
      /\ Len(job.launches) = 4 * StepsOf(job)
  BY AtLaunchIs, PreparingIs
<1>2. at - 1 = 4 * i /\ at - 1 <= Len(job.launches) /\ 4 * i - 3 \in 1 .. at - 1
  BY <1>1
<1> DEFINE P(z) == Preparing(z) /\ \A y \in z + 1 .. at - 1 : ~Preparing(y)
<1>3. Preparing(4 * i - 3)
  BY <1>1, PreparingIs
<1>4. ASSUME NEW z \in 1 .. at - 1, Preparing(z) PROVE z \in Nat /\ z <= 4 * i - 3
  <2>1. z \in 1 .. Len(job.launches)
    BY <1>1, <1>2
  <2>2. PICK k \in 1 .. StepsOf(job) : z = 4 * k - 3
    BY <1>4, <2>1, PreparingIs
  <2>3. z <= 4 * i /\ k \in Nat /\ z \in Nat
    BY <1>1, <1>2
  <2> QED BY <1>1, <2>2, <2>3
<1>5. P(4 * i - 3)
  <2> SUFFICES ASSUME NEW y \in (4 * i - 3) + 1 .. at - 1, Preparing(y) PROVE FALSE
    BY <1>3
  <2>1. y \in 1 .. at - 1 /\ y > 4 * i - 3
    BY <1>1, <1>2
  <2>2. y \in Nat /\ y <= 4 * i - 3
    BY <1>4, <2>1
  <2> QED BY <1>1, <2>1, <2>2
<1>6. ASSUME NEW z \in 1 .. at - 1, P(z) PROVE z = 4 * i - 3
  <2>1. z \in Nat /\ z <= 4 * i - 3
    BY <1>4, <1>6
  <2>2. CASE z < 4 * i - 3
    <3>1. 4 * i - 3 \in z + 1 .. at - 1
      BY <1>1, <1>2, <2>1, <2>2
    <3> QED BY <1>3, <1>6, <3>1
  <2> QED BY <1>1, <2>1, <2>2
<1>7. (CHOOSE z \in 1 .. at - 1 : P(z)) = 4 * i - 3
  <2> DEFINE w == CHOOSE z \in 1 .. at - 1 : P(z)
  <2> HIDE DEF P
  <2>1. w \in 1 .. at - 1 /\ P(w)
    BY <1>2, <1>5
  <2> QED BY <1>6, <2>1
<1>8. Batch = BatchOf(job, i)
  BY <1>7 DEF Batch, Launch, BatchOf
<1>9. ValidBatch(BatchOf(job, i))
  BY <1>1 DEF StepShape
<1> QED BY <1>8, <1>9

\* What the launches leave is what PagedExact, FlexExact and CacheKept ask.
LEMMA ValuesMeanPaged == Stream /\ PagedValues => PagedExact
<1> SUFFICES ASSUME Stream, PagedValues, Just({"paged"}), NEW row \in 0 .. Total(Batch) - 1
             PROVE  Load(mem, <<"out", row, 0>>)
                      = << <<TokenAt(Batch, row)[1].req, TokenAt(Batch, row)[2]>>, 0,
                           Alone(TokenAt(Batch, row)[1].req, TokenAt(Batch, row)[2], Done.bn) >>
  BY DEF PagedExact
<1>1. PICK i : /\ AtLaunch(job, i, 4, at - 1) /\ at = 4 * i + 1 /\ Done = job.launches[4 * i]
               /\ job.launches[4 * i].kernel = "paged"
  BY PagedDone
<1>2. job \in Jobs /\ PagedJob(job) /\ PagedMem(job, at, mem)
  BY PagedDone
<1> DEFINE b == BatchOf(job, i)
<1>3. Batch = b /\ ValidBatch(b)
  BY <1>1, <1>2, BatchIs
<1>4. PICK s, x : IsToken(b, s, x) /\ row = RowOf(b, s, x)
  BY <1>3, TokenOf
<1>5. TokenAt(b, row) = << b[s], b[s].start + x >>
  BY <1>3, <1>4, TokenIs
<1>6. Load(mem, <<"out", RowOf(b, s, x), 0>>) = TokenTerm(b, s, x, Done.bn)
  <2>1. i \in 1 .. StepsOf(job)
    BY <1>1, AtLaunchIs
  <2>2. Attends(job, i, mem)
    BY <1>1, <1>2, <2>1 DEF PagedMem, OutOk
  <2> QED BY <1>1, <1>4, <2>2 DEF Attends
<1> QED BY <1>3, <1>4, <1>5, <1>6 DEF TokenTerm, TokenKey

LEMMA ValuesMeanFlex == Stream /\ PagedValues => FlexExact
<1> SUFFICES ASSUME Stream, PagedValues, Just({"flex"}), NEW row \in 0 .. Total(Batch) - 1
             PROVE  LET t == TokenAt(Batch, row)
                        v == Load(mem, <<"flex", row>>)
                    IN  /\ v[1] = <<t[1].req, t[2]>>
                        /\ Len(v[2]) = t[2] + 1
                        /\ ToSet(v[2]) = {<< <<t[1].req, p>>, <<t[1].req, p>> >> : p \in 0 .. t[2]}
  BY DEF FlexExact
<1>1. PICK i : /\ AtLaunch(job, i, 4, at - 1) /\ at = 4 * i + 1 /\ Done = job.launches[4 * i]
               /\ job.launches[4 * i].kernel = "flex"
  BY PagedDone
<1>2. job \in Jobs /\ PagedJob(job) /\ PagedMem(job, at, mem)
  BY PagedDone
<1> DEFINE b == BatchOf(job, i)
<1>3. Batch = b /\ ValidBatch(b)
  BY <1>1, <1>2, BatchIs
<1>4. PICK s, x : IsToken(b, s, x) /\ row = RowOf(b, s, x)
  BY <1>3, TokenOf
<1>5. TokenAt(b, row) = << b[s], b[s].start + x >>
  BY <1>3, <1>4, TokenIs
<1>6. FlexRight(b, s, x, Load(mem, <<"flex", RowOf(b, s, x)>>))
  <2>1. i \in 1 .. StepsOf(job)
    BY <1>1, AtLaunchIs
  <2>2. Attends(job, i, mem)
    BY <1>1, <1>2, <2>1 DEF PagedMem, OutOk
  <2> QED BY <1>1, <1>4, <2>2 DEF Attends
<1>7. TokenAt(b, row)[1] = b[s] /\ TokenAt(b, row)[2] = b[s].start + x
  BY <1>5
<1> HIDE DEF b
<1> QED BY <1>3, <1>4, <1>6, <1>7 DEF FlexRight, TokenKey

LEMMA ValuesMeanCached == Stream /\ PagedValues => CacheKept
<1> SUFFICES ASSUME Stream, PagedValues, Just({"store", "paged", "flex"}),
                    NEW i \in 1 .. at - 1, Preparing(i), i + 2 < at,
                    NEW row \in 0 .. Total(Launch(i).batch) - 1,
                    \A k \in i + 1 .. at - 1 : Preparing(k) =>
                      ~Takes(Launch(k).batch, SlotOf(TokenAt(Launch(i).batch, row)[1], TokenAt(Launch(i).batch, row)[2]))
             PROVE  \A c \in {"kc", "vc"} :
                      Load(mem, <<c, SlotOf(TokenAt(Launch(i).batch, row)[1], TokenAt(Launch(i).batch, row)[2])>>)
                        = <<TokenAt(Launch(i).batch, row)[1].req, TokenAt(Launch(i).batch, row)[2]>>
  BY DEF CacheKept
<1>1. PICK kernel \in {"store", "paged", "flex"} : Just({kernel})
  BY DEF Just
<1>2. job \in Jobs /\ PagedJob(job) /\ PagedMem(job, at, mem) /\ at \in Nat /\ at - 1 \in 1 .. Len(job.launches)
  BY <1>1, PagedDone
<1>3. StepsOf(job) \in Nat /\ Len(job.launches) = 4 * StepsOf(job)
  BY <1>2, PreparingIs
<1>4. PICK a \in 1 .. StepsOf(job) : i = 4 * a - 3
  <2>1. i \in 1 .. Len(job.launches)
    BY <1>2, <1>3
  <2> QED BY <1>2, <2>1, PreparingIs
<1>5. a \in Nat \ {0}
  BY <1>3
<1> DEFINE b == BatchOf(job, a)
<1>6. Launch(i).batch = b /\ ValidBatch(b)
  <2>1. StepShape(job, a)
    BY <1>2, <1>3, StepIs
  <2> QED BY <1>4, <2>1 DEF Launch, BatchOf, StepShape
<1>7. PICK s, x : IsToken(b, s, x) /\ row = RowOf(b, s, x)
  BY <1>6, TokenOf
<1>8. TokenAt(b, row) = << b[s], b[s].start + x >>
  BY <1>6, <1>7, TokenIs
<1> DEFINE slot == TokenSlot(b, s, x)
<1>9. /\ TokenAt(b, row)[1] = b[s] /\ TokenAt(b, row)[2] = b[s].start + x
      /\ SlotOf(TokenAt(b, row)[1], TokenAt(b, row)[2]) = slot
  BY <1>8 DEF TokenSlot
<1>10. ~ Gone(job, a, at, slot)
  <2> SUFFICES ASSUME NEW k \in a + 1 .. StepsOf(job), at > 4 * k - 3, Takes(BatchOf(job, k), slot) PROVE FALSE
    BY DEF Gone
  <2>1. k \in 1 .. StepsOf(job) /\ k \in Nat /\ k >= a + 1
    BY <1>3, <1>5
  <2>2. 4 * k - 3 \in i + 1 .. at - 1
    BY <1>2, <1>4, <1>5, <2>1
  <2>3. Preparing(4 * k - 3)
    BY <1>2, <2>1, PreparingIs
  <2>4. Launch(4 * k - 3).batch = BatchOf(job, k)
    BY DEF Launch, BatchOf
  <2> HIDE DEF slot, b
  <2>5. ~Takes(Launch(4 * k - 3).batch, slot)
    BY <1>6, <1>9, <2>2, <2>3
  <2> QED BY <2>4, <2>5
<1>11. at > StoreAt("kc", a) /\ at > StoreAt("vc", a)
  <2>1. at > 4 * a - 2 /\ at > 4 * a - 1
    BY <1>2, <1>4, <1>5
  <2> QED BY <2>1 DEF StoreAt
<1>12. ASSUME NEW c \in {"kc", "vc"} PROVE Load(mem, <<c, slot>>) = TokenKey(b, s, x)
  <2>1. CacheOk(job, at, mem)
    BY <1>2 DEF PagedMem
  <2>2. at > StoreAt(c, a)
    BY <1>11
  <2> QED BY <1>7, <1>10, <2>1, <2>2 DEF CacheOk
<1> HIDE DEF b, slot
<1> QED BY <1>6, <1>9, <1>12 DEF TokenKey

(* The cache: over every history of steps, whatever their batches, chunks, *)
(* blocks and padding, a stored key stays in the slot its request was      *)
(* given until a later batch is given that slot (CacheKept).               *)
THEOREM CacheIsKept == Spec => []CacheKept
<1>1. Init => Stream /\ PagedValues
  BY StreamInit, PagedInit
<1>2. Stream /\ PagedValues /\ [Next]_vars => (Stream /\ PagedValues)'
  BY StreamStep, PagedNext
<1>3. Stream /\ PagedValues => CacheKept
  BY ValuesMeanCached
<1> QED BY <1>1, <1>2, <1>3, PTL DEF Spec

(* Paged attention: for every history, batch, chunk of a prompt, block     *)
(* table, tile and padding of a CUDA graph, each token gets the fold of    *)
(* its own request's keys 0 .. position in the tiles of its position, as   *)
(* if it were alone (PagedExact).                                          *)
THEOREM PagedIsExact == Spec => []PagedExact
<1>1. Init => Stream /\ PagedValues
  BY StreamInit, PagedInit
<1>2. Stream /\ PagedValues /\ [Next]_vars => (Stream /\ PagedValues)'
  BY StreamStep, PagedNext
<1>3. Stream /\ PagedValues => PagedExact
  BY ValuesMeanPaged
<1> QED BY <1>1, <1>2, <1>3, PTL DEF Spec

(* Flex attention: each token attends to each of its own request's keys    *)
(* 0 .. position exactly once, and to nothing else (FlexExact).            *)
THEOREM FlexIsExact == Spec => []FlexExact
<1>1. Init => Stream /\ PagedValues
  BY StreamInit, PagedInit
<1>2. Stream /\ PagedValues /\ [Next]_vars => (Stream /\ PagedValues)'
  BY StreamStep, PagedNext
<1>3. Stream /\ PagedValues => FlexExact
  BY ValuesMeanFlex
<1> QED BY <1>1, <1>2, <1>3, PTL DEF Spec

-----------------------------------------------------------------------------
\* Stores that agree wherever two of them meet.
OneValue(S) == \A s, t \in S : s[1] = t[1] => s = t

\* The tiles of the dense kernels do not overlap.
LEMMA DenseOnce ==
  ASSUME NEW l, DenseLaunch(l), l.kernel \in DenseKernelNames, NEW m
  PROVE  OneValue(AllStores(l, m))
<1> DEFINE S == AllStores(l, m)
<1> SUFFICES ASSUME NEW s \in S, NEW t \in S, s[1] = t[1] PROVE s = t
  BY DEF OneValue
<1>1. CASE l.kernel = "matmul"
  <2>1. PICK a, b : s = << <<"c", a, b>>, MatmulTerm(l, a, b) >>
    BY <1>1, MatmulSound
  <2>2. PICK c, d : t = << <<"c", c, d>>, MatmulTerm(l, c, d) >>
    BY <1>1, MatmulSound
  <2> QED BY ONLY <2>1, <2>2, s[1] = t[1]
<1>2. CASE l.kernel = "bmm"
  <2>1. PICK b, a, n : s = << <<"bmm", b, a, n>>, BmmTerm(l, b, a, n) >>
    BY <1>2, BmmSound
  <2>2. PICK c, d, e : t = << <<"bmm", c, d, e>>, BmmTerm(l, c, d, e) >>
    BY <1>2, BmmSound
  <2> QED BY ONLY <2>1, <2>2, s[1] = t[1]
<1>3. CASE l.kernel = "log_softmax"
  <2>1. PICK a, b : s = << <<"logp", a, b>>, LogpTerm(l, a, b) >>
    BY <1>3, LogpStores
  <2>2. PICK c, d : t = << <<"logp", c, d>>, LogpTerm(l, c, d) >>
    BY <1>3, LogpStores
  <2> QED BY ONLY <2>1, <2>2, s[1] = t[1]
<1>4. CASE l.kernel = "rms_norm"
  <2>1. PICK a, b : s = << <<"rms", a, b>>, RmsTerm(l, a, b) >>
    BY <1>4, RmsStores
  <2>2. PICK c, d : t = << <<"rms", c, d>>, RmsTerm(l, c, d) >>
    BY <1>4, RmsStores
  <2> QED BY ONLY <2>1, <2>2, s[1] = t[1]
<1>5. CASE l.kernel = "mean"
  <2>1. PICK a, b : s = << <<"mean", a, b>>, MeanTerm(l, a, b) >>
    BY <1>5, MeanStores
  <2>2. PICK c, d : t = << <<"mean", c, d>>, MeanTerm(l, c, d) >>
    BY <1>5, MeanStores
  <2> QED BY ONLY <2>1, <2>2, s[1] = t[1]
<1> QED BY <1>1, <1>2, <1>3, <1>4, <1>5 DEF DenseKernelNames

\* The sorted rows, and the token of each.
LEMMA SortOnce ==
  ASSUME MoEJob(job), InputsKept, NEW l, l.T = Sh.T, l.topk = Sh.topk
  PROVE  OneValue(ScatterIndex(l, mem)) /\ OneValue(_build_moe_indices(l, mem))
<1> DEFINE S == ScatterIndex(l, mem)
           A == { << <<"aidx", w[2]>>, w[1][2] >> : w \in S }
           rank == [f \in 0 .. Pairs - 1 |-> Rank(Pairs, Ex, f)]
<1>1. \A w \in S : \E f \in 0 .. Pairs - 1 : w = <<Cell(f), Rank(Pairs, Ex, f)>>
  BY RankStored
<1>2. Routing(Pairs, Sh.E, Ex)
  BY JobIsLayer
<1>3. \A f, h \in 0 .. Pairs - 1 : Rank(Pairs, Ex, f) = Rank(Pairs, Ex, h) => f = h
  <2>1. Sorted(Pairs, Ex, rank)
    BY <1>2, RankSorts
  <2> QED BY <2>1 DEF Sorted
<1>4. \A w, z \in S : w[1] = z[1] \/ w[2] = z[2] => w = z
  <2> SUFFICES ASSUME NEW w \in S, NEW z \in S, w[1] = z[1] \/ w[2] = z[2] PROVE w = z
    OBVIOUS
  <2>1. PICK f \in 0 .. Pairs - 1 : w = <<Cell(f), Rank(Pairs, Ex, f)>>
    BY <1>1
  <2>2. PICK h \in 0 .. Pairs - 1 : z = <<Cell(h), Rank(Pairs, Ex, h)>>
    BY <1>1
  <2>3. w[1] = Cell(f) /\ z[1] = Cell(h) /\ w[2] = Rank(Pairs, Ex, f) /\ z[2] = Rank(Pairs, Ex, h)
    BY ONLY <2>1, <2>2
  <2>4. f = h
    BY <1>3, <2>3, CellsDiffer
  <2> QED BY <2>1, <2>2, <2>4
<1>5. ASSUME NEW a \in A PROVE \E w \in S : a = << <<"aidx", w[2]>>, w[1][2] >>
  OBVIOUS
<1>6. ASSUME NEW w \in S PROVE w[1][1] = "sidx"
  BY <1>1, <1>6 DEF Cell
<1>7. _build_moe_indices(l, mem) = S \cup A
  BY DEF _build_moe_indices
<1> HIDE DEF S, A
<1>8. ASSUME NEW a \in A, NEW b \in A, a[1] = b[1] PROVE a = b
  <2>1. PICK w \in S : a = << <<"aidx", w[2]>>, w[1][2] >>
    BY <1>5
  <2>2. PICK z \in S : b = << <<"aidx", z[2]>>, z[1][2] >>
    BY <1>5
  <2>3. w[2] = z[2]
    BY ONLY <1>8, <2>1, <2>2
  <2> QED BY <1>4, <2>1, <2>2, <2>3
<1>9. ASSUME NEW a \in A, NEW w \in S PROVE a[1] # w[1]
  <2>1. a[1][1] = "aidx"
    BY <1>5
  <2> QED BY <1>6, <2>1
<1>10. OneValue(S \cup A)
  BY <1>4, <1>8, <1>9 DEF OneValue
<1> QED BY <1>4, <1>7, <1>10 DEF OneValue, S

\* A scatter puts each token in its own rows.
LEMMA ScatterOnce ==
  ASSUME Stream, MoEJob(job), Rows, Ready("sidx"), NEW l, LayerLaunch(Sh, l), l.kernel = "scatter"
  PROVE  OneValue(AllStores(l, mem))
<1> SUFFICES ASSUME NEW w \in AllStores(l, mem), NEW z \in AllStores(l, mem), w[1] = z[1] PROVE w = z
  BY DEF OneValue
<1>1. l.topk = Sh.topk /\ l.grid = RowGrid(Sh)
  BY DEF LayerLaunch, LaunchForm, TorchOps
<1>2. \A p \in l.grid : Stored(l, p, 0, mem) = _moe_scatter_kernel(l, p, mem)
  BY DEF Stored
<1>3. \A p \in l.grid : p[1] \in 0 .. Sh.T - 1
  BY <1>1 DEF RowGrid
<1>4. ASSUME NEW v \in AllStores(l, mem)
      PROVE  \E f \in 0 .. Pairs - 1 : \E n : v = << <<l.o, Row[f], n>>, Load(mem, <<l.x, f \div Sh.topk, n>>) >>
  <2>1. PICK p \in l.grid : v \in _moe_scatter_kernel(l, p, mem)
    BY <1>2, InAllStores
  <2>2. PICK i \in 0 .. l.topk - 1, n \in Columns(p, H) :
          v = << <<l.o, Sidx(mem, p[1], i), n>>, Load(mem, <<l.x, p[1], n>>) >>
    BY ONLY <2>1, SMT DEF _moe_scatter_kernel
  <2>3. PICK h : h = p[1] * Sh.topk + i
    OBVIOUS
  <2>4. h \in 0 .. Pairs - 1 /\ h \div Sh.topk = p[1] /\ h % Sh.topk = i
    BY <1>1, <1>3, <2>3, PairAt
  <2>5. Row[h] = Sidx(mem, p[1], i)
    BY <2>4 DEF Row
  <2> QED BY <2>2, <2>4, <2>5
<1>5. PICK f, n : f \in 0 .. Pairs - 1 /\ w = << <<l.o, Row[f], n>>, Load(mem, <<l.x, f \div Sh.topk, n>>) >>
  BY <1>4
<1>6. PICK h, k : h \in 0 .. Pairs - 1 /\ z = << <<l.o, Row[h], k>>, Load(mem, <<l.x, h \div Sh.topk, k>>) >>
  BY <1>4
<1>7. Row[f] = Row[h] /\ n = k
  BY ONLY <1>5, <1>6, w[1] = z[1]
<1>8. f = h
  BY <1>5, <1>6, <1>7, RowFacts
<1> QED BY <1>5, <1>6, <1>7, <1>8

\* Groups of rows do not meet, so a grouped GEMM stores a row for one expert only.
LEMMA GroupsApart ==
  ASSUME MoEJob(job), Cumulative, Ready("cum"), NEW g \in 0 .. Sh.E - 1, NEW e \in 0 .. Sh.E - 1,
         NEW a \in Nat, NEW b \in Nat, a < GroupSize(mem, g), b < GroupSize(mem, e),
         GroupStart(mem, g) + a = GroupStart(mem, e) + b
  PROVE  g = e /\ a = b
<1>1. /\ GroupStart(mem, g) = Cardinality(Under(Pairs, Ex, g)) /\ GroupSize(mem, g) = Cardinality(Of(Pairs, Ex, g))
      /\ Cardinality(Under(Pairs, Ex, g)) \in Nat /\ Cardinality(Of(Pairs, Ex, g)) \in Nat
      /\ Cardinality(UpTo(Pairs, Ex, g)) = Cardinality(Under(Pairs, Ex, g)) + Cardinality(Of(Pairs, Ex, g))
  BY GroupIs
<1>2. /\ GroupStart(mem, e) = Cardinality(Under(Pairs, Ex, e)) /\ GroupSize(mem, e) = Cardinality(Of(Pairs, Ex, e))
      /\ Cardinality(Under(Pairs, Ex, e)) \in Nat /\ Cardinality(Of(Pairs, Ex, e)) \in Nat
      /\ Cardinality(UpTo(Pairs, Ex, e)) = Cardinality(Under(Pairs, Ex, e)) + Cardinality(Of(Pairs, Ex, e))
  BY GroupIs
<1>3. Routing(Pairs, Sh.E, Ex) /\ g \in Int /\ e \in Int
  BY JobIsLayer
<1>4. CASE g < e
  <2>1. Cardinality(UpTo(Pairs, Ex, g)) <= Cardinality(Under(Pairs, Ex, e))
    BY <1>3, <1>4, ExpertsApart
  <2> QED BY <1>1, <1>2, <2>1
<1>5. CASE e < g
  <2>1. Cardinality(UpTo(Pairs, Ex, e)) <= Cardinality(Under(Pairs, Ex, g))
    BY <1>3, <1>5, ExpertsApart
  <2> QED BY <1>1, <1>2, <2>1
<1>6. CASE g = e
  BY <1>1, <1>6
<1> QED BY <1>3, <1>4, <1>5, <1>6

\* So a grouped GEMM stores one term in a row.
LEMMA GemmOnce ==
  ASSUME Stream, MoEJob(job), Cumulative, Ready("cum"), NEW l, LayerLaunch(Sh, l), l.kernel = "gemm_nk"
  PROVE  OneValue(AllStores(l, mem))
<1> DEFINE nm == Cdiv(l.max_M, GroupTile[1])
           nn == Cdiv(l.N, GroupTile[2])
<1> SUFFICES ASSUME NEW w \in AllStores(l, mem), NEW z \in AllStores(l, mem), w[1] = z[1] PROVE w = z
  BY DEF OneValue
<1>1. /\ l.c \in RowProducts /\ l.N = Width(l.c) /\ l.max_M \in {Sh.T * Sh.topk, Sh.T}
      /\ l.grid = TileGrid(Sh, l.max_M, l.N)
  BY DEF LayerLaunch, LaunchForm, TorchOps
<1>2. GroupTile[1] \in Nat \ {0} /\ GroupTile[2] \in Nat \ {0} /\ GroupTile[4] \in Nat \ {0}
  BY MoEAssumption
<1>3. l.N \in Nat /\ l.max_M \in Nat
  <2>1. l.N \in Nat
    BY ONLY <1>1, MoEAssumption DEF Width, MoEAssumption
  <2>2. Sh.T \in Nat /\ Pairs \in Nat /\ Sh.T * Sh.topk = Pairs
    BY JobIsLayer DEF Pairs
  <2> QED BY ONLY <1>1, <2>1, <2>2
<1>4. nm \in Nat /\ nn \in Nat
  BY <1>2, <1>3, CdivFacts
<1>5. l.grid = (0 .. nm * nn - 1) \X (0 .. Sh.E - 1)
  BY <1>1 DEF TileGrid
<1> HIDE DEF nm, nn
<1>6. ASSUME NEW t \in 0 .. nm * nn - 1
       PROVE  \E q \in 0 .. nm - 1, r \in 0 .. nn - 1 : get_pid_mn(t, nm, nn, GroupTile[4]) = <<q, r>>
  <2>1. GroupTile[4] \in Nat \ {0}
    BY <1>2
  <2> QED BY ONLY <1>4, <2>1, t \in 0 .. nm * nn - 1, TileInRange
<1>7. ASSUME NEW v \in AllStores(l, mem)
      PROVE  \E g \in 0 .. Sh.E - 1 : \E a \in Nat : \E n :
               /\ a < GroupSize(mem, g)
               /\ v = << <<l.c, GroupStart(mem, g) + a, n>>, << l.b, g, n % l.N, GroupRow(l, mem, g, a) >> >>
  <2>1. PICK p \in l.grid : v \in Stored(l, p, 0, mem)
    BY InAllStores
  <2>2. p[1] \in 0 .. nm * nn - 1 /\ p[2] \in 0 .. Sh.E - 1
    BY <1>5
  <2>3. PICK pm \in 0 .. nm - 1, pn \in 0 .. nn - 1 : get_pid_mn(p[1], nm, nn, GroupTile[4]) = <<pm, pn>>
    BY <1>6, <2>2
  <2>4. PICK tile : tile = <<pm, pn>>
    OBVIOUS
  <2>5. tile = get_pid_mn(p[1], Cdiv(l.max_M, GroupTile[1]), Cdiv(l.N, GroupTile[2]), GroupTile[4])
    BY <2>3, <2>4 DEF nm, nn
  <2>6. PICK x \in GroupLanes(tile, GroupSize(mem, p[2]), l.N) :
          v = << <<l.c, GroupStart(mem, p[2]) + x[1], x[2]>>,
                 << l.b, p[2], x[2] % l.N, GroupRow(l, mem, p[2], x[1]) >> >>
    BY <2>1, <2>5, InGroupGemm
  <2>7. x \in Lanes(pm, GroupTile[1]) \X Lanes(pn, GroupTile[2]) /\ x[1] < GroupSize(mem, p[2])
    BY <2>4, <2>6, InGroupLanes
  <2>8. pm \in Nat /\ x[1] \in Lanes(pm, GroupTile[1])
    BY <1>4, <2>7
  <2>9. x[1] \in Nat
    BY <1>2, <2>8, LaneIs
  <2> QED BY <2>2, <2>6, <2>7, <2>9
<1>8. PICK g \in 0 .. Sh.E - 1, a \in Nat : \E n :
               /\ a < GroupSize(mem, g)
               /\ w = << <<l.c, GroupStart(mem, g) + a, n>>, << l.b, g, n % l.N, GroupRow(l, mem, g, a) >> >>
  BY <1>7
<1>9. PICK n : w = << <<l.c, GroupStart(mem, g) + a, n>>, << l.b, g, n % l.N, GroupRow(l, mem, g, a) >> >>
  BY <1>8
<1>10. PICK e \in 0 .. Sh.E - 1, b \in Nat : \E k :
               /\ b < GroupSize(mem, e)
               /\ z = << <<l.c, GroupStart(mem, e) + b, k>>, << l.b, e, k % l.N, GroupRow(l, mem, e, b) >> >>
  BY <1>7
<1>11. PICK k : z = << <<l.c, GroupStart(mem, e) + b, k>>, << l.b, e, k % l.N, GroupRow(l, mem, e, b) >> >>
  BY <1>10
<1>12. GroupStart(mem, g) + a = GroupStart(mem, e) + b /\ n = k
  BY ONLY <1>9, <1>11, w[1] = z[1]
<1>13. g = e /\ a = b
  BY <1>8, <1>10, <1>12, GroupsApart
<1> QED BY <1>9, <1>11, <1>12, <1>13

\* The tensors of the layer that a launch computes cell by cell.
LEMMA CellOnce ==
  ASSUME NEW l, NEW m, NEW x
  PROVE  /\ OneValue(CumSum(l, m, x)) /\ OneValue(quack_gemm(l, m)) /\ OneValue(quack_gemm_k(l, m))
         /\ OneValue(Activation(l, m)) /\ OneValue(GradSum(l, m))
<1>1. OneValue(CumSum(l, m, x))
  <2> DEFINE F(e) == FoldLeft(LAMBDA a, b : a + b, 0, [i \in 1 .. e + 1 |-> Load(m, <<"hist", i - 1>>)])
  <2>1. CumSum(l, m, x) = {<< <<x, e>>, F(e) >> : e \in 0 .. l.E - 1}
    BY DEF CumSum
  <2> HIDE DEF F
  <2> QED BY <2>1 DEF OneValue
<1>2. OneValue(quack_gemm(l, m))
  <2> DEFINE F(r, n) == << l.b, quack_group(l, m, r), n, quack_row(l, m, r) >>
  <2>1. quack_gemm(l, m) = {<< <<l.c, r, n>>, F(r, n) >> : r \in Flat(l), n \in 0 .. l.N - 1}
    BY DEF quack_gemm
  <2> HIDE DEF F
  <2> QED BY <2>1 DEF OneValue
<1>3. OneValue(quack_gemm_k(l, m))
  <2> DEFINE F(g, a, b) == << quack_reduced(l, m, g, a, b) >>
  <2>1. quack_gemm_k(l, m) = {<< <<l.c, g, a, b>>, F(g, a, b) >> : g \in 0 .. l.E - 1, a \in 0 .. l.M - 1, b \in 0 .. l.N - 1}
    BY DEF quack_gemm_k
  <2> HIDE DEF F
  <2> QED BY <2>1 DEF OneValue
<1>4. OneValue(Activation(l, m))
  <2> DEFINE F(r, j) == << "act", Load(m, <<"fc1_1", r, j>>), Load(m, <<"fc1_2", r, j>>), ScatteredGate(l, m, r) >>
  <2>1. Activation(l, m) = {<< <<"wact", r, j>>, F(r, j) >> : r \in Flat(l), j \in 0 .. I - 1}
    BY DEF Activation
  <2> HIDE DEF F
  <2> QED BY <2>1 DEF OneValue
<1>5. OneValue(GradSum(l, m))
  <2> DEFINE F(r, n) == << Load(m, <<"g_scat1", r, n>>), Load(m, <<"g_scat2", r, n>>) >>
  <2>1. GradSum(l, m) = {<< <<"g_scat", r, n>>, F(r, n) >> : r \in Flat(l), n \in 0 .. H - 1}
    BY DEF GradSum
  <2> HIDE DEF F
  <2> QED BY <2>1 DEF OneValue
<1> QED BY <1>1, <1>2, <1>3, <1>4, <1>5

\* The gradients of the activation are three tensors, each computed cell by cell.
LEMMA ActivationGradOnce ==
  ASSUME NEW l, NEW m
  PROVE  OneValue(ActivationGrad(l, m))
<1> DEFINE A == RowGrad(l, m, "g_fc1_1")
           B == RowGrad(l, m, "g_fc1_2")
           C == GateGrad(l, m)
<1>1. ASSUME NEW d PROVE OneValue(RowGrad(l, m, d)) /\ \A w \in RowGrad(l, m, d) : w[1][1] = d
  <2> DEFINE F(r, j) == << d, Load(m, <<"g_wact", r, j>>), Load(m, <<"fc1_1", r, j>>),
                           Load(m, <<"fc1_2", r, j>>), ScatteredGate(l, m, r) >>
  <2>1. RowGrad(l, m, d) = {<< <<d, r, j>>, F(r, j) >> : r \in Flat(l), j \in 0 .. I - 1}
    BY DEF RowGrad
  <2> HIDE DEF F
  <2> QED BY <2>1 DEF OneValue
<1>2. OneValue(C) /\ \A w \in C : w[1][1] = "g_gate"
  <2> DEFINE F(t, k) == [j \in 1 .. I |-> [x \in {"fc1_1", "fc1_2", "g_wact"} |-> Load(m, <<x, Sidx(m, t, k), j - 1>>)]]
  <2>1. C = {<< <<"g_gate", f \div l.topk, f % l.topk>>, F(f \div l.topk, f % l.topk) >> : f \in Flat(l)}
    BY DEF GateGrad
  <2> HIDE DEF F
  <2>2. ASSUME NEW w \in C PROVE \E t, k : w = << <<"g_gate", t, k>>, F(t, k) >>
    BY <2>1
  <2> HIDE DEF C
  <2> QED BY <2>2 DEF OneValue
<1>3. OneValue(A) /\ OneValue(B) /\ (\A w \in A : w[1][1] = "g_fc1_1") /\ (\A w \in B : w[1][1] = "g_fc1_2")
  BY <1>1
<1>4. ActivationGrad(l, m) = A \cup B \cup C
  BY DEF ActivationGrad
<1> HIDE DEF A, B, C
<1>5. OneValue(A \cup B \cup C)
  BY <1>2, <1>3 DEF OneValue
<1> QED BY <1>4, <1>5

\* A gather has one program for a column of a token.
LEMMA GatherOnce ==
  ASSUME NEW l, l.kernel = "gather", NEW m
  PROVE  OneValue(AllStores(l, m))
<1> DEFINE F(t, n) == [i \in 1 .. l.topk |-> Load(m, <<l.x, Sidx(m, t, i - 1), n>>)]
<1>1. ASSUME NEW w \in AllStores(l, m) PROVE \E t, n : w = << <<l.y, t, n>>, F(t, n) >>
  <2>1. PICK p \in l.grid : w \in _moe_gather_kernel(l, p, m)
    BY InAllStores DEF Stored
  <2>2. PICK n \in Columns(p, H) : w = << <<l.y, p[1], n>>, F(p[1], n) >>
    BY <2>1 DEF _moe_gather_kernel
  <2> QED BY <2>2
<1> HIDE DEF F
<1> QED BY <1>1 DEF OneValue

\* The gradients of the experts' weights: what is stored in a cell depends on the cell only.
LEMMA WeightOnce ==
  ASSUME NEW l, l.kernel = "gemm_mn", NEW m
  PROVE  OneValue(AllStores(l, m))
<1>1. ASSUME NEW w \in AllStores(l, m) PROVE \E g, a, b : w = << <<l.c, g, a, b>>, GroupReduced(l, m, g, a, b) >>
  <2>1. PICK p \in l.grid : w \in Stored(l, p, 0, m)
    BY InAllStores
  <2>2. PICK tile : tile = get_pid_mn(p[1], Cdiv(l.M, GroupTile[1]), Cdiv(l.N, GroupTile[2]), GroupTile[4])
    OBVIOUS
  <2>3. PICK x \in GroupLanes(tile, l.M, l.N) : w = << <<l.c, p[2], x[1], x[2]>>, GroupReduced(l, m, p[2], x[1], x[2]) >>
    BY <2>1, <2>2, InGroupReduce
  <2> QED BY <2>3
<1> QED BY <1>1 DEF OneValue

\* What has been stored is some of what a launch without atomics stores.
LEMMA StoresOf ==
  ASSUME Stream, at <= Len(job.launches), Launch(at).kernel \notin Atomic
  PROVE  stores \subseteq AllStores(Launch(at), mem)
BY DEF Stream, AllStores

\* No two programs of a launch of the layer store different terms in one cell.
LEMMA MoEOnce ==
  ASSUME Stream, Dispatch, MoEJob(job), at <= Len(job.launches)
  PROVE  WrittenOnce
<1>0. PICK l : l = Launch(at)
  OBVIOUS
<1>1. StoresNamed /\ InputsKept /\ Cumulative /\ Reservations /\ Rows
  BY DEF Dispatch
<1>2. LayerLaunch(Sh, l) /\ \A x \in Needs(l) : Ready(x)
  BY <1>0, LaunchOfLayer
<1>3. CASE l.kernel = "index"
  BY <1>0, <1>1, <1>3 DEF Reservations, Running, WrittenOnce
<1>4. CASE l.kernel = "histogram"
  BY <1>0, <1>1, <1>4 DEF StoresNamed, WrittenOnce
<1>5. CASE l.kernel \notin Atomic
  <2> SUFFICES OneValue(AllStores(l, mem))
    <3>1. stores \subseteq AllStores(l, mem)
      BY <1>0, <1>5, StoresOf
    <3> QED BY <3>1 DEF OneValue, WrittenOnce
  <2>1. l.T = Sh.T /\ l.topk = Sh.topk
    BY <1>2 DEF LayerLaunch
  <2>2. ASSUME l.kernel \in TorchOps \cup {"quack", "quack_k"} PROVE AllStores(l, mem) = Stored(l, <<0>>, 0, mem)
    <3>1. l.grid = {<<0>>}
      BY <1>2, <2>2 DEF LayerLaunch, LaunchForm, TorchOps
    <3> QED BY <3>1, OneProgram
  <2>3. CASE l.kernel \in {"argsort", "build_indices"}
    <3>1. OneValue(Stored(l, <<0>>, 0, mem))
      BY <1>1, <2>1, <2>3, SortOnce DEF Stored
    <3> QED BY <2>2, <2>3, <3>1 DEF TorchOps
  <2>4. CASE l.kernel \in {"cumsum", "clone", "quack", "quack_k", "activation", "grad_sum"}
    <3>1. OneValue(Stored(l, <<0>>, 0, mem))
      BY <2>4, CellOnce DEF Stored
    <3> QED BY <2>2, <2>4, <3>1 DEF TorchOps
  <2>5. CASE l.kernel = "activation_grad"
    <3>1. OneValue(Stored(l, <<0>>, 0, mem))
      BY <2>5, ActivationGradOnce DEF Stored
    <3> QED BY <2>2, <2>5, <3>1 DEF TorchOps
  <2>6. CASE l.kernel = "scatter"
    <3>1. Ready("sidx")
      BY <1>2, <2>6 DEF Needs
    <3> QED BY <1>1, <1>2, <2>6, <3>1, ScatterOnce
  <2>7. CASE l.kernel = "gemm_nk"
    <3>1. Ready("cum")
      BY <1>2, <2>7 DEF Needs
    <3> QED BY <1>1, <1>2, <2>7, <3>1, GemmOnce
  <2>8. CASE l.kernel \in {"gather", "gemm_mn"}
    BY <2>8, GatherOnce, WeightOnce
  <2>9. l.kernel \in TorchOps \cup {"quack", "quack_k", "scatter", "gemm_nk", "gather", "gemm_mn"}
    BY <1>2, <1>5 DEF LayerLaunch, LaunchForm, Atomic
  <2> QED BY <2>3, <2>4, <2>5, <2>6, <2>7, <2>8, <2>9 DEF TorchOps
<1> QED BY <1>3, <1>4, <1>5 DEF Atomic

\* Queries and keys of a packing have rows of their own.
LEMMA PackedOnce ==
  ASSUME Stream, PackedValues, PackedJob(job), at <= Len(job.launches)
  PROVE  WrittenOnce
<1>1. PackedShape /\ PackedLaunches
  BY PackedIs
<1>2. at \in {1, 2, 3}
  BY <1>1 DEF Stream, PackedLaunches
<1>3. Launch(at).kernel \notin Atomic
  BY <1>1, <1>2 DEF PackedLaunches, PackedRecord, Launch, Atomic
<1> SUFFICES ASSUME NEW v \in AllStores(job.launches[at], mem), NEW w \in AllStores(job.launches[at], mem), v[1] = w[1]
             PROVE  v = w
  <2>1. stores \subseteq AllStores(job.launches[at], mem)
    BY <1>3, StoresOf DEF Launch
  <2> QED BY <2>1 DEF WrittenOnce
<1>4. PackedInputs(PQ, PK, mem) /\ (at > 1 => Attended(mem))
  BY DEF PackedValues
<1>5. CASE at = 1
  <2>1. PICK s, j, h, o : IsQuery(s, j, h) /\ v = << <<o, QRow(s, j), h>>, AttnTerm(s, j, h) >>
    BY <1>1, <1>4, <1>5, VarlenSound
  <2>2. PICK t, k, g, q : IsQuery(t, k, g) /\ w = << <<q, QRow(t, k), g>>, AttnTerm(t, k, g) >>
    BY <1>1, <1>4, <1>5, VarlenSound
  <2>3. o = q /\ QRow(s, j) = QRow(t, k) /\ h = g
    BY ONLY <2>1, <2>2, v[1] = w[1]
  <2>4. s = t /\ j = k
    BY <1>1, <2>1, <2>2, <2>3, QueriesApart
  <2> QED BY <2>1, <2>2, <2>3, <2>4
<1>6. CASE at = 2
  <2>0. Attended(mem)
    BY <1>4, <1>6
  <2>1. PICK s, j, h : IsQuery(s, j, h) /\ v = << <<"dq", QRow(s, j), h>>, DqTerm(s, j, h) >>
    BY <1>1, <1>4, <1>6, <2>0, DqSound
  <2>2. PICK t, k, g : IsQuery(t, k, g) /\ w = << <<"dq", QRow(t, k), g>>, DqTerm(t, k, g) >>
    BY <1>1, <1>4, <1>6, <2>0, DqSound
  <2>3. QRow(s, j) = QRow(t, k) /\ h = g
    BY ONLY <2>1, <2>2, v[1] = w[1]
  <2>4. s = t /\ j = k
    BY <1>1, <2>1, <2>2, <2>3, QueriesApart
  <2> QED BY <2>1, <2>2, <2>3, <2>4
<1>7. CASE at = 3
  <2>0. Attended(mem)
    BY <1>4, <1>7
  <2>1. PICK s, j, h, d : IsKey(s, j, h) /\ v = << <<d, KRow(s, j), h>>, DkvTerm(s, j, h) >>
    BY <1>1, <1>4, <1>7, <2>0, DkvSound
  <2>2. PICK t, k, g, e : IsKey(t, k, g) /\ w = << <<e, KRow(t, k), g>>, DkvTerm(t, k, g) >>
    BY <1>1, <1>4, <1>7, <2>0, DkvSound
  <2>3. d = e /\ KRow(s, j) = KRow(t, k) /\ h = g
    BY ONLY <2>1, <2>2, v[1] = w[1]
  <2>4. s = t /\ j = k
    BY <1>1, <2>1, <2>2, <2>3, KeysApart
  <2> QED BY <2>1, <2>2, <2>3, <2>4
<1> QED BY <1>2, <1>5, <1>6, <1>7

\* What overrides replaces the stores it meets.
LEMMA OverOnce ==
  ASSUME NEW A, NEW B, OneValue(A), OneValue(B)
  PROVE  OneValue(Over(A, B))
BY DEF OneValue, Over

\* The metadata of a batch.
LEMMA GenCtxOnce ==
  ASSUME NEW b, ValidBatch(b)
  PROVE  OneValue(_prepare_gen_ctx(b))
<1> DEFINE S == _prepare_gen_ctx(b)
<1> SUFFICES ASSUME NEW t \in S, NEW u \in S, t[1] = u[1] PROVE t = u
  BY DEF OneValue
<1>1. PutsMeta(b, S)
  BY GenCtxPuts
<1>2. PICK c, v : t = <<c, v>> /\ Puts(S, c, v)
  <2>1. CASE \E s, x : /\ IsToken(b, s, x)
                       /\ \/ t = << <<"slot", RowOf(b, s, x)>>, SlotOf(b[s], b[s].start + x) >>
                          \/ t = << <<"tok", RowOf(b, s, x)>>, << b[s].req, b[s].start + x >> >>
    BY <1>1, <2>1 DEF PutsMeta
  <2>2. CASE \E s \in 1 .. Len(b) : t = << <<"ctx", s - 1>>, b[s].start + b[s].n >>
    BY <1>1, <2>2 DEF PutsMeta
  <2>3. CASE \E s \in 1 .. Len(b) : \E j \in 0 .. MaxBlocksPerReq - 1 : t = << <<"bt", s - 1, j>>, BlockOf(b[s], j) >>
    BY <1>1, <2>3 DEF PutsMeta
  <2>4. CASE \E s \in 0 .. Len(b) : t = << <<"qsl", s>>, Before(QLens(b), s) >>
    BY <1>1, <2>4 DEF PutsMeta
  <2> QED BY <2>1, <2>2, <2>3, <2>4, GenCtxIs
<1>3. u[2] = v
  BY <1>2 DEF Puts
<1>4. \E d, z : u = <<d, z>>
  BY GenCtxIs
<1> QED BY <1>2, <1>3, <1>4

\* That of a CUDA graph: buffers reset, the batch over them, padding over both.
LEMMA GraphOnce ==
  ASSUME NEW b, ValidBatch(b), NEW desc
  PROVE  OneValue(_prepare_input_buffers_from_gen_ctx(b, desc))
<1>1. OneValue(ResetBuffers(desc))
  BY DEF ResetBuffers, OneValue
<1>2. OneValue(PaddedRows(b, desc))
  BY DEF PaddedRows, OneValue
<1>3. _prepare_input_buffers_from_gen_ctx(b, desc) = Over(Over(ResetBuffers(desc), _prepare_gen_ctx(b)), PaddedRows(b, desc))
  BY DEF _prepare_input_buffers_from_gen_ctx, PaddedRows
<1> QED BY <1>1, <1>2, <1>3, GenCtxOnce, OverOnce

\* A step of paged attention: no two tokens share a slot, a row of metadata or a row
\* of the output, and a padded row stores nothing in the cache.
LEMMA PagedOnce ==
  ASSUME Stream, PagedValues, PagedJob(job), at <= Len(job.launches)
  PROVE  WrittenOnce
<1>1. at \in 1 .. Len(job.launches) /\ job \in Jobs
  <2>1. Len(job.launches) \in Nat /\ at \in 1 .. Len(job.launches) + 1 /\ job \in Jobs
    BY JobsAssumption DEF Stream
  <2> QED BY <2>1
<1>2. PICK i, d : AtLaunch(job, i, d, at)
  BY <1>1, LaunchOf
<1>3. StepShape(job, i) /\ i \in Nat \ {0} /\ d \in 1 .. 4 /\ at = 4 * i - 4 + d /\ PagedMem(job, at, mem)
  BY <1>2, AtLaunchIs DEF PagedValues
<1> DEFINE b == BatchOf(job, i)
           l == job.launches[at]
           tokens == TokensOf(job, i)
           seqs == SeqsOf(job, i)
<1>4. l.kernel \notin Atomic
  BY <1>2, <1>3, KernelOf DEF Atomic
<1>5. ValidBatch(b) /\ tokens \in Nat /\ seqs \in Nat /\ Total(b) <= tokens
  BY <1>3 DEF StepShape
<1>6. d # 1 => Meta(b, mem) /\ Padding(b, seqs, tokens, mem)
  BY <1>2, <1>3, MetaAt DEF PagedMem
<1> SUFFICES OneValue(AllStores(l, mem))
  <2>1. stores \subseteq AllStores(l, mem)
    BY <1>4, StoresOf DEF Launch
  <2> QED BY <2>1 DEF OneValue, WrittenOnce
<1>7. CASE d = 1
  <2>1. at = 4 * i - 3
    BY <1>3, <1>7
  <2>2. EagerLaunch(l, b) \/ GraphLaunch(l, b)
    BY <1>3, <2>1 DEF StepShape
  <2> HIDE DEF b, l
  <2>3. l.grid = {<<0>>} /\ AllStores(l, mem) = Stored(l, <<0>>, 0, mem)
    BY <2>2, OneProgram DEF EagerLaunch, GraphLaunch
  <2>4. \/ l.kernel = "prepare" /\ AllStores(l, mem) = _prepare_gen_ctx(b)
        \/ l.kernel = "prepare_graph" /\ AllStores(l, mem) = _prepare_input_buffers_from_gen_ctx(b, l.desc)
    BY <2>2, <2>3, PagedStored DEF EagerLaunch, GraphLaunch
  <2> QED BY <1>5, <2>4, GenCtxOnce, GraphOnce
<1>8. CASE d \in {2, 3}
  <2>1. (d = 2 /\ at = 4 * i - 2) \/ (d = 3 /\ at = 4 * i - 1)
    BY <1>3, <1>8
  <2>2. PICK cache : StoreLaunch(l, cache, tokens)
    BY <1>3, <2>1 DEF StepShape
  <2>3. Meta(b, mem) /\ Padding(b, seqs, tokens, mem)
    BY <1>6, <1>8
  <2> HIDE DEF b, l, tokens, seqs
  <2>4. ASSUME NEW t \in AllStores(l, mem)
        PROVE  \E s, x : IsToken(b, s, x) /\ t = << <<cache, TokenSlot(b, s, x)>>, TokenKey(b, s, x) >>
    BY <1>5, <2>2, <2>3, <2>4, StoreIs
  <2>5. ASSUME NEW t \in AllStores(l, mem), NEW u \in AllStores(l, mem), t[1] = u[1] PROVE t = u
    <3>1. PICK s, x : IsToken(b, s, x) /\ t = << <<cache, TokenSlot(b, s, x)>>, TokenKey(b, s, x) >>
      BY <2>4
    <3>2. PICK r, y : IsToken(b, r, y) /\ u = << <<cache, TokenSlot(b, r, y)>>, TokenKey(b, r, y) >>
      BY <2>4
    <3>3. TokenSlot(b, s, x) = TokenSlot(b, r, y)
      BY ONLY <2>5, <3>1, <3>2
    <3>4. /\ s \in 1 .. Len(b) /\ b[s].start + x \in Held(b[s])
          /\ r \in 1 .. Len(b) /\ b[r].start + y \in Held(b[r])
      BY <1>5, <3>1, <3>2, TokenSlotIs DEF IsToken
    <3>5. s = r /\ b[s].start + x = b[r].start + y
      <4>1. PICK p, q : p = b[s].start + x /\ q = b[r].start + y
        OBVIOUS
      <4>2. SlotOf(b[s], p) = SlotOf(b[r], q)
        BY <3>3, <4>1 DEF TokenSlot
      <4>3. s \in 1 .. Len(b) /\ r \in 1 .. Len(b) /\ p \in Held(b[s]) /\ q \in Held(b[r])
        BY <3>4, <4>1
      <4>4. s = r /\ p = q
        BY ONLY <1>5, <4>2, <4>3, SlotsApart
      <4> QED BY <4>1, <4>4
    <3>6. TokenKey(b, s, x) = TokenKey(b, r, y)
      BY <3>5 DEF TokenKey
    <3> QED BY <3>1, <3>2, <3>3, <3>6
  <2> QED BY <2>5 DEF OneValue
<1>9. CASE d = 4
  <2>1. at = 4 * i
    BY <1>3, <1>9
  <2>2. PagedLaunch(l, seqs) \/ FlexLaunch(l, b)
    BY <1>3, <2>1 DEF StepShape
  <2>3. Meta(b, mem) /\ Padding(b, seqs, tokens, mem)
    BY <1>6, <1>9
  <2>4. CachedFor(b, mem)
    BY <1>2, <1>3, <2>1, CachedReady DEF AtLaunch, PagedMem
  <2> HIDE DEF b, l, tokens, seqs
  <2>5. CASE PagedLaunch(l, seqs)
    <3>1. ASSUME NEW t \in AllStores(l, mem)
          PROVE  \E s, x : IsToken(b, s, x) /\ t = << <<"out", RowOf(b, s, x), 0>>, TokenTerm(b, s, x, l.bn) >>
      BY <1>5, <2>3, <2>4, <2>5, <3>1, PagedSound
    <3>2. ASSUME NEW t \in AllStores(l, mem), NEW u \in AllStores(l, mem), t[1] = u[1] PROVE t = u
      <4>1. PICK s, x : IsToken(b, s, x) /\ t = << <<"out", RowOf(b, s, x), 0>>, TokenTerm(b, s, x, l.bn) >>
        BY <3>1
      <4>2. PICK r, y : IsToken(b, r, y) /\ u = << <<"out", RowOf(b, r, y), 0>>, TokenTerm(b, r, y, l.bn) >>
        BY <3>1
      <4>3. RowOf(b, s, x) = RowOf(b, r, y)
        BY ONLY <3>2, <4>1, <4>2
      <4>4. s = r /\ x = y
        BY <1>5, <4>1, <4>2, <4>3, TokensApart
      <4> QED BY <4>1, <4>2, <4>4
    <3> QED BY <3>2 DEF OneValue
  <2>6. CASE FlexLaunch(l, b)
    <3>1. AllStores(l, mem) = {<< <<"flex", q>>, FlexTerm(l, mem, q) >> : q \in 0 .. l.num_tokens - 1}
      BY <2>6, OneProgram, PagedStored, FlexStores DEF FlexLaunch
    <3> QED BY <3>1 DEF OneValue
  <2> QED BY <2>2, <2>5, <2>6
<1> QED BY <1>3, <1>7, <1>8, <1>9

\* In every state of the stream.
LEMMA ValuesMeanOnce == Stream /\ Dispatch /\ PackedValues /\ PagedValues => WrittenOnce
<1> SUFFICES ASSUME Stream, Dispatch, PackedValues, PagedValues PROVE WrittenOnce
  OBVIOUS
<1>1. CASE at > Len(job.launches)
  BY <1>1 DEF Stream, WrittenOnce
<1>2. CASE at <= Len(job.launches)
  <2>1. job \in Jobs /\ at \in DOMAIN job.launches
    <3>1. Len(job.launches) \in Nat /\ DOMAIN job.launches = 1 .. Len(job.launches) /\ job \in Jobs
      BY JobsAssumption DEF Stream
    <3> QED BY <1>2, <3>1 DEF Stream
  <2>2. Launch(at).kernel \in KernelNames /\ DenseLaunch(Launch(at))
    BY <2>1, JobsAssumption DEF Launch
  <2>3. CASE Launch(at).kernel \in DenseKernelNames
    <3>1. OneValue(AllStores(Launch(at), mem))
      BY <2>2, <2>3, DenseOnce
    <3>2. Launch(at).kernel \notin Atomic
      BY <2>3 DEF DenseKernelNames, Atomic
    <3> QED BY <1>2, <3>1, <3>2, StoresOf DEF OneValue, WrittenOnce
  <2>4. CASE Launch(at).kernel \in MoEKernelNames
    BY <1>2, <2>1, <2>4, JobsAssumption, MoEOnce DEF Launch
  <2>5. CASE Launch(at).kernel \in PackedKernelNames
    BY <1>2, <2>1, <2>5, JobsAssumption, PackedOnce DEF Launch
  <2>6. CASE Launch(at).kernel \in PagedKernelNames
    BY <1>2, <2>1, <2>6, JobsAssumption, PagedOnce DEF Launch
  <2> QED BY <2>2, <2>3, <2>4, <2>5, <2>6 DEF KernelNames
<1>3. at \in Nat /\ Len(job.launches) \in Nat
  BY JobsAssumption DEF Stream
<1> QED BY <1>1, <1>2, <1>3

(* No two programs of a launch store different terms in one cell, for      *)
(* every job, shape, tile, batch and order of the programs: tiles do not   *)
(* overlap, masked lanes stay masked, no two pairs share an expert row and *)
(* no two tokens a slot of the cache (WrittenOnce).                        *)
THEOREM WrittenIsOnce == Spec => []WrittenOnce
<1>1. Init => Stream /\ Dispatch /\ PackedValues /\ PagedValues
  BY StreamInit, DispatchInit, PackedInit, PagedInit
<1>2. Stream /\ Dispatch /\ PackedValues /\ PagedValues /\ [Next]_vars => (Stream /\ Dispatch /\ PackedValues /\ PagedValues)'
  BY StreamStep, DispatchStep, PackedStep, PagedNext
<1>3. Stream /\ Dispatch /\ PackedValues /\ PagedValues => WrittenOnce
  BY ValuesMeanOnce
<1> QED BY <1>1, <1>2, <1>3, PTL DEF Spec
=============================================================================
