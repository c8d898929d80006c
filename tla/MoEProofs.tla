------------------------------- MODULE MoEProofs -------------------------------
(***************************************************************************)
(* Proofs about the mixture-of-experts layer: for every number of tokens,  *)
(* experts and choices per token, every tile and block size and every      *)
(* order of the programs, forward and backward, fused and with the         *)
(* external GEMM, tokens are dispatched to rows sorted by expert, and the  *)
(* output and the gradients are those of each token computed alone.        *)
(*                                                                         *)
(* Two invariants are added to that of the stream.  Dispatch follows the   *)
(* histogram and the reservations of the index kernel program by program,  *)
(* its atomic additions included: the counter of an expert is its last row *)
(* minus the rows already reserved, reserved rows are distinct and lie     *)
(* between the counter and the last row.  Values says of every tensor a    *)
(* launch has made that it holds, at the row a pair was sorted into, the   *)
(* term that depends only on the pair; each kernel of the layer is shown   *)
(* to make its tensor from those it reads, and to leave the others.        *)
(***************************************************************************)
EXTENDS DenseProofs, FiniteSetTheorems

\* Twice a power of two is one: an odd divisor of 2p divides p.
LEMMA Doubling ==
  ASSUME NEW p \in Nat \ {0}, PowerOf2(p)
  PROVE  PowerOf2(2 * p)
<1> SUFFICES ASSUME NEW d \in 2 .. 2 * p, (2 * p) % d = 0, d % 2 # 0 PROVE FALSE
  BY DEF PowerOf2
<1> DEFINE q == (2 * p) \div d
           a == d \div 2
           b == q \div 2
           r == q % 2
<1>1. 2 * p \in Nat /\ d \in Nat \ {0} /\ d \in Nat
  OBVIOUS
<1>2. q \in Nat /\ 2 * p = q * d + ((2 * p) % d)
  BY ONLY <1>1, DivMod
<1>3. a \in Nat /\ d = a * 2 + 1
  <2>1. a \in Nat /\ d % 2 \in Nat /\ d % 2 < 2 /\ d = a * 2 + (d % 2)
    BY ONLY <1>1, 2 \in Nat \ {0}, DivMod
  <2> QED BY <2>1
<1>4. b \in Nat /\ r \in Nat /\ r < 2 /\ q = b * 2 + r
  BY ONLY <1>2, 2 \in Nat \ {0}, DivMod
<1> HIDE DEF q, a, b, r
<1>5. 2 * p = q * d
  BY <1>1, <1>2
<1>6. q * d = 2 * (q * a) + q /\ q * a \in Nat
  BY <1>2, <1>3
<1>7. r = 0
  BY <1>1, <1>2, <1>4, <1>5, <1>6
<1>8. p = b * d
  <2>1. q * d = 2 * (b * d) /\ b * d \in Nat
    BY <1>1, <1>4, <1>7
  <2> QED BY <1>5, <2>1
<1>9. d <= p
  <2>1. b # 0
    BY <1>1, <1>8
  <2>2. 1 * d <= b * d
    BY <1>1, <1>4, <2>1, MulMono
  <2> QED BY <1>1, <1>8, <2>2
<1>10. p % d = 0
  <2>1. p = b * d + 0 /\ 0 < d /\ p \in Nat
    BY <1>1, <1>4, <1>8
  <2> QED BY ONLY <1>1, <1>4, <2>1, 0 \in Nat, DivUnique
<1> QED BY <1>1, <1>9, <1>10 DEF PowerOf2

\* The table of the histogram has a bin beyond the experts.
LEMMA NextPower ==
  ASSUME NEW n \in Nat \ {0}
  PROVE  next_power_of_2(n) \in Nat /\ next_power_of_2(n) >= n
<1> DEFINE T == {n - p : p \in {x \in 1 .. n : PowerOf2(x)}}
<1>1. PowerOf2(1)
  BY DEF PowerOf2
<1>2. T \in SUBSET Nat
  OBVIOUS
<1>3. T # {}
  BY <1>1
<1> HIDE DEF T
<1>4. PICK x \in T : \A y \in T : x <= y
  BY <1>2, <1>3, LeastNat
<1>5. PICK p \in 1 .. n : PowerOf2(p) /\ x = n - p
  BY DEF T
<1>6. \A z \in 1 .. n : PowerOf2(z) => z <= p
  <2> SUFFICES ASSUME NEW z \in 1 .. n, PowerOf2(z) PROVE z <= p
    OBVIOUS
  <2>1. n - z \in T
    BY DEF T
  <2> QED BY <1>4, <1>5, <2>1
<1>7. \E z \in n .. 2 * n - 1 : PowerOf2(z)
  <2>1. CASE p = n
    BY <1>5, <2>1
  <2>2. CASE p # n
    <3>1. PowerOf2(2 * p)
      BY <1>5, Doubling
    <3>2. 2 * p \in n .. 2 * n - 1
      BY <1>6, <2>2, <3>1
    <3> QED BY <3>1, <3>2
  <2> QED BY <2>1, <2>2
<1>8. next_power_of_2(n) \in n .. 2 * n - 1
  BY <1>7 DEF next_power_of_2
<1> QED BY <1>8

-----------------------------------------------------------------------------
\* The largest member of a bounded set of indices.
LEMMA MaxIn ==
  ASSUME NEW n \in Nat, NEW t \in SUBSET (1 .. n), t # {}
  PROVE  Max(t) \in t /\ \A y \in t : y <= Max(t)
<1> DEFINE T == {n - x : x \in t}
<1>1. T \in SUBSET Nat /\ T # {}
  OBVIOUS
<1> HIDE DEF T
<1>2. PICK a \in T : \A y \in T : a <= y
  BY <1>1, LeastNat
<1>3. PICK x \in t : a = n - x
  BY DEF T
<1>4. \A y \in t : x >= y
  <2> TAKE y \in t
  <2>1. n - y \in T
    BY DEF T
  <2> QED BY <1>2, <1>3, <2>1
<1>5. Max(t) \in t /\ \A y \in t : Max(t) >= y
  BY <1>4 DEF Max
<1> QED BY <1>5

\* The greatest element of an interval.
LEMMA MaxOfInterval ==
  ASSUME NEW k \in Nat \ {0}
  PROVE  Max(1 .. k) = k /\ (1 .. k) \ {k} = 1 .. k - 1
<1>1. k \in Nat /\ 1 .. k \in SUBSET (1 .. k) /\ 1 .. k # {} /\ k \in 1 .. k
  OBVIOUS
<1>2. Max(1 .. k) \in 1 .. k /\ \A y \in 1 .. k : y <= Max(1 .. k)
  BY ONLY <1>1, MaxIn
<1> HIDE DEF Max
<1>3. Max(1 .. k) = k
  BY <1>1, <1>2
<1> QED BY <1>3

\* A fold from the right end of an index set.
Sums(s, n, g) == \A t \in SUBSET (1 .. n) : g[t] = IF t = {} THEN 0 ELSE g[t \ {Max(t)}] + s[Max(t)]

\* The recursion behind a sum has a solution.
LEMMA SumsExist ==
  ASSUME NEW N \in Nat, NEW s \in [1 .. N -> Nat]
  PROVE  \E g \in [SUBSET (1 .. N) -> Nat] : Sums(s, N, g)
<1> DEFINE Ok(n) == \E g \in [SUBSET (1 .. n) -> Nat] : Sums(s, n, g)
           Bad == {n \in 0 .. N : ~ Ok(n)}
<1>1. Ok(0)
  <2> DEFINE g == [t \in SUBSET (1 .. 0) |-> 0]
  <2>1. \A t \in SUBSET (1 .. 0) : t = {}
    OBVIOUS
  <2>2. Sums(s, 0, g)
    BY <2>1 DEF Sums
  <2>3. g \in [SUBSET (1 .. 0) -> Nat]
    OBVIOUS
  <2> QED BY <2>2, <2>3
<1>2. ASSUME NEW n \in 0 .. N - 1, Ok(n) PROVE Ok(n + 1)
  <2>1. PICK g \in [SUBSET (1 .. n) -> Nat] : Sums(s, n, g)
    BY <1>2
  <2> DEFINE h == [t \in SUBSET (1 .. n + 1) |-> IF n + 1 \in t THEN g[t \ {n + 1}] + s[n + 1] ELSE g[t]]
  <2>2. \A t \in SUBSET (1 .. n + 1) : t \ {n + 1} \in SUBSET (1 .. n) /\ (n + 1 \notin t => t \in SUBSET (1 .. n))
    OBVIOUS
  <2>3. h \in [SUBSET (1 .. n + 1) -> Nat]
    <3> SUFFICES ASSUME NEW t \in SUBSET (1 .. n + 1) PROVE h[t] \in Nat
      OBVIOUS
    <3>1. s[n + 1] \in Nat
      OBVIOUS
    <3>2. CASE n + 1 \in t
      <4>1. t \ {n + 1} \in SUBSET (1 .. n)
        BY <2>2
      <4>2. g[t \ {n + 1}] \in Nat
        BY <4>1
      <4> QED BY <3>1, <3>2, <4>2
    <3>3. CASE n + 1 \notin t
      BY <2>2, <3>3
    <3> QED BY <3>2, <3>3
  <2>4. Sums(s, n + 1, h)
    <3> SUFFICES ASSUME NEW t \in SUBSET (1 .. n + 1)
                 PROVE  h[t] = IF t = {} THEN 0 ELSE h[t \ {Max(t)}] + s[Max(t)]
      BY DEF Sums
    <3>1. CASE n + 1 \in t
      <4>1. Max(t) \in t /\ \A y \in t : y <= Max(t)
        <5>1. n + 1 \in Nat /\ t # {}
          BY <3>1
        <5> QED BY ONLY <5>1, t \in SUBSET (1 .. n + 1), MaxIn
      <4>2. Max(t) = n + 1
        <5>1. Max(t) \in 1 .. n + 1 /\ n + 1 <= Max(t)
          BY <3>1, <4>1
        <5> HIDE DEF Max
        <5> QED BY <5>1
      <4> DEFINE u == t \ {n + 1}
      <4>3. u \in SUBSET (1 .. n) /\ u \in SUBSET (1 .. n + 1) /\ n + 1 \notin u
        BY <2>2
      <4> HIDE DEF u
      <4>4. h[u] = g[u]
        BY <4>3
      <4>5. h[t] = g[u] + s[n + 1]
        BY <3>1 DEF u
      <4> QED BY <3>1, <4>2, <4>4, <4>5 DEF u
    <3>2. CASE n + 1 \notin t
      <4>1. t \in SUBSET (1 .. n)
        BY <2>2, <3>2
      <4>2. h[t] = g[t]
        BY <3>2
      <4>3. CASE t = {}
        BY <2>1, <4>1, <4>2, <4>3 DEF Sums
      <4>4. CASE t # {}
        <5>1. Max(t) \in t
          <6>1. n \in Nat
            OBVIOUS
          <6> QED BY ONLY <4>1, <4>4, <6>1, MaxIn
        <5> DEFINE u == t \ {Max(t)}
        <5>2. u \in SUBSET (1 .. n) /\ u \in SUBSET (1 .. n + 1) /\ n + 1 \notin u
          BY <3>2, <4>1
        <5> HIDE DEF u
        <5>3. h[u] = g[u]
          BY <5>2
        <5>4. g[t] = g[u] + s[Max(t)]
          BY <2>1, <4>1, <4>4 DEF Sums, u
        <5> QED BY <4>2, <4>4, <5>3, <5>4 DEF u
      <4> QED BY <4>3, <4>4
    <3> QED BY <3>1, <3>2
  <2> QED BY <2>3, <2>4
<1> HIDE DEF Ok
<1>3. Bad = {}
  <2> SUFFICES ASSUME Bad # {} PROVE FALSE
    OBVIOUS
  <2>1. Bad \in SUBSET Nat
    OBVIOUS
  <2>2. PICK n \in Bad : \A y \in Bad : n <= y
    <3> HIDE DEF Bad
    <3> QED BY <2>1, LeastNat
  <2>3. n # 0 /\ n \in 0 .. N
    BY <1>1
  <2>4. n - 1 \in 0 .. N - 1 /\ n - 1 \notin Bad
    BY <2>2, <2>3
  <2>5. Ok(n - 1)
    BY <2>4
  <2>6. Ok((n - 1) + 1)
    BY <1>2, <2>4, <2>5
  <2> QED BY <2>2, <2>3, <2>6
<1>4. Ok(N)
  BY <1>3
<1> QED BY <1>4 DEF Ok

\* Running totals.
Totals(s, n, g) == g \in [0 .. n -> Nat] /\ g[0] = 0 /\ \A j \in 1 .. n : g[j] = g[j - 1] + s[j]

\* The totals g of a sequence s, and h of a sequence r it is a prefix of.
PrefixTotals(s, n, g, r, N, h) ==
  /\ Totals(s, n, g) /\ Totals(r, N, h)
  /\ n \in Nat /\ N \in Nat /\ n <= N /\ \A i \in 1 .. n : s[i] = r[i]

\* The running totals of a sequence and of a longer one agree.
LEMMA TotalsUnique ==
  ASSUME NEW n, NEW s, NEW g, NEW h, NEW N, NEW r, PrefixTotals(s, n, g, r, N, h)
  PROVE  \A k \in 0 .. n : g[k] = h[k]
<1> USE DEF PrefixTotals
<1> DEFINE Bad == {k \in 0 .. n : g[k] # h[k]}
<1> SUFFICES ASSUME Bad # {} PROVE FALSE
  OBVIOUS
<1>1. Bad \in SUBSET Nat
  OBVIOUS
<1>2. PICK k \in Bad : \A y \in Bad : k <= y
  <2> HIDE DEF Bad
  <2> QED BY <1>1, LeastNat
<1>3. k \in 1 .. n
  BY <1>2 DEF Totals
<1>4. g[k - 1] = h[k - 1]
  <2>1. k - 1 \in 0 .. n /\ k - 1 \notin Bad
    BY <1>2, <1>3
  <2> QED BY <2>1
<1>5. g[k] = g[k - 1] + s[k] /\ h[k] = h[k - 1] + r[k] /\ s[k] = r[k]
  BY <1>3 DEF Totals
<1> QED BY <1>2, <1>4, <1>5

\* A sum folded over a sequence is its last running total.
LEMMA FoldIsTotal ==
  ASSUME NEW n \in Nat, NEW s \in [1 .. n -> Nat]
  PROVE  \E g : Totals(s, n, g) /\ FoldLeft(LAMBDA a, b : a + b, 0, s) = g[n]
<1> DEFINE F(f) == [t \in SUBSET (1 .. n) |-> IF t = {} THEN 0 ELSE f[t \ {Max(t)}] + s[Max(t)]]
           h == CHOOSE f : f = F(f)
           g == [k \in 0 .. n |-> h[1 .. k]]
<1>1. FoldLeft(LAMBDA a, b : a + b, 0, s) = h[1 .. n]
  <2>1. DOMAIN s = 1 .. n
    OBVIOUS
  <2>2. FoldLeft(LAMBDA a, b : a + b, 0, s) =
          (CHOOSE f : f = [t \in SUBSET DOMAIN s |-> IF t = {} THEN 0 ELSE f[t \ {Max(t)}] + s[Max(t)]])[DOMAIN s]
    BY Zenon DEF FoldLeft, MapThenFoldSet
  <2> QED BY <2>1, <2>2, Zenon
<1>2. PICK w \in [SUBSET (1 .. n) -> Nat] : Sums(s, n, w)
  BY SumsExist
<1>3. w = F(w)
  BY <1>2 DEF Sums
<1>4. h = F(h)
  <2>1. \E f : f = F(f)
    BY <1>3
  <2> QED BY <2>1, Zenon
<1> HIDE DEF h
<1>5. \A k \in 0 .. n : 1 .. k \in SUBSET (1 .. n)
  OBVIOUS
<1>6. h[1 .. 0] = 0
  <2>1. 1 .. 0 = {} /\ 1 .. 0 \in SUBSET (1 .. n)
    OBVIOUS
  <2> QED BY <1>4, <2>1
<1>7. \A k \in 1 .. n : h[1 .. k] = h[1 .. k - 1] + s[k]
  <2> TAKE k \in 1 .. n
  <2>1. Max(1 .. k) = k /\ (1 .. k) \ {k} = 1 .. k - 1
    BY MaxOfInterval
  <2>2. 1 .. k # {} /\ 1 .. k \in SUBSET (1 .. n)
    <3>1. k \in 1 .. k /\ \A x \in 1 .. k : x \in 1 .. n
      OBVIOUS
    <3> QED BY ONLY <3>1, Zenon
  <2>3. h[1 .. k] = h[(1 .. k) \ {Max(1 .. k)}] + s[Max(1 .. k)]
    BY <1>4, <2>2
  <2> QED BY <2>1, <2>3
<1>8. \A k \in 0 .. n : h[1 .. k] \in Nat
  <2> DEFINE Bad == {k \in 0 .. n : h[1 .. k] \notin Nat}
  <2> SUFFICES ASSUME Bad # {} PROVE FALSE
    OBVIOUS
  <2>1. Bad \in SUBSET Nat
    OBVIOUS
  <2>2. PICK k \in Bad : \A y \in Bad : k <= y
    <3> HIDE DEF Bad
    <3> QED BY <2>1, LeastNat
  <2>3. k \in 1 .. n
    BY <1>6, <2>2
  <2>4. h[1 .. k - 1] \in Nat
    <3>1. k - 1 \in 0 .. n /\ k - 1 \notin Bad
      BY <2>2, <2>3
    <3> QED BY <3>1
  <2>5. s[k] \in Nat
    BY <2>3
  <2> QED BY <1>7, <2>2, <2>3, <2>4, <2>5
<1>9. Totals(s, n, g)
  BY <1>6, <1>7, <1>8 DEF Totals
<1>10. g[n] = h[1 .. n]
  OBVIOUS
<1> QED BY <1>1, <1>9, <1>10

\* The sum of a prefix is the running total there.
LEMMA FoldPrefix ==
  ASSUME NEW n \in Nat, NEW s \in [1 .. n -> Nat], NEW g, Totals(s, n, g), NEW k \in 0 .. n,
         NEW r \in [1 .. k -> Nat], \A i \in 1 .. k : r[i] = s[i]
  PROVE  FoldLeft(LAMBDA a, b : a + b, 0, r) = g[k]
<1>1. k \in Nat
  OBVIOUS
<1>2. PICK h : Totals(r, k, h) /\ FoldLeft(LAMBDA a, b : a + b, 0, r) = h[k]
  BY <1>1, FoldIsTotal, Zenon
<1>3. \A j \in 0 .. k : h[j] = g[j]
  <2>1. k <= n
    BY ONLY n \in Nat, k \in 0 .. n
  <2>2. Totals(r, k, h)
    BY <1>2, Zenon
  <2>3. PrefixTotals(r, k, h, s, n, g)
    BY ONLY <1>1, <2>1, <2>2, n \in Nat, Totals(s, n, g), \A i \in 1 .. k : r[i] = s[i] DEF PrefixTotals
  <2> QED BY ONLY <2>3, TotalsUnique
<1>4. h[k] = g[k]
  BY <1>1, <1>3
<1> QED BY <1>2, <1>4, Zenon

\* The same for a fold over all of a sequence.
LEMMA FoldTotal ==
  ASSUME NEW n \in Nat, NEW s \in [1 .. n -> Nat], NEW g, Totals(s, n, g)
  PROVE  FoldLeft(LAMBDA a, b : a + b, 0, s) = g[n]
<1>1. PICK h : Totals(s, n, h) /\ FoldLeft(LAMBDA a, b : a + b, 0, s) = h[n]
  BY FoldIsTotal, Zenon
<1>2. Totals(s, n, h)
  BY <1>1, Zenon
<1>3. PrefixTotals(s, n, h, s, n, g)
  BY ONLY <1>2, n \in Nat, Totals(s, n, g) DEF PrefixTotals
<1>4. h[n] = g[n]
  <2>1. \A k \in 0 .. n : h[k] = g[k]
    BY ONLY <1>3, TotalsUnique
  <2>2. n \in 0 .. n
    BY ONLY n \in Nat
  <2> QED BY ONLY <2>1, <2>2
<1> QED BY <1>1, <1>4, Zenon

-----------------------------------------------------------------------------
\* Sets of (token, k) pairs are finite.
LEMMA Count ==
  ASSUME NEW n \in Nat, NEW S \in SUBSET (0 .. n - 1)
  PROVE  IsFiniteSet(S) /\ Cardinality(S) \in 0 .. n
<1>1. IsFiniteSet(0 .. n - 1) /\ Cardinality(0 .. n - 1) = n
  <2>1. 0 \in Int /\ n - 1 \in Int
    OBVIOUS
  <2>2. /\ IsFiniteSet(0 .. n - 1)
        /\ Cardinality(0 .. n - 1) = IF 0 > n - 1 THEN 0 ELSE n - 1 - 0 + 1
    BY ONLY <2>1, FS_Interval
  <2> QED BY <2>2
<1>2. IsFiniteSet(S) /\ Cardinality(S) <= n
  BY <1>1, FS_Subset
<1>3. Cardinality(S) \in Nat
  BY <1>2, FS_CardinalityType
<1> QED BY <1>2, <1>3

\* A subset is not larger.
LEMMA CountSubset ==
  ASSUME NEW n \in Nat, NEW B \in SUBSET (0 .. n - 1), NEW A \in SUBSET B
  PROVE  Cardinality(A) <= Cardinality(B) /\ Cardinality(A) \in 0 .. n /\ Cardinality(B) \in 0 .. n
<1>1. IsFiniteSet(B) /\ Cardinality(B) \in 0 .. n
  BY Count
<1>2. A \in SUBSET (0 .. n - 1)
  OBVIOUS
<1>3. Cardinality(A) \in 0 .. n
  BY <1>2, Count
<1> QED BY <1>1, <1>3, FS_Subset

\* Disjoint sets add up.
LEMMA CountSplit ==
  ASSUME NEW n \in Nat, NEW A \in SUBSET (0 .. n - 1), NEW B \in SUBSET (0 .. n - 1), A \cap B = {}
  PROVE  /\ Cardinality(A \cup B) = Cardinality(A) + Cardinality(B)
         /\ Cardinality(A) \in 0 .. n /\ Cardinality(B) \in 0 .. n
<1>1. IsFiniteSet(A) /\ Cardinality(A) \in 0 .. n /\ IsFiniteSet(B) /\ Cardinality(B) \in 0 .. n
  BY Count
<1>2. Cardinality(A \cup B) = Cardinality(A) + Cardinality(B) - Cardinality(A \cap B)
  BY <1>1, FS_Union
<1>3. Cardinality(A \cap B) = 0
  BY FS_EmptySet
<1> QED BY <1>1, <1>2, <1>3

\* One more element.
LEMMA CountAdd ==
  ASSUME NEW n \in Nat, NEW B \in SUBSET (0 .. n - 1), NEW A \in SUBSET B, NEW x \in B, x \notin A
  PROVE  Cardinality(A) + 1 <= Cardinality(B) /\ Cardinality(A) \in 0 .. n /\ Cardinality(B) \in 0 .. n
<1>1. A \cup {x} \in SUBSET B /\ A \in SUBSET (0 .. n - 1)
  OBVIOUS
<1>2. IsFiniteSet(A) /\ Cardinality(A) \in 0 .. n
  BY <1>1, Count
<1>3. Cardinality(A \cup {x}) = Cardinality(A) + 1
  BY <1>2, FS_AddElement
<1>4. Cardinality(A \cup {x}) <= Cardinality(B) /\ Cardinality(B) \in 0 .. n
  BY <1>1, CountSubset
<1> QED BY <1>2, <1>3, <1>4

\* The pairs of an expert, and those of the experts up to one and before one.
Of(n, ex, e)    == {f \in 0 .. n - 1 : ex[f] = e}
UpTo(n, ex, e)  == {f \in 0 .. n - 1 : ex[f] <= e}
Under(n, ex, e) == {f \in 0 .. n - 1 : ex[f] < e}

\* A routing of n pairs to E experts.
Routing(n, E, ex) == n \in Nat /\ E \in Nat /\ ex \in [0 .. n - 1 -> 0 .. E - 1]

\* The pairs up to an expert are those before it and its own.
LEMMA UpToSplit ==
  ASSUME NEW n, NEW E, NEW ex, Routing(n, E, ex), NEW e \in Int
  PROVE  /\ Cardinality(UpTo(n, ex, e)) = Cardinality(Under(n, ex, e)) + Cardinality(Of(n, ex, e))
         /\ UpTo(n, ex, e - 1) = Under(n, ex, e)
         /\ Cardinality(UpTo(n, ex, e)) \in 0 .. n
         /\ Cardinality(Under(n, ex, e)) \in 0 .. n
         /\ Cardinality(Of(n, ex, e)) \in 0 .. n
<1> DEFINE U == UpTo(n, ex, e)
           A == Under(n, ex, e)
           B == Of(n, ex, e)
<1>0. n \in Nat /\ E \in Nat /\ ex \in [0 .. n - 1 -> 0 .. E - 1]
  BY DEF Routing
<1>1. U = A \cup B /\ A \cap B = {} /\ UpTo(n, ex, e - 1) = A
  <2>1. \A f \in 0 .. n - 1 : ex[f] \in Int
    BY <1>0
  <2>2. U = A \cup B /\ A \cap B = {}
    BY ONLY <2>1, e \in Int DEF UpTo, Under, Of
  <2>3. UpTo(n, ex, e - 1) = A
    BY ONLY <2>1, e \in Int DEF UpTo, Under
  <2> QED BY <2>2, <2>3
<1>2. A \in SUBSET (0 .. n - 1) /\ B \in SUBSET (0 .. n - 1) /\ U \in SUBSET (0 .. n - 1)
  BY DEF UpTo, Under, Of
<1>3. Cardinality(U) \in 0 .. n
  BY <1>0, <1>2, Count
<1> HIDE DEF U, A, B
<1>4. Cardinality(A \cup B) = Cardinality(A) + Cardinality(B) /\ Cardinality(A) \in 0 .. n /\ Cardinality(B) \in 0 .. n
  <2>1. n \in Nat /\ A \in SUBSET (0 .. n - 1) /\ B \in SUBSET (0 .. n - 1) /\ A \cap B = {}
    BY <1>0, <1>1, <1>2
  <2> QED BY ONLY <2>1, CountSplit, ZenonT(60)
<1> QED BY <1>1, <1>3, <1>4 DEF U, A, B

\* The histogram, up to expert e, of a memory that counts a routing.
HistPrefix(n, E, ex, m, e, s) ==
  /\ Routing(n, E, ex) /\ \A d \in 0 .. E - 1 : Load(m, <<"hist", d>>) = Cardinality(Of(n, ex, d))
  /\ e \in 0 .. E - 1 /\ s = [i \in 1 .. e + 1 |-> Load(m, <<"hist", i - 1>>)]

SumIs(s, v) == FoldLeft(LAMBDA a, b : a + b, 0, s) = v

\* The cumulative sum of the histogram counts the pairs of the experts up to e.
LEMMA CumIs ==
  ASSUME NEW n, NEW E, NEW ex, NEW m, NEW e, NEW s, HistPrefix(n, E, ex, m, e, s)
  PROVE  SumIs(s, Cardinality(UpTo(n, ex, e)))
<1> DEFINE g == [k \in 0 .. e + 1 |-> Cardinality(UpTo(n, ex, k - 1))]
<1>0. n \in Nat /\ E \in Nat /\ ex \in [0 .. n - 1 -> 0 .. E - 1] /\ e + 1 \in Nat /\ e \in Nat
      /\ Routing(n, E, ex) /\ \A d \in 0 .. E - 1 : Load(m, <<"hist", d>>) = Cardinality(Of(n, ex, d))
      /\ s = [i \in 1 .. e + 1 |-> Load(m, <<"hist", i - 1>>)] /\ e \in 0 .. E - 1
  BY DEF Routing, HistPrefix
<1>1. \A i \in 1 .. e + 1 : s[i] = Cardinality(Of(n, ex, i - 1)) /\ s[i] \in Nat
  <2> TAKE i \in 1 .. e + 1
  <2>1. i - 1 \in 0 .. E - 1 /\ i - 1 \in Int
    <3>1. E \in Nat /\ e \in 0 .. E - 1
      BY DEF HistPrefix, Routing
    <3>2. i \in 1 .. e + 1
      OBVIOUS
    <3> QED BY ONLY <3>1, <3>2
  <2>2. Cardinality(Of(n, ex, i - 1)) \in 0 .. n
    BY <1>0, <2>1, UpToSplit
  <2>3. s[i] = Cardinality(Of(n, ex, i - 1))
    BY <1>0, <2>1
  <2> QED BY <1>0, <2>2, <2>3
<1>2. s \in [1 .. e + 1 -> Nat]
  <2>1. s = [i \in 1 .. e + 1 |-> Load(m, <<"hist", i - 1>>)]
    BY DEF HistPrefix
  <2> QED BY ONLY <1>1, <2>1
<1>3. g \in [0 .. e + 1 -> Nat]
  <2> SUFFICES ASSUME NEW k \in 0 .. e + 1 PROVE Cardinality(UpTo(n, ex, k - 1)) \in Nat
    OBVIOUS
  <2>1. k - 1 \in Int
    BY <1>0
  <2>2. Cardinality(UpTo(n, ex, k - 1)) \in 0 .. n
    BY <1>0, <2>1, UpToSplit
  <2> QED BY <1>0, <2>2
<1>4. g[0] = 0
  <2>1. UpTo(n, ex, 0 - 1) = {}
    BY <1>0 DEF UpTo
  <2>2. g[0] = Cardinality(UpTo(n, ex, 0 - 1))
    BY <1>0
  <2> QED BY <2>1, <2>2, FS_EmptySet
<1>5. \A j \in 1 .. e + 1 : g[j] = g[j - 1] + s[j]
  <2> TAKE j \in 1 .. e + 1
  <2>1. j - 1 \in Int /\ j - 1 \in 0 .. e + 1 /\ j \in 0 .. e + 1
    BY <1>0
  <2>2. /\ Cardinality(UpTo(n, ex, j - 1)) = Cardinality(Under(n, ex, j - 1)) + Cardinality(Of(n, ex, j - 1))
        /\ UpTo(n, ex, (j - 1) - 1) = Under(n, ex, j - 1)
    BY <1>0, <2>1, UpToSplit
  <2>3. g[j] = Cardinality(UpTo(n, ex, j - 1)) /\ g[j - 1] = Cardinality(UpTo(n, ex, (j - 1) - 1))
    BY <2>1
  <2>4. s[j] = Cardinality(Of(n, ex, j - 1))
    BY <1>1
  <2> HIDE DEF g
  <2> QED BY <2>2, <2>3, <2>4
<1>6. Totals(s, e + 1, g)
  BY <1>3, <1>4, <1>5 DEF Totals
<1>7. g[e + 1] = Cardinality(UpTo(n, ex, e))
  <2>1. e + 1 \in 0 .. e + 1 /\ (e + 1) - 1 = e
    BY <1>0
  <2> QED BY <2>1
<1> HIDE DEF g
<1>8. FoldLeft(LAMBDA a, b : a + b, 0, s) = g[e + 1]
  BY ONLY <1>0, <1>2, <1>6, FoldTotal, Zenon
<1> QED BY ONLY <1>7, <1>8, Zenon DEF SumIs

-----------------------------------------------------------------------------
\* Rows sorted by expert: the row of a pair lies among those of its expert, and no
\* two pairs share one.
Sorted(n, ex, row) ==
  /\ \A f \in 0 .. n - 1 : /\ row[f] \in Int
                           /\ Cardinality(Under(n, ex, ex[f])) <= row[f]
                           /\ row[f] < Cardinality(UpTo(n, ex, ex[f]))
  /\ \A f, h \in 0 .. n - 1 : row[f] = row[h] => f = h

\* Then the rows are all taken.
LEMMA SortedOnto ==
  ASSUME NEW n, NEW E, NEW ex, Routing(n, E, ex), NEW row, Sorted(n, ex, row)
  PROVE  {row[f] : f \in 0 .. n - 1} = 0 .. n - 1 /\ \A f \in 0 .. n - 1 : row[f] \in 0 .. n - 1
<1> DEFINE S == 0 .. n - 1
           r == [f \in S |-> row[f]]
<1>0. n \in Nat /\ ex \in [0 .. n - 1 -> 0 .. E - 1] /\ E \in Nat
  BY DEF Routing
<1>1. \A f \in S : row[f] \in S
  <2> TAKE f \in S
  <2>1. ex[f] \in Int
    BY <1>0
  <2>2. Cardinality(Under(n, ex, ex[f])) \in 0 .. n /\ Cardinality(UpTo(n, ex, ex[f])) \in 0 .. n
    BY <2>1, UpToSplit
  <2>3. row[f] \in Int /\ Cardinality(Under(n, ex, ex[f])) <= row[f] /\ row[f] < Cardinality(UpTo(n, ex, ex[f]))
    BY DEF Sorted
  <2> QED BY <1>0, <2>2, <2>3
<1>2. r \in Injection(S, S)
  <2>1. r \in [S -> S]
    BY <1>1
  <2>2. \A a, b \in S : r[a] = r[b] => a = b
    BY DEF Sorted
  <2> QED BY <2>1, <2>2 DEF Injection, IsInjective
<1>3. IsFiniteSet(S)
  <2>1. S \in SUBSET (0 .. n - 1)
    OBVIOUS
  <2> QED BY <1>0, <2>1, Count
<1>4. r \in Surjection(S, S)
  <2> HIDE DEF r, S
  <2> QED BY <1>2, <1>3, FS_Injection
<1>5. \A t \in S : \E f \in S : r[f] = t
  BY <1>4 DEF Surjection
<1> QED BY <1>1, <1>5

\* The stable argsort of the argsort sorts.
Rank(n, ex, f) == Cardinality({g \in 0 .. n - 1 : ex[g] < ex[f] \/ (ex[g] = ex[f] /\ g < f)})
\* The rank of a pair, by expert and then by position, sorts the pairs.
LEMMA RankSorts ==
  ASSUME NEW n, NEW E, NEW ex, Routing(n, E, ex), NEW row, \A f \in 0 .. n - 1 : row[f] = Rank(n, ex, f)
  PROVE  Sorted(n, ex, row)
<1> DEFINE R(f) == {g \in 0 .. n - 1 : ex[g] < ex[f] \/ (ex[g] = ex[f] /\ g < f)}
<1>0. n \in Nat /\ ex \in [0 .. n - 1 -> 0 .. E - 1] /\ E \in Nat /\ \A f \in 0 .. n - 1 : ex[f] \in Int
  BY DEF Routing
<1>1. ASSUME NEW f \in 0 .. n - 1
      PROVE  /\ row[f] \in Int
             /\ Cardinality(Under(n, ex, ex[f])) <= row[f]
             /\ row[f] < Cardinality(UpTo(n, ex, ex[f]))
  <2>1. /\ R(f) \in SUBSET UpTo(n, ex, ex[f]) /\ UpTo(n, ex, ex[f]) \in SUBSET (0 .. n - 1)
        /\ f \in UpTo(n, ex, ex[f]) /\ f \notin R(f)
    BY <1>0 DEF UpTo
  <2>2. Under(n, ex, ex[f]) \subseteq R(f) /\ R(f) \in SUBSET (0 .. n - 1)
    <3>1. ASSUME NEW g \in Under(n, ex, ex[f]) PROVE g \in R(f)
      <4>1. g \in 0 .. n - 1 /\ ex[g] < ex[f]
        BY DEF Under
      <4> QED BY <4>1
    <3>2. \A g \in R(f) : g \in 0 .. n - 1
      OBVIOUS
    <3> QED BY <3>1, <3>2
  <2>3. row[f] = Cardinality(R(f))
    BY DEF Rank
  <2> HIDE DEF R
  <2>4. Cardinality(R(f)) + 1 <= Cardinality(UpTo(n, ex, ex[f])) /\ Cardinality(R(f)) \in 0 .. n
        /\ Cardinality(UpTo(n, ex, ex[f])) \in 0 .. n
    BY <1>0, <2>1, CountAdd
  <2>5. Cardinality(Under(n, ex, ex[f])) <= Cardinality(R(f))
    BY <1>0, <2>2, CountSubset
  <2> QED BY <1>0, <2>3, <2>4, <2>5
<1>2. ASSUME NEW f \in 0 .. n - 1, NEW h \in 0 .. n - 1, ex[f] < ex[h] \/ (ex[f] = ex[h] /\ f < h)
      PROVE  row[f] < row[h]
  <2>1. R(f) \in SUBSET R(h) /\ R(h) \in SUBSET (0 .. n - 1) /\ f \in R(h) /\ f \notin R(f)
    BY <1>0, <1>2
  <2>2. row[f] = Cardinality(R(f)) /\ row[h] = Cardinality(R(h))
    BY DEF Rank
  <2> HIDE DEF R
  <2>3. Cardinality(R(f)) + 1 <= Cardinality(R(h)) /\ Cardinality(R(f)) \in 0 .. n /\ Cardinality(R(h)) \in 0 .. n
    BY <1>0, <2>1, CountAdd
  <2> QED BY <1>0, <2>2, <2>3
<1>3. ASSUME NEW f \in 0 .. n - 1, NEW h \in 0 .. n - 1, row[f] = row[h], f # h PROVE FALSE
  <2>1. \/ ex[f] < ex[h] \/ (ex[f] = ex[h] /\ f < h)
        \/ ex[h] < ex[f] \/ (ex[h] = ex[f] /\ h < f)
    <3>1. ex[f] \in Int /\ ex[h] \in Int /\ f \in Int /\ h \in Int
      BY <1>0
    <3>2. CASE ex[f] = ex[h]
      BY <1>3, <3>1, <3>2
    <3>3. CASE ex[f] # ex[h]
      BY ONLY <3>1, <3>3
    <3> QED BY <3>2, <3>3
  <2>2. row[f] < row[h] \/ row[h] < row[f]
    BY <1>2, <2>1
  <2>3. row[f] \in Int /\ row[h] \in Int
    BY <1>1
  <2> QED BY <1>3, <2>2, <2>3
<1> QED BY <1>1, <1>3 DEF Sorted

\* The lanes of one program, numbered.
LEMMA Numbering ==
  ASSUME NEW n \in Nat, NEW S \in SUBSET (0 .. n - 1)
  PROVE  /\ Cardinality(S) \in 0 .. n
         /\ \A f \in S : Cardinality({g \in S : g <= f}) \in 1 .. Cardinality(S)
         /\ \A f, h \in S : f # h => Cardinality({g \in S : g <= f}) # Cardinality({g \in S : g <= h})
<1> DEFINE L(f) == {g \in S : g <= f}
<1>0. Cardinality(S) \in 0 .. n
  BY Count
<1>1. ASSUME NEW f \in S PROVE Cardinality(L(f)) \in 1 .. Cardinality(S)
  <2>1. L(f) \in SUBSET S /\ {} \in SUBSET L(f) /\ f \in L(f) /\ f \notin {} /\ L(f) \in SUBSET (0 .. n - 1)
    <3>1. f \in Int /\ f <= f
      OBVIOUS
    <3>2. f \in L(f)
      BY <3>1
    <3>3. L(f) \subseteq S
      OBVIOUS
    <3> HIDE DEF L
    <3> QED BY <3>2, <3>3
  <2> HIDE DEF L
  <2>2. Cardinality(L(f)) <= Cardinality(S) /\ Cardinality(L(f)) \in 0 .. n
    BY <2>1, CountSubset
  <2>3. Cardinality({}) + 1 <= Cardinality(L(f))
    BY <2>1, CountAdd
  <2>4. Cardinality({}) = 0
    BY FS_EmptySet
  <2> QED BY <1>0, <2>2, <2>3, <2>4
<1>2. ASSUME NEW f \in S, NEW h \in S, f < h PROVE Cardinality(L(f)) < Cardinality(L(h))
  <2>1. L(f) \in SUBSET L(h) /\ h \in L(h) /\ h \notin L(f) /\ L(h) \in SUBSET (0 .. n - 1)
    <3>1. f \in Int /\ h \in Int /\ \A g \in S : g \in Int
      OBVIOUS
    <3>2. h \in L(h) /\ h \notin L(f)
      BY <1>2, <3>1
    <3>3. \A g \in L(f) : g \in L(h)
      BY <1>2, <3>1
    <3>4. L(h) \subseteq S
      OBVIOUS
    <3> HIDE DEF L
    <3> QED BY <3>2, <3>3, <3>4
  <2> HIDE DEF L
  <2>2. Cardinality(L(f)) + 1 <= Cardinality(L(h)) /\ Cardinality(L(f)) \in 0 .. n /\ Cardinality(L(h)) \in 0 .. n
    BY <2>1, CountAdd
  <2> QED BY <2>2
<1>3. ASSUME NEW f \in S, NEW h \in S, f # h PROVE Cardinality(L(f)) # Cardinality(L(h))
  <2>1. f < h \/ h < f
    BY <1>3
  <2>2. Cardinality(L(f)) < Cardinality(L(h)) \/ Cardinality(L(h)) < Cardinality(L(f))
    BY <1>2, <2>1
  <2>3. Cardinality(L(f)) \in Int /\ Cardinality(L(h)) \in Int
    BY <1>0, <1>1
  <2> HIDE DEF L
  <2> QED BY <2>2, <2>3
<1> QED BY <1>0, <1>1, <1>3

-----------------------------------------------------------------------------
\* Two sequences joined.
LEMMA Appended ==
  ASSUME NEW m \in Nat, NEW n \in Nat, NEW A, A = [i \in 1 .. m |-> A[i]], NEW B, B = [i \in 1 .. n |-> B[i]]
  PROVE  /\ Len(A \o B) = m + n
         /\ \A i \in 1 .. m : (A \o B)[i] = A[i]
         /\ \A i \in 1 .. n : (A \o B)[m + i] = B[i]
<1> DEFINE S == {A[i] : i \in 1 .. m} \cup {B[i] : i \in 1 .. n}
<1>1. A \in Seq(S) /\ Len(A) = m
  OBVIOUS
<1>2. B \in Seq(S) /\ Len(B) = n
  OBVIOUS
<1> HIDE DEF S
<1> QED BY <1>1, <1>2

\* The launches of the two layers and of the index computation, by position.
LEMMA FusedLaunches ==
  ASSUME NEW s, NEW L, L = FusedForward(s) \o FusedBackward(s)
  PROVE  /\ Len(L) = 19
         /\ L[1] = expert_histogram(s) /\ L[2] = Torch(s, "argsort") /\ L[3] = moe_scatter(s, "x", "scat")
         /\ L[4] = Torch(s, "cumsum")
         /\ L[5] = group_gemm_same_nk(s, "scat", "W1_1", "fc1_1", s.T * s.topk, I, H)
         /\ L[6] = group_gemm_same_nk(s, "scat", "W1_2", "fc1_2", s.T * s.topk, I, H)
         /\ L[7] = Torch(s, "activation")
         /\ L[8] = group_gemm_same_nk(s, "wact", "W2", "fc2", s.T * s.topk, H, I)
         /\ L[9] = moe_gather(s, "fc2", "moe")
         /\ L[10] = moe_scatter(s, "gout", "g_fc2")
         /\ L[11] = group_gemm_same_nk(s, "g_fc2", "W2t", "g_wact", s.T, I, H)
         /\ L[12] = group_gemm_same_mn(s, "g_fc2", "wact", "g_W2", H, I)
         /\ L[13] = Torch(s, "activation_grad")
         /\ L[14] = group_gemm_same_nk(s, "g_fc1_2", "W1_2t", "g_scat2", s.T, H, I)
         /\ L[15] = group_gemm_same_mn(s, "g_fc1_2", "scat", "g_W1_2", I, H)
         /\ L[16] = group_gemm_same_nk(s, "g_fc1_1", "W1_1t", "g_scat1", s.T, H, I)
         /\ L[17] = group_gemm_same_mn(s, "g_fc1_1", "scat", "g_W1_1", I, H)
         /\ L[18] = Torch(s, "grad_sum") /\ L[19] = moe_gather(s, "g_scat", "g_x")
<1> DEFINE A == FusedForward(s)
           B == FusedBackward(s)
<1>1. A = [i \in 1 .. 9 |-> A[i]]
  BY DEF FusedForward
<1>2. B = [i \in 1 .. 10 |-> B[i]]
  BY DEF FusedBackward
<1> HIDE DEF A, B
<1>3. /\ Len(A \o B) = 9 + 10
      /\ \A i \in 1 .. 9 : (A \o B)[i] = A[i]
      /\ \A i \in 1 .. 10 : (A \o B)[9 + i] = B[i]
  BY ONLY <1>1, <1>2, 9 \in Nat, 10 \in Nat, Appended
<1>4. L = A \o B
  BY DEF A, B
<1>5. Len(L) = 19 /\ (\A i \in 1 .. 9 : L[i] = A[i]) /\ \A i \in 10 .. 19 : L[i] = B[i - 9]
  <2>1. \A i \in 10 .. 19 : i - 9 \in 1 .. 10 /\ 9 + (i - 9) = i
    OBVIOUS
  <2>2. \A i \in 10 .. 19 : L[i] = B[i - 9]
    <3> TAKE i \in 10 .. 19
    <3>1. (A \o B)[9 + (i - 9)] = B[i - 9]
      BY <1>3, <2>1
    <3> QED BY <1>4, <2>1, <3>1
  <2>3. \A i \in 1 .. 9 : L[i] = A[i]
    <3> TAKE i \in 1 .. 9
    <3>1. (A \o B)[i] = A[i]
      BY <1>3
    <3> QED BY <1>4, <3>1
  <2>4. Len(L) = 19
    BY <1>3, <1>4
  <2> QED BY <2>2, <2>3, <2>4
<1>6. L[1] = A[1] /\ L[2] = A[2] /\ L[3] = A[3] /\ L[4] = A[4] /\ L[5] = A[5] /\ L[6] = A[6] /\ L[7] = A[7] /\ L[8] = A[8] /\ L[9] = A[9]
  BY ONLY <1>5
<1>7. L[10] = B[1] /\ L[11] = B[2] /\ L[12] = B[3] /\ L[13] = B[4] /\ L[14] = B[5] /\ L[15] = B[6] /\ L[16] = B[7] /\ L[17] = B[8] /\ L[18] = B[9] /\ L[19] = B[10]
  BY ONLY <1>5
<1> QED BY <1>5, <1>6, <1>7 DEF A, B, FusedForward, FusedBackward

\* What QuackFusedMoeExpertFunction launches, one by one.
LEMMA QuackLaunches ==
  ASSUME NEW s, NEW L, L = QuackForward(s) \o QuackBackward(s)
  PROVE  /\ Len(L) = 19
         /\ L[1] = Torch(s, "build_indices") /\ L[2] = expert_histogram(s) /\ L[3] = Torch(s, "cumsum")
         /\ L[4] = gemm(s, "x", "W1_1", "fc1_1", I, H, TRUE)
         /\ L[5] = gemm(s, "x", "W1_2", "fc1_2", I, H, TRUE)
         /\ L[6] = Torch(s, "activation") /\ L[7] = gemm(s, "wact", "W2", "fc2", H, I, FALSE)
         /\ L[8] = moe_gather(s, "fc2", "moe")
         /\ L[9] = moe_scatter(s, "gout", "g_fc2")
         /\ L[10] = gemm(s, "g_fc2", "W2t", "g_wact", I, H, FALSE)
         /\ L[11] = gemm_k(s, "g_fc2", "wact", "g_W2", H, I)
         /\ L[12] = Torch(s, "activation_grad")
         /\ L[13] = gemm(s, "g_fc1_2", "W1_2t", "g_scat2", H, I, FALSE)
         /\ L[14] = gemm(s, "g_fc1_1", "W1_1t", "g_scat1", H, I, FALSE)
         /\ L[15] = moe_scatter(s, "x", "scat")
         /\ L[16] = gemm_k(s, "g_fc1_2", "scat", "g_W1_2", I, H)
         /\ L[17] = gemm_k(s, "g_fc1_1", "scat", "g_W1_1", I, H)
         /\ L[18] = Torch(s, "grad_sum") /\ L[19] = moe_gather(s, "g_scat", "g_x")
<1> DEFINE A == QuackForward(s)
           B == QuackBackward(s)
<1>1. A = [i \in 1 .. 8 |-> A[i]]
  BY DEF QuackForward
<1>2. B = [i \in 1 .. 11 |-> B[i]]
  BY DEF QuackBackward
<1> HIDE DEF A, B
<1>3. /\ Len(A \o B) = 8 + 11
      /\ \A i \in 1 .. 8 : (A \o B)[i] = A[i]
      /\ \A i \in 1 .. 11 : (A \o B)[8 + i] = B[i]
  BY ONLY <1>1, <1>2, 8 \in Nat, 11 \in Nat, Appended
<1>4. L = A \o B
  BY DEF A, B
<1>5. Len(L) = 19 /\ (\A i \in 1 .. 8 : L[i] = A[i]) /\ \A i \in 9 .. 19 : L[i] = B[i - 8]
  <2>1. \A i \in 9 .. 19 : i - 8 \in 1 .. 11 /\ 8 + (i - 8) = i
    OBVIOUS
  <2>2. \A i \in 9 .. 19 : L[i] = B[i - 8]
    <3> TAKE i \in 9 .. 19
    <3>1. (A \o B)[8 + (i - 8)] = B[i - 8]
      BY <1>3, <2>1
    <3> QED BY <1>4, <2>1, <3>1
  <2>3. \A i \in 1 .. 8 : L[i] = A[i]
    <3> TAKE i \in 1 .. 8
    <3>1. (A \o B)[i] = A[i]
      BY <1>3
    <3> QED BY <1>4, <3>1
  <2>4. Len(L) = 19
    BY <1>3, <1>4
  <2> QED BY <2>2, <2>3, <2>4
<1>6. L[1] = A[1] /\ L[2] = A[2] /\ L[3] = A[3] /\ L[4] = A[4] /\ L[5] = A[5] /\ L[6] = A[6] /\ L[7] = A[7] /\ L[8] = A[8]
  BY ONLY <1>5
<1>7. L[9] = B[1] /\ L[10] = B[2] /\ L[11] = B[3] /\ L[12] = B[4] /\ L[13] = B[5] /\ L[14] = B[6] /\ L[15] = B[7] /\ L[16] = B[8] /\ L[17] = B[9] /\ L[18] = B[10] /\ L[19] = B[11]
  BY ONLY <1>5
<1>8. /\ A[1] = Torch(s, "build_indices") /\ A[2] = expert_histogram(s) /\ A[3] = Torch(s, "cumsum")
      /\ A[4] = gemm(s, "x", "W1_1", "fc1_1", I, H, TRUE) /\ A[5] = gemm(s, "x", "W1_2", "fc1_2", I, H, TRUE)
      /\ A[6] = Torch(s, "activation") /\ A[7] = gemm(s, "wact", "W2", "fc2", H, I, FALSE)
      /\ A[8] = moe_gather(s, "fc2", "moe")
  BY DEF A, QuackForward
<1>9. /\ B[1] = moe_scatter(s, "gout", "g_fc2") /\ B[2] = gemm(s, "g_fc2", "W2t", "g_wact", I, H, FALSE)
      /\ B[3] = gemm_k(s, "g_fc2", "wact", "g_W2", H, I) /\ B[4] = Torch(s, "activation_grad")
      /\ B[5] = gemm(s, "g_fc1_2", "W1_2t", "g_scat2", H, I, FALSE)
      /\ B[6] = gemm(s, "g_fc1_1", "W1_1t", "g_scat1", H, I, FALSE)
      /\ B[7] = moe_scatter(s, "x", "scat")
      /\ B[8] = gemm_k(s, "g_fc1_2", "scat", "g_W1_2", I, H) /\ B[9] = gemm_k(s, "g_fc1_1", "scat", "g_W1_1", I, H)
      /\ B[10] = Torch(s, "grad_sum") /\ B[11] = moe_gather(s, "g_scat", "g_x")
  BY DEF B, QuackBackward
<1> QED BY ONLY <1>5, <1>6, <1>7, <1>8, <1>9

\* What moe_index_compute launches, one by one.
LEMMA IndexLaunches ==
  ASSUME NEW s, NEW L, L = moe_index_compute(s)
  PROVE  /\ Len(L) = 4
         /\ L[1] = expert_histogram(s) /\ L[2] = Torch(s, "cumsum") /\ L[3] = Torch(s, "clone")
         /\ L[4] = [kernel |-> "index", T |-> s.T, topk |-> s.topk, E |-> s.E,
                    grid |-> {<<p>> : p \in 0 .. Cdiv(s.T * s.topk, IndexBlock) - 1}]
BY DEF moe_index_compute

-----------------------------------------------------------------------------
\* The shape of the layer, its (token, k) pairs and where they are routed.
Sh    == ShapeOf(job)
Pairs == Sh.T * Sh.topk
Ex    == [f \in 0 .. Pairs - 1 |-> ExpertOf(Sh, job.mem, f)]

\* The tensors a launch makes, and those that must have been made before it.
Makes(l) ==
  CASE l.kernel = "histogram"     -> {"hist"}
    [] l.kernel = "argsort"       -> {"sidx"}
    [] l.kernel = "index"         -> {"sidx"}
    [] l.kernel = "build_indices" -> {"sidx", "aidx"}
    [] l.kernel = "cumsum"        -> {"cum"}
    [] l.kernel = "clone"         -> {"cumcopy"}
    [] l.kernel = "scatter"       -> {l.o}
    [] l.kernel = "gather"        -> {l.y}
    [] l.kernel = "gemm_nk"       -> {l.c}
    [] l.kernel = "gemm_mn"       -> {l.c}
    [] l.kernel = "quack"         -> {l.c}
    [] l.kernel = "quack_k"       -> {l.c}
    [] l.kernel = "activation"    -> {"wact"}
    [] l.kernel = "activation_grad" -> {"g_fc1_1", "g_fc1_2", "g_gate"}
    [] l.kernel = "grad_sum"      -> {"g_scat"}
Needs(l) ==
  CASE l.kernel = "histogram"     -> {}
    [] l.kernel = "argsort"       -> {}
    [] l.kernel = "build_indices" -> {}
    [] l.kernel = "cumsum"        -> {"hist"}
    [] l.kernel = "clone"         -> {"hist"}
    [] l.kernel = "index"         -> {"hist", "cum", "cumcopy"}
    [] l.kernel = "scatter"       -> {"sidx"}
    [] l.kernel = "gather"        -> {"sidx", l.x}
    [] l.kernel = "gemm_nk"       -> {"sidx", "cum", l.a}
    [] l.kernel = "gemm_mn"       -> {"sidx", "cum", l.a, l.b}
    [] l.kernel = "quack"         -> {"sidx", "cum", IF l.idx THEN "aidx" ELSE l.a}
    [] l.kernel = "quack_k"       -> {"sidx", "cum", l.a, l.b}
    [] l.kernel = "activation"    -> {"sidx", "fc1_1", "fc1_2"}
    [] l.kernel = "activation_grad" -> {"sidx", "g_wact", "fc1_1", "fc1_2"}
    [] l.kernel = "grad_sum"      -> {"sidx", "g_scat1", "g_scat2"}

\* The products over expert-sorted rows: operand, weight, and the width of a row.
RowProducts == {"fc1_1", "fc1_2", "fc2", "g_wact", "g_scat1", "g_scat2"}
Operand(c) ==
  CASE c = "fc1_1" -> "scat" [] c = "fc1_2" -> "scat" [] c = "fc2" -> "wact"
    [] c = "g_wact" -> "g_fc2" [] c = "g_scat1" -> "g_fc1_1" [] c = "g_scat2" -> "g_fc1_2"
Weight(c) ==
  CASE c = "fc1_1" -> "W1_1" [] c = "fc1_2" -> "W1_2" [] c = "fc2" -> "W2"
    [] c = "g_wact" -> "W2t" [] c = "g_scat1" -> "W1_1t" [] c = "g_scat2" -> "W1_2t"
Width(x) == IF x \in {"fc1_1", "fc1_2", "wact", "g_wact", "g_fc1_1", "g_fc1_2"} THEN I ELSE H
WeightProducts == {"g_W2", "g_W1_1", "g_W1_2"}
GradOf(c) == CASE c = "g_W2" -> "g_fc2" [] c = "g_W1_1" -> "g_fc1_1" [] c = "g_W1_2" -> "g_fc1_2"
InputOf(c) == IF c = "g_W2" THEN "wact" ELSE "scat"

\* What the host functions launch for a layer of shape s.
TorchOps == {"argsort", "build_indices", "cumsum", "clone", "activation", "activation_grad", "grad_sum"}
TileGrid(s, M, N) == (0 .. Cdiv(M, GroupTile[1]) * Cdiv(N, GroupTile[2]) - 1) \X (0 .. s.E - 1)
LaunchForm(s, l) ==
  \/ l.kernel = "histogram" /\ l.grid = {<<p>> : p \in 0 .. Cdiv(s.T * s.topk, HistBlock) - 1}
  \/ l.kernel = "index" /\ l.grid = {<<p>> : p \in 0 .. Cdiv(s.T * s.topk, IndexBlock) - 1}
  \/ l.kernel \in TorchOps /\ l.grid = {<<0>>}
  \/ /\ l.kernel = "scatter" /\ l.grid = RowGrid(s)
     /\ (l.x = "x" /\ l.o = "scat") \/ (l.x = "gout" /\ l.o = "g_fc2")
  \/ /\ l.kernel = "gather" /\ l.grid = RowGrid(s)
     /\ (l.x = "fc2" /\ l.y = "moe") \/ (l.x = "g_scat" /\ l.y = "g_x")
  \/ /\ l.kernel = "gemm_nk" /\ l.c \in RowProducts /\ l.a = Operand(l.c) /\ l.b = Weight(l.c)
     /\ l.N = Width(l.c) /\ l.K = Width(l.a)
     /\ l.max_M \in {s.T * s.topk, s.T} /\ l.grid = TileGrid(s, l.max_M, l.N)
  \/ /\ l.kernel = "quack" /\ l.c \in RowProducts /\ l.b = Weight(l.c)
     /\ l.idx \in BOOLEAN /\ (l.idx => l.a = "x" /\ Operand(l.c) = "scat") /\ (~ l.idx => l.a = Operand(l.c))
     /\ l.N = Width(l.c) /\ l.K = Width(Operand(l.c)) /\ l.grid = {<<0>>}
  \/ /\ l.kernel = "gemm_mn" /\ l.c \in WeightProducts /\ l.a = GradOf(l.c) /\ l.b = InputOf(l.c)
     /\ l.M = Width(l.a) /\ l.N = Width(l.b) /\ l.grid = TileGrid(s, l.M, l.N)
  \/ /\ l.kernel = "quack_k" /\ l.c \in WeightProducts /\ l.a = GradOf(l.c) /\ l.b = InputOf(l.c)
     /\ l.M = Width(l.a) /\ l.N = Width(l.b) /\ l.grid = {<<0>>}
LayerLaunch(s, l) == LaunchForm(s, l) /\ l.T = s.T /\ l.topk = s.topk /\ l.E = s.E

\* A layer: such launches, each tensor made by one of them, after what it needs.
Layer(s, L) ==
  /\ Len(L) \in Nat
  /\ \A i \in 1 .. Len(L) : LayerLaunch(s, L[i])
  /\ \A i, j \in 1 .. Len(L) : i # j => Makes(L[i]) \cap Makes(L[j]) = {}
  /\ \A i \in 1 .. Len(L) : \A x \in Needs(L[i]) : \E j \in 1 .. i - 1 : x \in Makes(L[j])

\* Which launch of FusedMoeExpertFunction makes a tensor.
FusedMaker(x) ==
  CASE x = "hist" -> 1 [] x = "sidx" -> 2 [] x = "scat" -> 3 [] x = "cum" -> 4 [] x = "fc1_1" -> 5
    [] x = "fc1_2" -> 6 [] x = "wact" -> 7 [] x = "fc2" -> 8 [] x = "moe" -> 9 [] x = "g_fc2" -> 10
    [] x = "g_wact" -> 11 [] x = "g_W2" -> 12 [] x = "g_fc1_1" -> 13 [] x = "g_fc1_2" -> 13
    [] x = "g_gate" -> 13 [] x = "g_scat2" -> 14 [] x = "g_W1_2" -> 15 [] x = "g_scat1" -> 16
    [] x = "g_W1_1" -> 17 [] x = "g_scat" -> 18 [] x = "g_x" -> 19
\* The launches of FusedMoeExpertFunction are a layer.
LEMMA FusedLayer ==
  ASSUME NEW s, NEW L, L = FusedForward(s) \o FusedBackward(s)
  PROVE  Layer(s, L)
<1>0. /\ Len(L) = 19
      /\ L[1] = expert_histogram(s)
      /\ L[2] = Torch(s, "argsort")
      /\ L[3] = moe_scatter(s, "x", "scat")
      /\ L[4] = Torch(s, "cumsum")
      /\ L[5] = group_gemm_same_nk(s, "scat", "W1_1", "fc1_1", s.T * s.topk, I, H)
      /\ L[6] = group_gemm_same_nk(s, "scat", "W1_2", "fc1_2", s.T * s.topk, I, H)
      /\ L[7] = Torch(s, "activation")
      /\ L[8] = group_gemm_same_nk(s, "wact", "W2", "fc2", s.T * s.topk, H, I)
      /\ L[9] = moe_gather(s, "fc2", "moe")
      /\ L[10] = moe_scatter(s, "gout", "g_fc2")
      /\ L[11] = group_gemm_same_nk(s, "g_fc2", "W2t", "g_wact", s.T, I, H)
      /\ L[12] = group_gemm_same_mn(s, "g_fc2", "wact", "g_W2", H, I)
      /\ L[13] = Torch(s, "activation_grad")
      /\ L[14] = group_gemm_same_nk(s, "g_fc1_2", "W1_2t", "g_scat2", s.T, H, I)
      /\ L[15] = group_gemm_same_mn(s, "g_fc1_2", "scat", "g_W1_2", I, H)
      /\ L[16] = group_gemm_same_nk(s, "g_fc1_1", "W1_1t", "g_scat1", s.T, H, I)
      /\ L[17] = group_gemm_same_mn(s, "g_fc1_1", "scat", "g_W1_1", I, H)
      /\ L[18] = Torch(s, "grad_sum")
      /\ L[19] = moe_gather(s, "g_scat", "g_x")
  BY ONLY L = FusedForward(s) \o FusedBackward(s), FusedLaunches
<1>1. LayerLaunch(s, L[1]) /\ Makes(L[1]) = {"hist"} /\ Needs(L[1]) = {}
  <2>1. L[1] = expert_histogram(s)
    BY <1>0
  <2>2. LayerLaunch(s, L[1])
    BY ONLY <2>1 DEF LayerLaunch, LaunchForm, expert_histogram
  <2>3. Makes(L[1]) = {"hist"} /\ Needs(L[1]) = {}
    BY ONLY <2>1 DEF Makes, Needs, expert_histogram
  <2> QED BY <2>2, <2>3
<1>2. LayerLaunch(s, L[2]) /\ Makes(L[2]) = {"sidx"} /\ Needs(L[2]) = {}
  <2>1. L[2] = Torch(s, "argsort")
    BY <1>0
  <2>2. LayerLaunch(s, L[2])
    BY ONLY <2>1 DEF LayerLaunch, LaunchForm, Torch, TorchOps
  <2>3. Makes(L[2]) = {"sidx"} /\ Needs(L[2]) = {}
    BY ONLY <2>1 DEF Makes, Needs, Torch
  <2> QED BY <2>2, <2>3
<1>3. LayerLaunch(s, L[3]) /\ Makes(L[3]) = {"scat"} /\ Needs(L[3]) = {"sidx"}
  <2>1. L[3] = moe_scatter(s, "x", "scat")
    BY <1>0
  <2>2. LayerLaunch(s, L[3])
    BY ONLY <2>1 DEF LayerLaunch, LaunchForm, moe_scatter
  <2>3. Makes(L[3]) = {"scat"} /\ Needs(L[3]) = {"sidx"}
    BY ONLY <2>1 DEF Makes, Needs, moe_scatter
  <2> QED BY <2>2, <2>3
<1>4. LayerLaunch(s, L[4]) /\ Makes(L[4]) = {"cum"} /\ Needs(L[4]) = {"hist"}
  <2>1. L[4] = Torch(s, "cumsum")
    BY <1>0
  <2>2. LayerLaunch(s, L[4])
    BY ONLY <2>1 DEF LayerLaunch, LaunchForm, Torch, TorchOps
  <2>3. Makes(L[4]) = {"cum"} /\ Needs(L[4]) = {"hist"}
    BY ONLY <2>1 DEF Makes, Needs, Torch
  <2> QED BY <2>2, <2>3
<1>5. LayerLaunch(s, L[5]) /\ Makes(L[5]) = {"fc1_1"} /\ Needs(L[5]) = {"sidx", "cum", "scat"}
  <2>1. L[5] = group_gemm_same_nk(s, "scat", "W1_1", "fc1_1", s.T * s.topk, I, H)
    BY <1>0
  <2>2. LayerLaunch(s, L[5])
    BY ONLY <2>1 DEF LayerLaunch, LaunchForm, group_gemm_same_nk, RowProducts, Operand, Weight, Width, TileGrid
  <2>3. Makes(L[5]) = {"fc1_1"} /\ Needs(L[5]) = {"sidx", "cum", "scat"}
    BY ONLY <2>1 DEF Makes, Needs, group_gemm_same_nk
  <2> QED BY <2>2, <2>3
<1>6. LayerLaunch(s, L[6]) /\ Makes(L[6]) = {"fc1_2"} /\ Needs(L[6]) = {"sidx", "cum", "scat"}
  <2>1. L[6] = group_gemm_same_nk(s, "scat", "W1_2", "fc1_2", s.T * s.topk, I, H)
    BY <1>0
  <2>2. LayerLaunch(s, L[6])
    BY ONLY <2>1 DEF LayerLaunch, LaunchForm, group_gemm_same_nk, RowProducts, Operand, Weight, Width, TileGrid
  <2>3. Makes(L[6]) = {"fc1_2"} /\ Needs(L[6]) = {"sidx", "cum", "scat"}
    BY ONLY <2>1 DEF Makes, Needs, group_gemm_same_nk
  <2> QED BY <2>2, <2>3
<1>7. LayerLaunch(s, L[7]) /\ Makes(L[7]) = {"wact"} /\ Needs(L[7]) = {"sidx", "fc1_1", "fc1_2"}
  <2>1. L[7] = Torch(s, "activation")
    BY <1>0
  <2>2. LayerLaunch(s, L[7])
    BY ONLY <2>1 DEF LayerLaunch, LaunchForm, Torch, TorchOps
  <2>3. Makes(L[7]) = {"wact"} /\ Needs(L[7]) = {"sidx", "fc1_1", "fc1_2"}
    BY ONLY <2>1 DEF Makes, Needs, Torch
  <2> QED BY <2>2, <2>3
<1>8. LayerLaunch(s, L[8]) /\ Makes(L[8]) = {"fc2"} /\ Needs(L[8]) = {"sidx", "cum", "wact"}
  <2>1. L[8] = group_gemm_same_nk(s, "wact", "W2", "fc2", s.T * s.topk, H, I)
    BY <1>0
  <2>2. LayerLaunch(s, L[8])
    BY ONLY <2>1 DEF LayerLaunch, LaunchForm, group_gemm_same_nk, RowProducts, Operand, Weight, Width, TileGrid
  <2>3. Makes(L[8]) = {"fc2"} /\ Needs(L[8]) = {"sidx", "cum", "wact"}
    BY ONLY <2>1 DEF Makes, Needs, group_gemm_same_nk
  <2> QED BY <2>2, <2>3
<1>9. LayerLaunch(s, L[9]) /\ Makes(L[9]) = {"moe"} /\ Needs(L[9]) = {"sidx", "fc2"}
  <2>1. L[9] = moe_gather(s, "fc2", "moe")
    BY <1>0
  <2>2. LayerLaunch(s, L[9])
    BY ONLY <2>1 DEF LayerLaunch, LaunchForm, moe_gather
  <2>3. Makes(L[9]) = {"moe"} /\ Needs(L[9]) = {"sidx", "fc2"}
    BY ONLY <2>1 DEF Makes, Needs, moe_gather
  <2> QED BY <2>2, <2>3
<1>10. LayerLaunch(s, L[10]) /\ Makes(L[10]) = {"g_fc2"} /\ Needs(L[10]) = {"sidx"}
  <2>1. L[10] = moe_scatter(s, "gout", "g_fc2")
    BY <1>0
  <2>2. LayerLaunch(s, L[10])
    BY ONLY <2>1 DEF LayerLaunch, LaunchForm, moe_scatter
  <2>3. Makes(L[10]) = {"g_fc2"} /\ Needs(L[10]) = {"sidx"}
    BY ONLY <2>1 DEF Makes, Needs, moe_scatter
  <2> QED BY <2>2, <2>3
<1>11. LayerLaunch(s, L[11]) /\ Makes(L[11]) = {"g_wact"} /\ Needs(L[11]) = {"sidx", "cum", "g_fc2"}
  <2>1. L[11] = group_gemm_same_nk(s, "g_fc2", "W2t", "g_wact", s.T, I, H)
    BY <1>0
  <2>2. LayerLaunch(s, L[11])
    BY ONLY <2>1 DEF LayerLaunch, LaunchForm, group_gemm_same_nk, RowProducts, Operand, Weight, Width, TileGrid
  <2>3. Makes(L[11]) = {"g_wact"} /\ Needs(L[11]) = {"sidx", "cum", "g_fc2"}
    BY ONLY <2>1 DEF Makes, Needs, group_gemm_same_nk
  <2> QED BY <2>2, <2>3
<1>12. LayerLaunch(s, L[12]) /\ Makes(L[12]) = {"g_W2"} /\ Needs(L[12]) = {"sidx", "cum", "g_fc2", "wact"}
  <2>1. L[12] = group_gemm_same_mn(s, "g_fc2", "wact", "g_W2", H, I)
    BY <1>0
  <2>2. LayerLaunch(s, L[12])
    BY ONLY <2>1 DEF LayerLaunch, LaunchForm, group_gemm_same_mn, WeightProducts, GradOf, InputOf, Width, TileGrid
  <2>3. Makes(L[12]) = {"g_W2"} /\ Needs(L[12]) = {"sidx", "cum", "g_fc2", "wact"}
    BY ONLY <2>1 DEF Makes, Needs, group_gemm_same_mn
  <2> QED BY <2>2, <2>3
<1>13. LayerLaunch(s, L[13]) /\ Makes(L[13]) = {"g_fc1_1", "g_fc1_2", "g_gate"} /\ Needs(L[13]) = {"sidx", "g_wact", "fc1_1", "fc1_2"}
  <2>1. L[13] = Torch(s, "activation_grad")
    BY <1>0
  <2>2. LayerLaunch(s, L[13])
    BY ONLY <2>1 DEF LayerLaunch, LaunchForm, Torch, TorchOps
  <2>3. Makes(L[13]) = {"g_fc1_1", "g_fc1_2", "g_gate"} /\ Needs(L[13]) = {"sidx", "g_wact", "fc1_1", "fc1_2"}
    BY ONLY <2>1 DEF Makes, Needs, Torch
  <2> QED BY <2>2, <2>3
<1>14. LayerLaunch(s, L[14]) /\ Makes(L[14]) = {"g_scat2"} /\ Needs(L[14]) = {"sidx", "cum", "g_fc1_2"}
  <2>1. L[14] = group_gemm_same_nk(s, "g_fc1_2", "W1_2t", "g_scat2", s.T, H, I)
    BY <1>0
  <2>2. LayerLaunch(s, L[14])
    BY ONLY <2>1 DEF LayerLaunch, LaunchForm, group_gemm_same_nk, RowProducts, Operand, Weight, Width, TileGrid
  <2>3. Makes(L[14]) = {"g_scat2"} /\ Needs(L[14]) = {"sidx", "cum", "g_fc1_2"}
    BY ONLY <2>1 DEF Makes, Needs, group_gemm_same_nk
  <2> QED BY <2>2, <2>3
<1>15. LayerLaunch(s, L[15]) /\ Makes(L[15]) = {"g_W1_2"} /\ Needs(L[15]) = {"sidx", "cum", "g_fc1_2", "scat"}
  <2>1. L[15] = group_gemm_same_mn(s, "g_fc1_2", "scat", "g_W1_2", I, H)
    BY <1>0
  <2>2. LayerLaunch(s, L[15])
    BY ONLY <2>1 DEF LayerLaunch, LaunchForm, group_gemm_same_mn, WeightProducts, GradOf, InputOf, Width, TileGrid
  <2>3. Makes(L[15]) = {"g_W1_2"} /\ Needs(L[15]) = {"sidx", "cum", "g_fc1_2", "scat"}
    BY ONLY <2>1 DEF Makes, Needs, group_gemm_same_mn
  <2> QED BY <2>2, <2>3
<1>16. LayerLaunch(s, L[16]) /\ Makes(L[16]) = {"g_scat1"} /\ Needs(L[16]) = {"sidx", "cum", "g_fc1_1"}
  <2>1. L[16] = group_gemm_same_nk(s, "g_fc1_1", "W1_1t", "g_scat1", s.T, H, I)
    BY <1>0
  <2>2. LayerLaunch(s, L[16])
    BY ONLY <2>1 DEF LayerLaunch, LaunchForm, group_gemm_same_nk, RowProducts, Operand, Weight, Width, TileGrid
  <2>3. Makes(L[16]) = {"g_scat1"} /\ Needs(L[16]) = {"sidx", "cum", "g_fc1_1"}
    BY ONLY <2>1 DEF Makes, Needs, group_gemm_same_nk
  <2> QED BY <2>2, <2>3
<1>17. LayerLaunch(s, L[17]) /\ Makes(L[17]) = {"g_W1_1"} /\ Needs(L[17]) = {"sidx", "cum", "g_fc1_1", "scat"}
  <2>1. L[17] = group_gemm_same_mn(s, "g_fc1_1", "scat", "g_W1_1", I, H)
    BY <1>0
  <2>2. LayerLaunch(s, L[17])
    BY ONLY <2>1 DEF LayerLaunch, LaunchForm, group_gemm_same_mn, WeightProducts, GradOf, InputOf, Width, TileGrid
  <2>3. Makes(L[17]) = {"g_W1_1"} /\ Needs(L[17]) = {"sidx", "cum", "g_fc1_1", "scat"}
    BY ONLY <2>1 DEF Makes, Needs, group_gemm_same_mn
  <2> QED BY <2>2, <2>3
<1>18. LayerLaunch(s, L[18]) /\ Makes(L[18]) = {"g_scat"} /\ Needs(L[18]) = {"sidx", "g_scat1", "g_scat2"}
  <2>1. L[18] = Torch(s, "grad_sum")
    BY <1>0
  <2>2. LayerLaunch(s, L[18])
    BY ONLY <2>1 DEF LayerLaunch, LaunchForm, Torch, TorchOps
  <2>3. Makes(L[18]) = {"g_scat"} /\ Needs(L[18]) = {"sidx", "g_scat1", "g_scat2"}
    BY ONLY <2>1 DEF Makes, Needs, Torch
  <2> QED BY <2>2, <2>3
<1>19. LayerLaunch(s, L[19]) /\ Makes(L[19]) = {"g_x"} /\ Needs(L[19]) = {"sidx", "g_scat"}
  <2>1. L[19] = moe_gather(s, "g_scat", "g_x")
    BY <1>0
  <2>2. LayerLaunch(s, L[19])
    BY ONLY <2>1 DEF LayerLaunch, LaunchForm, moe_gather
  <2>3. Makes(L[19]) = {"g_x"} /\ Needs(L[19]) = {"sidx", "g_scat"}
    BY ONLY <2>1 DEF Makes, Needs, moe_gather
  <2> QED BY <2>2, <2>3
<1>20. \A i \in 1 .. 19 : i = 1 \/ i = 2 \/ i = 3 \/ i = 4 \/ i = 5 \/ i = 6 \/ i = 7 \/ i = 8 \/ i = 9 \/ i = 10 \/ i = 11 \/ i = 12 \/ i = 13 \/ i = 14 \/ i = 15 \/ i = 16 \/ i = 17 \/ i = 18 \/ i = 19
  OBVIOUS
<1>21. \A i \in 1 .. 19 : \A x \in Makes(L[i]) : FusedMaker(x) = i
  <2>1. \A x \in Makes(L[1]) : FusedMaker(x) = 1
    BY ONLY <1>1 DEF FusedMaker
  <2>2. \A x \in Makes(L[2]) : FusedMaker(x) = 2
    BY ONLY <1>2 DEF FusedMaker
  <2>3. \A x \in Makes(L[3]) : FusedMaker(x) = 3
    BY ONLY <1>3 DEF FusedMaker
  <2>4. \A x \in Makes(L[4]) : FusedMaker(x) = 4
    BY ONLY <1>4 DEF FusedMaker
  <2>5. \A x \in Makes(L[5]) : FusedMaker(x) = 5
    BY ONLY <1>5 DEF FusedMaker
  <2>6. \A x \in Makes(L[6]) : FusedMaker(x) = 6
    BY ONLY <1>6 DEF FusedMaker
  <2>7. \A x \in Makes(L[7]) : FusedMaker(x) = 7
    BY ONLY <1>7 DEF FusedMaker
  <2>8. \A x \in Makes(L[8]) : FusedMaker(x) = 8
    BY ONLY <1>8 DEF FusedMaker
  <2>9. \A x \in Makes(L[9]) : FusedMaker(x) = 9
    BY ONLY <1>9 DEF FusedMaker
  <2>10. \A x \in Makes(L[10]) : FusedMaker(x) = 10
    BY ONLY <1>10 DEF FusedMaker
  <2>11. \A x \in Makes(L[11]) : FusedMaker(x) = 11
    BY ONLY <1>11 DEF FusedMaker
  <2>12. \A x \in Makes(L[12]) : FusedMaker(x) = 12
    BY ONLY <1>12 DEF FusedMaker
  <2>13. \A x \in Makes(L[13]) : FusedMaker(x) = 13
    BY ONLY <1>13 DEF FusedMaker
  <2>14. \A x \in Makes(L[14]) : FusedMaker(x) = 14
    BY ONLY <1>14 DEF FusedMaker
  <2>15. \A x \in Makes(L[15]) : FusedMaker(x) = 15
    BY ONLY <1>15 DEF FusedMaker
  <2>16. \A x \in Makes(L[16]) : FusedMaker(x) = 16
    BY ONLY <1>16 DEF FusedMaker
  <2>17. \A x \in Makes(L[17]) : FusedMaker(x) = 17
    BY ONLY <1>17 DEF FusedMaker
  <2>18. \A x \in Makes(L[18]) : FusedMaker(x) = 18
    BY ONLY <1>18 DEF FusedMaker
  <2>19. \A x \in Makes(L[19]) : FusedMaker(x) = 19
    BY ONLY <1>19 DEF FusedMaker
  <2> QED BY ONLY <1>20, <2>1, <2>2, <2>3, <2>4, <2>5, <2>6, <2>7, <2>8, <2>9, <2>10, <2>11, <2>12, <2>13, <2>14, <2>15, <2>16, <2>17, <2>18, <2>19
<1>22. \A i \in 1 .. 19 : \A x \in Needs(L[i]) : \E j \in 1 .. i - 1 : x \in Makes(L[j])
  <2>1. \A x \in Needs(L[1]) : \E j \in 1 .. 1 - 1 : x \in Makes(L[j])
    BY ONLY <1>1
  <2>2. \A x \in Needs(L[2]) : \E j \in 1 .. 2 - 1 : x \in Makes(L[j])
    BY ONLY <1>2
  <2>3. \A x \in Needs(L[3]) : \E j \in 1 .. 3 - 1 : x \in Makes(L[j])
    <3>1. 2 \in 1 .. 3 - 1
      OBVIOUS
    <3>2. "sidx" \in Makes(L[2])
      BY ONLY <1>2
    <3> QED BY ONLY <1>3, <3>1, <3>2
  <2>4. \A x \in Needs(L[4]) : \E j \in 1 .. 4 - 1 : x \in Makes(L[j])
    <3>1. 1 \in 1 .. 4 - 1
      OBVIOUS
    <3>2. "hist" \in Makes(L[1])
      BY ONLY <1>1
    <3> QED BY ONLY <1>4, <3>1, <3>2
  <2>5. \A x \in Needs(L[5]) : \E j \in 1 .. 5 - 1 : x \in Makes(L[j])
    <3>1. 2 \in 1 .. 5 - 1 /\ 3 \in 1 .. 5 - 1 /\ 4 \in 1 .. 5 - 1
      OBVIOUS
    <3>2. "sidx" \in Makes(L[2]) /\ "cum" \in Makes(L[4]) /\ "scat" \in Makes(L[3])
      BY ONLY <1>2, <1>3, <1>4
    <3> QED BY ONLY <1>5, <3>1, <3>2
  <2>6. \A x \in Needs(L[6]) : \E j \in 1 .. 6 - 1 : x \in Makes(L[j])
    <3>1. 2 \in 1 .. 6 - 1 /\ 3 \in 1 .. 6 - 1 /\ 4 \in 1 .. 6 - 1
      OBVIOUS
    <3>2. "sidx" \in Makes(L[2]) /\ "cum" \in Makes(L[4]) /\ "scat" \in Makes(L[3])
      BY ONLY <1>2, <1>3, <1>4
    <3> QED BY ONLY <1>6, <3>1, <3>2
  <2>7. \A x \in Needs(L[7]) : \E j \in 1 .. 7 - 1 : x \in Makes(L[j])
    <3>1. 2 \in 1 .. 7 - 1 /\ 5 \in 1 .. 7 - 1 /\ 6 \in 1 .. 7 - 1
      OBVIOUS
    <3>2. "sidx" \in Makes(L[2]) /\ "fc1_1" \in Makes(L[5]) /\ "fc1_2" \in Makes(L[6])
      BY ONLY <1>2, <1>5, <1>6
    <3> QED BY ONLY <1>7, <3>1, <3>2
  <2>8. \A x \in Needs(L[8]) : \E j \in 1 .. 8 - 1 : x \in Makes(L[j])
    <3>1. 2 \in 1 .. 8 - 1 /\ 4 \in 1 .. 8 - 1 /\ 7 \in 1 .. 8 - 1
      OBVIOUS
    <3>2. "sidx" \in Makes(L[2]) /\ "cum" \in Makes(L[4]) /\ "wact" \in Makes(L[7])
      BY ONLY <1>2, <1>4, <1>7
    <3> QED BY ONLY <1>8, <3>1, <3>2
  <2>9. \A x \in Needs(L[9]) : \E j \in 1 .. 9 - 1 : x \in Makes(L[j])
    <3>1. 2 \in 1 .. 9 - 1 /\ 8 \in 1 .. 9 - 1
      OBVIOUS
    <3>2. "sidx" \in Makes(L[2]) /\ "fc2" \in Makes(L[8])
      BY ONLY <1>2, <1>8
    <3> QED BY ONLY <1>9, <3>1, <3>2
  <2>10. \A x \in Needs(L[10]) : \E j \in 1 .. 10 - 1 : x \in Makes(L[j])
    <3>1. 2 \in 1 .. 10 - 1
      OBVIOUS
    <3>2. "sidx" \in Makes(L[2])
      BY ONLY <1>2
    <3> QED BY ONLY <1>10, <3>1, <3>2
  <2>11. \A x \in Needs(L[11]) : \E j \in 1 .. 11 - 1 : x \in Makes(L[j])
    <3>1. 2 \in 1 .. 11 - 1 /\ 4 \in 1 .. 11 - 1 /\ 10 \in 1 .. 11 - 1
      OBVIOUS
    <3>2. "sidx" \in Makes(L[2]) /\ "cum" \in Makes(L[4]) /\ "g_fc2" \in Makes(L[10])
      BY ONLY <1>2, <1>4, <1>10
    <3> QED BY ONLY <1>11, <3>1, <3>2
  <2>12. \A x \in Needs(L[12]) : \E j \in 1 .. 12 - 1 : x \in Makes(L[j])
    <3>1. 2 \in 1 .. 12 - 1 /\ 4 \in 1 .. 12 - 1 /\ 7 \in 1 .. 12 - 1 /\ 10 \in 1 .. 12 - 1
      OBVIOUS
    <3>2. "sidx" \in Makes(L[2]) /\ "cum" \in Makes(L[4]) /\ "g_fc2" \in Makes(L[10]) /\ "wact" \in Makes(L[7])
      BY ONLY <1>2, <1>4, <1>7, <1>10
    <3> QED BY ONLY <1>12, <3>1, <3>2
  <2>13. \A x \in Needs(L[13]) : \E j \in 1 .. 13 - 1 : x \in Makes(L[j])
    <3>1. 2 \in 1 .. 13 - 1 /\ 5 \in 1 .. 13 - 1 /\ 6 \in 1 .. 13 - 1 /\ 11 \in 1 .. 13 - 1
      OBVIOUS
    <3>2. "sidx" \in Makes(L[2]) /\ "g_wact" \in Makes(L[11]) /\ "fc1_1" \in Makes(L[5]) /\ "fc1_2" \in Makes(L[6])
      BY ONLY <1>2, <1>5, <1>6, <1>11
    <3> QED BY ONLY <1>13, <3>1, <3>2
  <2>14. \A x \in Needs(L[14]) : \E j \in 1 .. 14 - 1 : x \in Makes(L[j])
    <3>1. 2 \in 1 .. 14 - 1 /\ 4 \in 1 .. 14 - 1 /\ 13 \in 1 .. 14 - 1
      OBVIOUS
    <3>2. "sidx" \in Makes(L[2]) /\ "cum" \in Makes(L[4]) /\ "g_fc1_2" \in Makes(L[13])
      BY ONLY <1>2, <1>4, <1>13
    <3> QED BY ONLY <1>14, <3>1, <3>2
  <2>15. \A x \in Needs(L[15]) : \E j \in 1 .. 15 - 1 : x \in Makes(L[j])
    <3>1. 2 \in 1 .. 15 - 1 /\ 3 \in 1 .. 15 - 1 /\ 4 \in 1 .. 15 - 1 /\ 13 \in 1 .. 15 - 1
      OBVIOUS
    <3>2. "sidx" \in Makes(L[2]) /\ "cum" \in Makes(L[4]) /\ "g_fc1_2" \in Makes(L[13]) /\ "scat" \in Makes(L[3])
      BY ONLY <1>2, <1>3, <1>4, <1>13
    <3> QED BY ONLY <1>15, <3>1, <3>2
  <2>16. \A x \in Needs(L[16]) : \E j \in 1 .. 16 - 1 : x \in Makes(L[j])
    <3>1. 2 \in 1 .. 16 - 1 /\ 4 \in 1 .. 16 - 1 /\ 13 \in 1 .. 16 - 1
      OBVIOUS
    <3>2. "sidx" \in Makes(L[2]) /\ "cum" \in Makes(L[4]) /\ "g_fc1_1" \in Makes(L[13])
      BY ONLY <1>2, <1>4, <1>13
    <3> QED BY ONLY <1>16, <3>1, <3>2
  <2>17. \A x \in Needs(L[17]) : \E j \in 1 .. 17 - 1 : x \in Makes(L[j])
    <3>1. 2 \in 1 .. 17 - 1 /\ 3 \in 1 .. 17 - 1 /\ 4 \in 1 .. 17 - 1 /\ 13 \in 1 .. 17 - 1
      OBVIOUS
    <3>2. "sidx" \in Makes(L[2]) /\ "cum" \in Makes(L[4]) /\ "g_fc1_1" \in Makes(L[13]) /\ "scat" \in Makes(L[3])
      BY ONLY <1>2, <1>3, <1>4, <1>13
    <3> QED BY ONLY <1>17, <3>1, <3>2
  <2>18. \A x \in Needs(L[18]) : \E j \in 1 .. 18 - 1 : x \in Makes(L[j])
    <3>1. 2 \in 1 .. 18 - 1 /\ 14 \in 1 .. 18 - 1 /\ 16 \in 1 .. 18 - 1
      OBVIOUS
    <3>2. "sidx" \in Makes(L[2]) /\ "g_scat1" \in Makes(L[16]) /\ "g_scat2" \in Makes(L[14])
      BY ONLY <1>2, <1>14, <1>16
    <3> QED BY ONLY <1>18, <3>1, <3>2
  <2>19. \A x \in Needs(L[19]) : \E j \in 1 .. 19 - 1 : x \in Makes(L[j])
    <3>1. 2 \in 1 .. 19 - 1 /\ 18 \in 1 .. 19 - 1
      OBVIOUS
    <3>2. "sidx" \in Makes(L[2]) /\ "g_scat" \in Makes(L[18])
      BY ONLY <1>2, <1>18
    <3> QED BY ONLY <1>19, <3>1, <3>2
  <2> QED BY ONLY <1>20, <2>1, <2>2, <2>3, <2>4, <2>5, <2>6, <2>7, <2>8, <2>9, <2>10, <2>11, <2>12, <2>13, <2>14, <2>15, <2>16, <2>17, <2>18, <2>19
<1>23. \A i \in 1 .. 19 : LayerLaunch(s, L[i])
  BY ONLY <1>1, <1>2, <1>3, <1>4, <1>5, <1>6, <1>7, <1>8, <1>9, <1>10, <1>11, <1>12, <1>13, <1>14, <1>15, <1>16, <1>17, <1>18, <1>19, <1>20
<1>24. Len(L) = 19 /\ Len(L) \in Nat
  BY ONLY <1>0
<1> QED BY ONLY <1>24, <1>21, <1>22, <1>23 DEF Layer

\* Which launch of QuackFusedMoeExpertFunction makes a tensor.
QuackMaker(x) ==
  CASE x = "sidx" -> 1 [] x = "aidx" -> 1 [] x = "hist" -> 2 [] x = "cum" -> 3 [] x = "fc1_1" -> 4
    [] x = "fc1_2" -> 5 [] x = "wact" -> 6 [] x = "fc2" -> 7 [] x = "moe" -> 8 [] x = "g_fc2" -> 9
    [] x = "g_wact" -> 10 [] x = "g_W2" -> 11 [] x = "g_fc1_1" -> 12 [] x = "g_fc1_2" -> 12
    [] x = "g_gate" -> 12 [] x = "g_scat2" -> 13 [] x = "g_scat1" -> 14 [] x = "scat" -> 15
    [] x = "g_W1_2" -> 16 [] x = "g_W1_1" -> 17 [] x = "g_scat" -> 18 [] x = "g_x" -> 19
\* The launches of QuackFusedMoeExpertFunction are a layer.
LEMMA QuackLayer ==
  ASSUME NEW s, NEW L, L = QuackForward(s) \o QuackBackward(s)
  PROVE  Layer(s, L)
<1>0. /\ Len(L) = 19
      /\ L[1] = Torch(s, "build_indices")
      /\ L[2] = expert_histogram(s)
      /\ L[3] = Torch(s, "cumsum")
      /\ L[4] = gemm(s, "x", "W1_1", "fc1_1", I, H, TRUE)
      /\ L[5] = gemm(s, "x", "W1_2", "fc1_2", I, H, TRUE)
      /\ L[6] = Torch(s, "activation")
      /\ L[7] = gemm(s, "wact", "W2", "fc2", H, I, FALSE)
      /\ L[8] = moe_gather(s, "fc2", "moe")
      /\ L[9] = moe_scatter(s, "gout", "g_fc2")
      /\ L[10] = gemm(s, "g_fc2", "W2t", "g_wact", I, H, FALSE)
      /\ L[11] = gemm_k(s, "g_fc2", "wact", "g_W2", H, I)
      /\ L[12] = Torch(s, "activation_grad")
      /\ L[13] = gemm(s, "g_fc1_2", "W1_2t", "g_scat2", H, I, FALSE)
      /\ L[14] = gemm(s, "g_fc1_1", "W1_1t", "g_scat1", H, I, FALSE)
      /\ L[15] = moe_scatter(s, "x", "scat")
      /\ L[16] = gemm_k(s, "g_fc1_2", "scat", "g_W1_2", I, H)
      /\ L[17] = gemm_k(s, "g_fc1_1", "scat", "g_W1_1", I, H)
      /\ L[18] = Torch(s, "grad_sum")
      /\ L[19] = moe_gather(s, "g_scat", "g_x")
  BY ONLY L = QuackForward(s) \o QuackBackward(s), QuackLaunches
<1>1. LayerLaunch(s, L[1]) /\ Makes(L[1]) = {"sidx", "aidx"} /\ Needs(L[1]) = {}
  <2>1. L[1] = Torch(s, "build_indices")
    BY <1>0
  <2>2. LayerLaunch(s, L[1])
    BY ONLY <2>1 DEF LayerLaunch, LaunchForm, Torch, TorchOps
  <2>3. Makes(L[1]) = {"sidx", "aidx"} /\ Needs(L[1]) = {}
    BY ONLY <2>1 DEF Makes, Needs, Torch
  <2> QED BY <2>2, <2>3
<1>2. LayerLaunch(s, L[2]) /\ Makes(L[2]) = {"hist"} /\ Needs(L[2]) = {}
  <2>1. L[2] = expert_histogram(s)
    BY <1>0
  <2>2. LayerLaunch(s, L[2])
    BY ONLY <2>1 DEF LayerLaunch, LaunchForm, expert_histogram
  <2>3. Makes(L[2]) = {"hist"} /\ Needs(L[2]) = {}
    BY ONLY <2>1 DEF Makes, Needs, expert_histogram
  <2> QED BY <2>2, <2>3
<1>3. LayerLaunch(s, L[3]) /\ Makes(L[3]) = {"cum"} /\ Needs(L[3]) = {"hist"}
  <2>1. L[3] = Torch(s, "cumsum")
    BY <1>0
  <2>2. LayerLaunch(s, L[3])
    BY ONLY <2>1 DEF LayerLaunch, LaunchForm, Torch, TorchOps
  <2>3. Makes(L[3]) = {"cum"} /\ Needs(L[3]) = {"hist"}
    BY ONLY <2>1 DEF Makes, Needs, Torch
  <2> QED BY <2>2, <2>3
<1>4. LayerLaunch(s, L[4]) /\ Makes(L[4]) = {"fc1_1"} /\ Needs(L[4]) = {"sidx", "cum", "aidx"}
  <2>1. L[4] = gemm(s, "x", "W1_1", "fc1_1", I, H, TRUE)
    BY <1>0
  <2>2. LayerLaunch(s, L[4])
    BY ONLY <2>1 DEF LayerLaunch, LaunchForm, gemm, RowProducts, Operand, Weight, Width
  <2>3. Makes(L[4]) = {"fc1_1"} /\ Needs(L[4]) = {"sidx", "cum", "aidx"}
    BY ONLY <2>1 DEF Makes, Needs, gemm
  <2> QED BY <2>2, <2>3
<1>5. LayerLaunch(s, L[5]) /\ Makes(L[5]) = {"fc1_2"} /\ Needs(L[5]) = {"sidx", "cum", "aidx"}
  <2>1. L[5] = gemm(s, "x", "W1_2", "fc1_2", I, H, TRUE)
    BY <1>0
  <2>2. LayerLaunch(s, L[5])
    BY ONLY <2>1 DEF LayerLaunch, LaunchForm, gemm, RowProducts, Operand, Weight, Width
  <2>3. Makes(L[5]) = {"fc1_2"} /\ Needs(L[5]) = {"sidx", "cum", "aidx"}
    BY ONLY <2>1 DEF Makes, Needs, gemm
  <2> QED BY <2>2, <2>3
<1>6. LayerLaunch(s, L[6]) /\ Makes(L[6]) = {"wact"} /\ Needs(L[6]) = {"sidx", "fc1_1", "fc1_2"}
  <2>1. L[6] = Torch(s, "activation")
    BY <1>0
  <2>2. LayerLaunch(s, L[6])
    BY ONLY <2>1 DEF LayerLaunch, LaunchForm, Torch, TorchOps
  <2>3. Makes(L[6]) = {"wact"} /\ Needs(L[6]) = {"sidx", "fc1_1", "fc1_2"}
    BY ONLY <2>1 DEF Makes, Needs, Torch
  <2> QED BY <2>2, <2>3
<1>7. LayerLaunch(s, L[7]) /\ Makes(L[7]) = {"fc2"} /\ Needs(L[7]) = {"sidx", "cum", "wact"}
  <2>1. L[7] = gemm(s, "wact", "W2", "fc2", H, I, FALSE)
    BY <1>0
  <2>2. LayerLaunch(s, L[7])
    BY ONLY <2>1 DEF LayerLaunch, LaunchForm, gemm, RowProducts, Operand, Weight, Width
  <2>3. Makes(L[7]) = {"fc2"} /\ Needs(L[7]) = {"sidx", "cum", "wact"}
    BY ONLY <2>1 DEF Makes, Needs, gemm
  <2> QED BY <2>2, <2>3
<1>8. LayerLaunch(s, L[8]) /\ Makes(L[8]) = {"moe"} /\ Needs(L[8]) = {"sidx", "fc2"}
  <2>1. L[8] = moe_gather(s, "fc2", "moe")
    BY <1>0
  <2>2. LayerLaunch(s, L[8])
    BY ONLY <2>1 DEF LayerLaunch, LaunchForm, moe_gather
  <2>3. Makes(L[8]) = {"moe"} /\ Needs(L[8]) = {"sidx", "fc2"}
    BY ONLY <2>1 DEF Makes, Needs, moe_gather
  <2> QED BY <2>2, <2>3
<1>9. LayerLaunch(s, L[9]) /\ Makes(L[9]) = {"g_fc2"} /\ Needs(L[9]) = {"sidx"}
  <2>1. L[9] = moe_scatter(s, "gout", "g_fc2")
    BY <1>0
  <2>2. LayerLaunch(s, L[9])
    BY ONLY <2>1 DEF LayerLaunch, LaunchForm, moe_scatter
  <2>3. Makes(L[9]) = {"g_fc2"} /\ Needs(L[9]) = {"sidx"}
    BY ONLY <2>1 DEF Makes, Needs, moe_scatter
  <2> QED BY <2>2, <2>3
<1>10. LayerLaunch(s, L[10]) /\ Makes(L[10]) = {"g_wact"} /\ Needs(L[10]) = {"sidx", "cum", "g_fc2"}
  <2>1. L[10] = gemm(s, "g_fc2", "W2t", "g_wact", I, H, FALSE)
    BY <1>0
  <2>2. LayerLaunch(s, L[10])
    BY ONLY <2>1 DEF LayerLaunch, LaunchForm, gemm, RowProducts, Operand, Weight, Width
  <2>3. Makes(L[10]) = {"g_wact"} /\ Needs(L[10]) = {"sidx", "cum", "g_fc2"}
    BY ONLY <2>1 DEF Makes, Needs, gemm
  <2> QED BY <2>2, <2>3
<1>11. LayerLaunch(s, L[11]) /\ Makes(L[11]) = {"g_W2"} /\ Needs(L[11]) = {"sidx", "cum", "g_fc2", "wact"}
  <2>1. L[11] = gemm_k(s, "g_fc2", "wact", "g_W2", H, I)
    BY <1>0
  <2>2. LayerLaunch(s, L[11])
    BY ONLY <2>1 DEF LayerLaunch, LaunchForm, gemm_k, WeightProducts, GradOf, InputOf, Width
  <2>3. Makes(L[11]) = {"g_W2"} /\ Needs(L[11]) = {"sidx", "cum", "g_fc2", "wact"}
    BY ONLY <2>1 DEF Makes, Needs, gemm_k
  <2> QED BY <2>2, <2>3
<1>12. LayerLaunch(s, L[12]) /\ Makes(L[12]) = {"g_fc1_1", "g_fc1_2", "g_gate"} /\ Needs(L[12]) = {"sidx", "g_wact", "fc1_1", "fc1_2"}
  <2>1. L[12] = Torch(s, "activation_grad")
    BY <1>0
  <2>2. LayerLaunch(s, L[12])
    BY ONLY <2>1 DEF LayerLaunch, LaunchForm, Torch, TorchOps
  <2>3. Makes(L[12]) = {"g_fc1_1", "g_fc1_2", "g_gate"} /\ Needs(L[12]) = {"sidx", "g_wact", "fc1_1", "fc1_2"}
    BY ONLY <2>1 DEF Makes, Needs, Torch
  <2> QED BY <2>2, <2>3
<1>13. LayerLaunch(s, L[13]) /\ Makes(L[13]) = {"g_scat2"} /\ Needs(L[13]) = {"sidx", "cum", "g_fc1_2"}
  <2>1. L[13] = gemm(s, "g_fc1_2", "W1_2t", "g_scat2", H, I, FALSE)
    BY <1>0
  <2>2. LayerLaunch(s, L[13])
    BY ONLY <2>1 DEF LayerLaunch, LaunchForm, gemm, RowProducts, Operand, Weight, Width
  <2>3. Makes(L[13]) = {"g_scat2"} /\ Needs(L[13]) = {"sidx", "cum", "g_fc1_2"}
    BY ONLY <2>1 DEF Makes, Needs, gemm
  <2> QED BY <2>2, <2>3
<1>14. LayerLaunch(s, L[14]) /\ Makes(L[14]) = {"g_scat1"} /\ Needs(L[14]) = {"sidx", "cum", "g_fc1_1"}
  <2>1. L[14] = gemm(s, "g_fc1_1", "W1_1t", "g_scat1", H, I, FALSE)
    BY <1>0
  <2>2. LayerLaunch(s, L[14])
    BY ONLY <2>1 DEF LayerLaunch, LaunchForm, gemm, RowProducts, Operand, Weight, Width
  <2>3. Makes(L[14]) = {"g_scat1"} /\ Needs(L[14]) = {"sidx", "cum", "g_fc1_1"}
    BY ONLY <2>1 DEF Makes, Needs, gemm
  <2> QED BY <2>2, <2>3
<1>15. LayerLaunch(s, L[15]) /\ Makes(L[15]) = {"scat"} /\ Needs(L[15]) = {"sidx"}
  <2>1. L[15] = moe_scatter(s, "x", "scat")
    BY <1>0
  <2>2. LayerLaunch(s, L[15])
    BY ONLY <2>1 DEF LayerLaunch, LaunchForm, moe_scatter
  <2>3. Makes(L[15]) = {"scat"} /\ Needs(L[15]) = {"sidx"}
    BY ONLY <2>1 DEF Makes, Needs, moe_scatter
  <2> QED BY <2>2, <2>3
<1>16. LayerLaunch(s, L[16]) /\ Makes(L[16]) = {"g_W1_2"} /\ Needs(L[16]) = {"sidx", "cum", "g_fc1_2", "scat"}
  <2>1. L[16] = gemm_k(s, "g_fc1_2", "scat", "g_W1_2", I, H)
    BY <1>0
  <2>2. LayerLaunch(s, L[16])
    BY ONLY <2>1 DEF LayerLaunch, LaunchForm, gemm_k, WeightProducts, GradOf, InputOf, Width
  <2>3. Makes(L[16]) = {"g_W1_2"} /\ Needs(L[16]) = {"sidx", "cum", "g_fc1_2", "scat"}
    BY ONLY <2>1 DEF Makes, Needs, gemm_k
  <2> QED BY <2>2, <2>3
<1>17. LayerLaunch(s, L[17]) /\ Makes(L[17]) = {"g_W1_1"} /\ Needs(L[17]) = {"sidx", "cum", "g_fc1_1", "scat"}
  <2>1. L[17] = gemm_k(s, "g_fc1_1", "scat", "g_W1_1", I, H)
    BY <1>0
  <2>2. LayerLaunch(s, L[17])
    BY ONLY <2>1 DEF LayerLaunch, LaunchForm, gemm_k, WeightProducts, GradOf, InputOf, Width
  <2>3. Makes(L[17]) = {"g_W1_1"} /\ Needs(L[17]) = {"sidx", "cum", "g_fc1_1", "scat"}
    BY ONLY <2>1 DEF Makes, Needs, gemm_k
  <2> QED BY <2>2, <2>3
<1>18. LayerLaunch(s, L[18]) /\ Makes(L[18]) = {"g_scat"} /\ Needs(L[18]) = {"sidx", "g_scat1", "g_scat2"}
  <2>1. L[18] = Torch(s, "grad_sum")
    BY <1>0
  <2>2. LayerLaunch(s, L[18])
    BY ONLY <2>1 DEF LayerLaunch, LaunchForm, Torch, TorchOps
  <2>3. Makes(L[18]) = {"g_scat"} /\ Needs(L[18]) = {"sidx", "g_scat1", "g_scat2"}
    BY ONLY <2>1 DEF Makes, Needs, Torch
  <2> QED BY <2>2, <2>3
<1>19. LayerLaunch(s, L[19]) /\ Makes(L[19]) = {"g_x"} /\ Needs(L[19]) = {"sidx", "g_scat"}
  <2>1. L[19] = moe_gather(s, "g_scat", "g_x")
    BY <1>0
  <2>2. LayerLaunch(s, L[19])
    BY ONLY <2>1 DEF LayerLaunch, LaunchForm, moe_gather
  <2>3. Makes(L[19]) = {"g_x"} /\ Needs(L[19]) = {"sidx", "g_scat"}
    BY ONLY <2>1 DEF Makes, Needs, moe_gather
  <2> QED BY <2>2, <2>3
<1>20. \A i \in 1 .. 19 : i = 1 \/ i = 2 \/ i = 3 \/ i = 4 \/ i = 5 \/ i = 6 \/ i = 7 \/ i = 8 \/ i = 9 \/ i = 10 \/ i = 11 \/ i = 12 \/ i = 13 \/ i = 14 \/ i = 15 \/ i = 16 \/ i = 17 \/ i = 18 \/ i = 19
  OBVIOUS
<1>21. \A i \in 1 .. 19 : \A x \in Makes(L[i]) : QuackMaker(x) = i
  <2>1. \A x \in Makes(L[1]) : QuackMaker(x) = 1
    BY ONLY <1>1 DEF QuackMaker
  <2>2. \A x \in Makes(L[2]) : QuackMaker(x) = 2
    BY ONLY <1>2 DEF QuackMaker
  <2>3. \A x \in Makes(L[3]) : QuackMaker(x) = 3
    BY ONLY <1>3 DEF QuackMaker
  <2>4. \A x \in Makes(L[4]) : QuackMaker(x) = 4
    BY ONLY <1>4 DEF QuackMaker
  <2>5. \A x \in Makes(L[5]) : QuackMaker(x) = 5
    BY ONLY <1>5 DEF QuackMaker
  <2>6. \A x \in Makes(L[6]) : QuackMaker(x) = 6
    BY ONLY <1>6 DEF QuackMaker
  <2>7. \A x \in Makes(L[7]) : QuackMaker(x) = 7
    BY ONLY <1>7 DEF QuackMaker
  <2>8. \A x \in Makes(L[8]) : QuackMaker(x) = 8
    BY ONLY <1>8 DEF QuackMaker
  <2>9. \A x \in Makes(L[9]) : QuackMaker(x) = 9
    BY ONLY <1>9 DEF QuackMaker
  <2>10. \A x \in Makes(L[10]) : QuackMaker(x) = 10
    BY ONLY <1>10 DEF QuackMaker
  <2>11. \A x \in Makes(L[11]) : QuackMaker(x) = 11
    BY ONLY <1>11 DEF QuackMaker
  <2>12. \A x \in Makes(L[12]) : QuackMaker(x) = 12
    BY ONLY <1>12 DEF QuackMaker
  <2>13. \A x \in Makes(L[13]) : QuackMaker(x) = 13
    BY ONLY <1>13 DEF QuackMaker
  <2>14. \A x \in Makes(L[14]) : QuackMaker(x) = 14
    BY ONLY <1>14 DEF QuackMaker
  <2>15. \A x \in Makes(L[15]) : QuackMaker(x) = 15
    BY ONLY <1>15 DEF QuackMaker
  <2>16. \A x \in Makes(L[16]) : QuackMaker(x) = 16
    BY ONLY <1>16 DEF QuackMaker
  <2>17. \A x \in Makes(L[17]) : QuackMaker(x) = 17
    BY ONLY <1>17 DEF QuackMaker
  <2>18. \A x \in Makes(L[18]) : QuackMaker(x) = 18
    BY ONLY <1>18 DEF QuackMaker
  <2>19. \A x \in Makes(L[19]) : QuackMaker(x) = 19
    BY ONLY <1>19 DEF QuackMaker
  <2> QED BY ONLY <1>20, <2>1, <2>2, <2>3, <2>4, <2>5, <2>6, <2>7, <2>8, <2>9, <2>10, <2>11, <2>12, <2>13, <2>14, <2>15, <2>16, <2>17, <2>18, <2>19
<1>22. \A i \in 1 .. 19 : \A x \in Needs(L[i]) : \E j \in 1 .. i - 1 : x \in Makes(L[j])
  <2>1. \A x \in Needs(L[1]) : \E j \in 1 .. 1 - 1 : x \in Makes(L[j])
    BY ONLY <1>1
  <2>2. \A x \in Needs(L[2]) : \E j \in 1 .. 2 - 1 : x \in Makes(L[j])
    BY ONLY <1>2
  <2>3. \A x \in Needs(L[3]) : \E j \in 1 .. 3 - 1 : x \in Makes(L[j])
    <3>1. 2 \in 1 .. 3 - 1
      OBVIOUS
    <3>2. "hist" \in Makes(L[2])
      BY ONLY <1>2
    <3> QED BY ONLY <1>3, <3>1, <3>2
  <2>4. \A x \in Needs(L[4]) : \E j \in 1 .. 4 - 1 : x \in Makes(L[j])
    <3>1. 1 \in 1 .. 4 - 1 /\ 3 \in 1 .. 4 - 1
      OBVIOUS
    <3>2. "sidx" \in Makes(L[1]) /\ "cum" \in Makes(L[3]) /\ "aidx" \in Makes(L[1])
      BY ONLY <1>1, <1>3
    <3> QED BY ONLY <1>4, <3>1, <3>2
  <2>5. \A x \in Needs(L[5]) : \E j \in 1 .. 5 - 1 : x \in Makes(L[j])
    <3>1. 1 \in 1 .. 5 - 1 /\ 3 \in 1 .. 5 - 1
      OBVIOUS
    <3>2. "sidx" \in Makes(L[1]) /\ "cum" \in Makes(L[3]) /\ "aidx" \in Makes(L[1])
      BY ONLY <1>1, <1>3
    <3> QED BY ONLY <1>5, <3>1, <3>2
  <2>6. \A x \in Needs(L[6]) : \E j \in 1 .. 6 - 1 : x \in Makes(L[j])
    <3>1. 1 \in 1 .. 6 - 1 /\ 4 \in 1 .. 6 - 1 /\ 5 \in 1 .. 6 - 1
      OBVIOUS
    <3>2. "sidx" \in Makes(L[1]) /\ "fc1_1" \in Makes(L[4]) /\ "fc1_2" \in Makes(L[5])
      BY ONLY <1>1, <1>4, <1>5
    <3> QED BY ONLY <1>6, <3>1, <3>2
  <2>7. \A x \in Needs(L[7]) : \E j \in 1 .. 7 - 1 : x \in Makes(L[j])
    <3>1. 1 \in 1 .. 7 - 1 /\ 3 \in 1 .. 7 - 1 /\ 6 \in 1 .. 7 - 1
      OBVIOUS
    <3>2. "sidx" \in Makes(L[1]) /\ "cum" \in Makes(L[3]) /\ "wact" \in Makes(L[6])
      BY ONLY <1>1, <1>3, <1>6
    <3> QED BY ONLY <1>7, <3>1, <3>2
  <2>8. \A x \in Needs(L[8]) : \E j \in 1 .. 8 - 1 : x \in Makes(L[j])
    <3>1. 1 \in 1 .. 8 - 1 /\ 7 \in 1 .. 8 - 1
      OBVIOUS
    <3>2. "sidx" \in Makes(L[1]) /\ "fc2" \in Makes(L[7])
      BY ONLY <1>1, <1>7
    <3> QED BY ONLY <1>8, <3>1, <3>2
  <2>9. \A x \in Needs(L[9]) : \E j \in 1 .. 9 - 1 : x \in Makes(L[j])
    <3>1. 1 \in 1 .. 9 - 1
      OBVIOUS
    <3>2. "sidx" \in Makes(L[1])
      BY ONLY <1>1
    <3> QED BY ONLY <1>9, <3>1, <3>2
  <2>10. \A x \in Needs(L[10]) : \E j \in 1 .. 10 - 1 : x \in Makes(L[j])
    <3>1. 1 \in 1 .. 10 - 1 /\ 3 \in 1 .. 10 - 1 /\ 9 \in 1 .. 10 - 1
      OBVIOUS
    <3>2. "sidx" \in Makes(L[1]) /\ "cum" \in Makes(L[3]) /\ "g_fc2" \in Makes(L[9])
      BY ONLY <1>1, <1>3, <1>9
    <3> QED BY ONLY <1>10, <3>1, <3>2
  <2>11. \A x \in Needs(L[11]) : \E j \in 1 .. 11 - 1 : x \in Makes(L[j])
    <3>1. 1 \in 1 .. 11 - 1 /\ 3 \in 1 .. 11 - 1 /\ 6 \in 1 .. 11 - 1 /\ 9 \in 1 .. 11 - 1
      OBVIOUS
    <3>2. "sidx" \in Makes(L[1]) /\ "cum" \in Makes(L[3]) /\ "g_fc2" \in Makes(L[9]) /\ "wact" \in Makes(L[6])
      BY ONLY <1>1, <1>3, <1>6, <1>9
    <3> QED BY ONLY <1>11, <3>1, <3>2
  <2>12. \A x \in Needs(L[12]) : \E j \in 1 .. 12 - 1 : x \in Makes(L[j])
    <3>1. 1 \in 1 .. 12 - 1 /\ 4 \in 1 .. 12 - 1 /\ 5 \in 1 .. 12 - 1 /\ 10 \in 1 .. 12 - 1
      OBVIOUS
    <3>2. "sidx" \in Makes(L[1]) /\ "g_wact" \in Makes(L[10]) /\ "fc1_1" \in Makes(L[4]) /\ "fc1_2" \in Makes(L[5])
      BY ONLY <1>1, <1>4, <1>5, <1>10
    <3> QED BY ONLY <1>12, <3>1, <3>2
  <2>13. \A x \in Needs(L[13]) : \E j \in 1 .. 13 - 1 : x \in Makes(L[j])
    <3>1. 1 \in 1 .. 13 - 1 /\ 3 \in 1 .. 13 - 1 /\ 12 \in 1 .. 13 - 1
      OBVIOUS
    <3>2. "sidx" \in Makes(L[1]) /\ "cum" \in Makes(L[3]) /\ "g_fc1_2" \in Makes(L[12])
      BY ONLY <1>1, <1>3, <1>12
    <3> QED BY ONLY <1>13, <3>1, <3>2
  <2>14. \A x \in Needs(L[14]) : \E j \in 1 .. 14 - 1 : x \in Makes(L[j])
    <3>1. 1 \in 1 .. 14 - 1 /\ 3 \in 1 .. 14 - 1 /\ 12 \in 1 .. 14 - 1
      OBVIOUS
    <3>2. "sidx" \in Makes(L[1]) /\ "cum" \in Makes(L[3]) /\ "g_fc1_1" \in Makes(L[12])
      BY ONLY <1>1, <1>3, <1>12
    <3> QED BY ONLY <1>14, <3>1, <3>2
  <2>15. \A x \in Needs(L[15]) : \E j \in 1 .. 15 - 1 : x \in Makes(L[j])
    <3>1. 1 \in 1 .. 15 - 1
      OBVIOUS
    <3>2. "sidx" \in Makes(L[1])
      BY ONLY <1>1
    <3> QED BY ONLY <1>15, <3>1, <3>2
  <2>16. \A x \in Needs(L[16]) : \E j \in 1 .. 16 - 1 : x \in Makes(L[j])
    <3>1. 1 \in 1 .. 16 - 1 /\ 3 \in 1 .. 16 - 1 /\ 12 \in 1 .. 16 - 1 /\ 15 \in 1 .. 16 - 1
      OBVIOUS
    <3>2. "sidx" \in Makes(L[1]) /\ "cum" \in Makes(L[3]) /\ "g_fc1_2" \in Makes(L[12]) /\ "scat" \in Makes(L[15])
      BY ONLY <1>1, <1>3, <1>12, <1>15
    <3> QED BY ONLY <1>16, <3>1, <3>2
  <2>17. \A x \in Needs(L[17]) : \E j \in 1 .. 17 - 1 : x \in Makes(L[j])
    <3>1. 1 \in 1 .. 17 - 1 /\ 3 \in 1 .. 17 - 1 /\ 12 \in 1 .. 17 - 1 /\ 15 \in 1 .. 17 - 1
      OBVIOUS
    <3>2. "sidx" \in Makes(L[1]) /\ "cum" \in Makes(L[3]) /\ "g_fc1_1" \in Makes(L[12]) /\ "scat" \in Makes(L[15])
      BY ONLY <1>1, <1>3, <1>12, <1>15
    <3> QED BY ONLY <1>17, <3>1, <3>2
  <2>18. \A x \in Needs(L[18]) : \E j \in 1 .. 18 - 1 : x \in Makes(L[j])
    <3>1. 1 \in 1 .. 18 - 1 /\ 13 \in 1 .. 18 - 1 /\ 14 \in 1 .. 18 - 1
      OBVIOUS
    <3>2. "sidx" \in Makes(L[1]) /\ "g_scat1" \in Makes(L[14]) /\ "g_scat2" \in Makes(L[13])
      BY ONLY <1>1, <1>13, <1>14
    <3> QED BY ONLY <1>18, <3>1, <3>2
  <2>19. \A x \in Needs(L[19]) : \E j \in 1 .. 19 - 1 : x \in Makes(L[j])
    <3>1. 1 \in 1 .. 19 - 1 /\ 18 \in 1 .. 19 - 1
      OBVIOUS
    <3>2. "sidx" \in Makes(L[1]) /\ "g_scat" \in Makes(L[18])
      BY ONLY <1>1, <1>18
    <3> QED BY ONLY <1>19, <3>1, <3>2
  <2> QED BY ONLY <1>20, <2>1, <2>2, <2>3, <2>4, <2>5, <2>6, <2>7, <2>8, <2>9, <2>10, <2>11, <2>12, <2>13, <2>14, <2>15, <2>16, <2>17, <2>18, <2>19
<1>23. \A i \in 1 .. 19 : LayerLaunch(s, L[i])
  BY ONLY <1>1, <1>2, <1>3, <1>4, <1>5, <1>6, <1>7, <1>8, <1>9, <1>10, <1>11, <1>12, <1>13, <1>14, <1>15, <1>16, <1>17, <1>18, <1>19, <1>20
<1>24. Len(L) = 19 /\ Len(L) \in Nat
  BY ONLY <1>0
<1> QED BY ONLY <1>24, <1>21, <1>22, <1>23 DEF Layer

\* Which launch of moe_index_compute makes a tensor.
IndexMaker(x) ==
  CASE x = "hist" -> 1 [] x = "cum" -> 2 [] x = "cumcopy" -> 3 [] x = "sidx" -> 4
\* The launches of moe_index_compute are a layer.
LEMMA IndexLayer ==
  ASSUME NEW s, NEW L, L = moe_index_compute(s)
  PROVE  Layer(s, L)
<1>0. /\ Len(L) = 4
      /\ L[1] = expert_histogram(s)
      /\ L[2] = Torch(s, "cumsum")
      /\ L[3] = Torch(s, "clone")
      /\ L[4] = [kernel |-> "index", T |-> s.T, topk |-> s.topk, E |-> s.E, grid |-> {<<p>> : p \in 0 .. Cdiv(s.T * s.topk, IndexBlock) - 1}]
  BY IndexLaunches
<1>1. LayerLaunch(s, L[1]) /\ Makes(L[1]) = {"hist"} /\ Needs(L[1]) = {}
  <2>1. L[1] = expert_histogram(s)
    BY <1>0
  <2>2. LayerLaunch(s, L[1])
    BY ONLY <2>1 DEF LayerLaunch, LaunchForm, expert_histogram
  <2>3. Makes(L[1]) = {"hist"} /\ Needs(L[1]) = {}
    BY ONLY <2>1 DEF Makes, Needs, expert_histogram
  <2> QED BY <2>2, <2>3
<1>2. LayerLaunch(s, L[2]) /\ Makes(L[2]) = {"cum"} /\ Needs(L[2]) = {"hist"}
  <2>1. L[2] = Torch(s, "cumsum")
    BY <1>0
  <2>2. LayerLaunch(s, L[2])
    BY ONLY <2>1 DEF LayerLaunch, LaunchForm, Torch, TorchOps
  <2>3. Makes(L[2]) = {"cum"} /\ Needs(L[2]) = {"hist"}
    BY ONLY <2>1 DEF Makes, Needs, Torch
  <2> QED BY <2>2, <2>3
<1>3. LayerLaunch(s, L[3]) /\ Makes(L[3]) = {"cumcopy"} /\ Needs(L[3]) = {"hist"}
  <2>1. L[3] = Torch(s, "clone")
    BY <1>0
  <2>2. LayerLaunch(s, L[3])
    BY ONLY <2>1 DEF LayerLaunch, LaunchForm, Torch, TorchOps
  <2>3. Makes(L[3]) = {"cumcopy"} /\ Needs(L[3]) = {"hist"}
    BY ONLY <2>1 DEF Makes, Needs, Torch
  <2> QED BY <2>2, <2>3
<1>4. LayerLaunch(s, L[4]) /\ Makes(L[4]) = {"sidx"} /\ Needs(L[4]) = {"hist", "cum", "cumcopy"}
  <2>1. L[4] = [kernel |-> "index", T |-> s.T, topk |-> s.topk, E |-> s.E, grid |-> {<<p>> : p \in 0 .. Cdiv(s.T * s.topk, IndexBlock) - 1}]
    BY <1>0
  <2>2. LayerLaunch(s, L[4])
    BY ONLY <2>1 DEF LayerLaunch, LaunchForm
  <2>3. Makes(L[4]) = {"sidx"} /\ Needs(L[4]) = {"hist", "cum", "cumcopy"}
    BY ONLY <2>1 DEF Makes, Needs
  <2> QED BY <2>2, <2>3
<1>5. \A i \in 1 .. 4 : i = 1 \/ i = 2 \/ i = 3 \/ i = 4
  OBVIOUS
<1>6. \A i \in 1 .. 4 : \A x \in Makes(L[i]) : IndexMaker(x) = i
  <2>1. \A x \in Makes(L[1]) : IndexMaker(x) = 1
    BY ONLY <1>1 DEF IndexMaker
  <2>2. \A x \in Makes(L[2]) : IndexMaker(x) = 2
    BY ONLY <1>2 DEF IndexMaker
  <2>3. \A x \in Makes(L[3]) : IndexMaker(x) = 3
    BY ONLY <1>3 DEF IndexMaker
  <2>4. \A x \in Makes(L[4]) : IndexMaker(x) = 4
    BY ONLY <1>4 DEF IndexMaker
  <2> QED BY ONLY <1>5, <2>1, <2>2, <2>3, <2>4
<1>7. \A i \in 1 .. 4 : \A x \in Needs(L[i]) : \E j \in 1 .. i - 1 : x \in Makes(L[j])
  <2>1. \A x \in Needs(L[1]) : \E j \in 1 .. 1 - 1 : x \in Makes(L[j])
    BY ONLY <1>1
  <2>2. \A x \in Needs(L[2]) : \E j \in 1 .. 2 - 1 : x \in Makes(L[j])
    <3>1. 1 \in 1 .. 2 - 1
      OBVIOUS
    <3>2. "hist" \in Makes(L[1])
      BY ONLY <1>1
    <3> QED BY ONLY <1>2, <3>1, <3>2
  <2>3. \A x \in Needs(L[3]) : \E j \in 1 .. 3 - 1 : x \in Makes(L[j])
    <3>1. 1 \in 1 .. 3 - 1
      OBVIOUS
    <3>2. "hist" \in Makes(L[1])
      BY ONLY <1>1
    <3> QED BY ONLY <1>3, <3>1, <3>2
  <2>4. \A x \in Needs(L[4]) : \E j \in 1 .. 4 - 1 : x \in Makes(L[j])
    <3>1. 1 \in 1 .. 4 - 1 /\ 2 \in 1 .. 4 - 1 /\ 3 \in 1 .. 4 - 1
      OBVIOUS
    <3>2. "hist" \in Makes(L[1]) /\ "cum" \in Makes(L[2]) /\ "cumcopy" \in Makes(L[3])
      BY ONLY <1>1, <1>2, <1>3
    <3> QED BY ONLY <1>4, <3>1, <3>2
  <2> QED BY ONLY <1>5, <2>1, <2>2, <2>3, <2>4
<1>8. \A i \in 1 .. 4 : LayerLaunch(s, L[i])
  BY ONLY <1>1, <1>2, <1>3, <1>4, <1>5
<1> QED BY ONLY <1>0, <1>6, <1>7, <1>8 DEF Layer

\* Every mixture-of-experts job is a layer.
LEMMA JobIsLayer ==
  ASSUME MoEJob(job)
  PROVE  /\ Layer(Sh, job.launches)
         /\ Sh.T \in Nat /\ Sh.topk \in Nat \ {0} /\ Sh.E \in Nat /\ Pairs \in Nat
         /\ MoEInputs(Sh, job.mem)
         /\ Routing(Pairs, Sh.E, Ex)
<1>1. /\ Sh.T \in Nat /\ Sh.topk \in Nat \ {0} /\ Sh.E \in Nat
      /\ job.launches \in { FusedForward(Sh) \o FusedBackward(Sh), QuackForward(Sh) \o QuackBackward(Sh),
                            moe_index_compute(Sh) }
      /\ MoEInputs(Sh, job.mem)
  BY DEF MoEJob, Sh
<1>2. Layer(Sh, job.launches)
  BY <1>1, FusedLayer, QuackLayer, IndexLayer
<1>3. Pairs \in Nat
  BY <1>1 DEF Pairs
<1>4. \A f \in 0 .. Pairs - 1 : ExpertOf(Sh, job.mem, f) \in 0 .. Sh.E - 1
  BY <1>1 DEF MoEInputs, Flat, Pairs
<1>5. Routing(Pairs, Sh.E, Ex)
  BY <1>1, <1>3, <1>4 DEF Routing, Ex
<1> QED BY <1>1, <1>2, <1>3, <1>5

-----------------------------------------------------------------------------
\* A tensor has been made, and a kernel is running.
Ready(x)   == \E i \in 1 .. at - 1 : x \in Makes(Launch(i))
Running(k) == at <= Len(job.launches) /\ Launch(at).kernel = k

\* The running launch is one of the layer; what it needs is ready, and what it
\* makes is not.
LEMMA LaunchOfLayer ==
  ASSUME Stream, MoEJob(job), at <= Len(job.launches)
  PROVE  /\ at \in 1 .. Len(job.launches) /\ LayerLaunch(Sh, Launch(at))
         /\ \A x \in Needs(Launch(at)) : Ready(x)
         /\ \A x \in Makes(Launch(at)) : ~ Ready(x)
<1> DEFINE L == job.launches
<1>1. Layer(Sh, L)
  BY JobIsLayer
<1>2. Len(L) \in Nat /\ at \in 1 .. Len(L)
  BY <1>1 DEF Stream, Layer
<1>3. \A i : Launch(i) = L[i]
  BY DEF Launch
<1> HIDE DEF L
<1>4. LayerLaunch(Sh, L[at])
  BY <1>1, <1>2 DEF Layer
<1>5. \A x \in Needs(L[at]) : Ready(x)
  BY <1>1, <1>2, <1>3 DEF Layer, Ready
<1>6. ASSUME NEW x \in Makes(L[at]), Ready(x) PROVE FALSE
  <2>1. PICK i \in 1 .. at - 1 : x \in Makes(L[i])
    BY <1>3, <1>6 DEF Ready
  <2>2. i \in 1 .. Len(L) /\ i # at
    BY <1>2
  <2>3. Makes(L[i]) \cap Makes(L[at]) = {}
    BY <1>1, <1>2, <2>2 DEF Layer
  <2> QED BY <1>6, <2>1, <2>3
<1> QED BY <1>2, <1>3, <1>4, <1>5, <1>6 DEF L

\* A launch of a layer stores only to the tensors it makes.
LEMMA StoredIn ==
  ASSUME NEW s, NEW l, LayerLaunch(s, l), NEW p, NEW k, NEW m, NEW w \in Stored(l, p, k, m)
  PROVE  w[1][1] \in Makes(l) /\ l.kernel # "histogram"
<1>0. \/ l.kernel = "histogram" \/ l.kernel = "index" \/ l.kernel = "argsort" \/ l.kernel = "build_indices"
      \/ l.kernel = "cumsum" \/ l.kernel = "clone" \/ l.kernel = "scatter" \/ l.kernel = "gather"
      \/ l.kernel = "gemm_nk" \/ l.kernel = "gemm_mn" \/ l.kernel = "quack" \/ l.kernel = "quack_k"
      \/ l.kernel = "activation" \/ l.kernel = "activation_grad" \/ l.kernel = "grad_sum"
  BY DEF LayerLaunch, LaunchForm, TorchOps
<1>1. CASE l.kernel = "histogram"
  BY <1>1 DEF Stored
<1>2. CASE l.kernel = "index"
  <2>1. w \in _moe_index_compute_kernel(l, p, k, m)
    BY <1>2 DEF Stored
  <2>2. \E a, b, c : w = << <<"sidx", a, b>>, c >>
    BY <2>1 DEF _moe_index_compute_kernel
  <2> QED BY <1>2, <2>2 DEF Makes
<1>3. \A v \in ScatterIndex(l, m) : \E a, b, c : v = << <<"sidx", a, b>>, c >>
  BY DEF ScatterIndex
<1>4. CASE l.kernel = "argsort"
  <2>1. w \in ScatterIndex(l, m)
    BY <1>4 DEF Stored
  <2> QED BY <1>3, <1>4, <2>1 DEF Makes
<1>5. CASE l.kernel = "build_indices"
  <2>1. w \in _build_moe_indices(l, m)
    BY <1>5 DEF Stored
  <2>2. w \in ScatterIndex(l, m) \/ \E a, c : w = << <<"aidx", a>>, c >>
    BY <2>1 DEF _build_moe_indices
  <2> QED BY <1>3, <1>5, <2>2 DEF Makes
<1>6. CASE l.kernel = "cumsum"
  <2>1. w \in CumSum(l, m, "cum")
    BY <1>6 DEF Stored
  <2>2. \E a, c : w = << <<"cum", a>>, c >>
    BY <2>1, Zenon DEF CumSum
  <2> QED BY <1>6, <2>2 DEF Makes
<1>7. CASE l.kernel = "clone"
  <2>1. w \in CumSum(l, m, "cumcopy")
    BY <1>7 DEF Stored
  <2>2. \E a, c : w = << <<"cumcopy", a>>, c >>
    BY <2>1, Zenon DEF CumSum
  <2> QED BY <1>7, <2>2 DEF Makes
<1>8. CASE l.kernel = "scatter"
  <2>1. w \in _moe_scatter_kernel(l, p, m)
    BY <1>8 DEF Stored
  <2>2. \E i \in 0 .. l.topk - 1, n \in Columns(p, H) :
          w = << <<l.o, Sidx(m, p[1], i), n>>, Load(m, <<l.x, p[1], n>>) >>
    BY ONLY <2>1, SMT DEF _moe_scatter_kernel
  <2> QED BY <1>8, <2>2 DEF Makes
<1>9. CASE l.kernel = "gather"
  <2>1. w \in _moe_gather_kernel(l, p, m)
    BY <1>9 DEF Stored
  <2>2. \E a, b, c : w = << <<l.y, a, b>>, c >>
    BY <2>1 DEF _moe_gather_kernel
  <2> QED BY <1>9, <2>2 DEF Makes
<1>10. CASE l.kernel = "gemm_nk"
  <2>1. w \in group_gemm_same_nk_kernel(l, p, m)
    BY <1>10 DEF Stored
  <2>2. \E a, b, c : w = << <<l.c, a, b>>, c >>
    BY <2>1, Zenon DEF group_gemm_same_nk_kernel
  <2> QED BY <1>10, <2>2 DEF Makes
<1>11. CASE l.kernel = "gemm_mn"
  <2>1. w \in group_gemm_same_mn_kernel(l, p, m)
    BY <1>11 DEF Stored
  <2>2. \E a, b, d, c : w = << <<l.c, a, b, d>>, c >>
    BY <2>1, Zenon DEF group_gemm_same_mn_kernel
  <2> QED BY <1>11, <2>2 DEF Makes
<1>12. CASE l.kernel = "quack"
  <2>1. w \in quack_gemm(l, m)
    BY <1>12 DEF Stored
  <2>2. \E r \in Flat(l), n \in 0 .. l.N - 1 :
          w = << <<l.c, r, n>>, << l.b, quack_group(l, m, r), n, quack_row(l, m, r) >> >>
    BY ONLY <2>1, SMT DEF quack_gemm
  <2> QED BY <1>12, <2>2 DEF Makes
<1>13. CASE l.kernel = "quack_k"
  <2>1. w \in quack_gemm_k(l, m)
    BY <1>13 DEF Stored
  <2>2. \E g \in 0 .. l.E - 1, i \in 0 .. l.M - 1, n \in 0 .. l.N - 1 :
          w = << <<l.c, g, i, n>>, << quack_reduced(l, m, g, i, n) >> >>
    BY ONLY <2>1, SMT DEF quack_gemm_k
  <2> QED BY <1>13, <2>2 DEF Makes
<1>14. CASE l.kernel = "activation"
  <2>1. w \in Activation(l, m)
    BY <1>14 DEF Stored
  <2>2. \E r \in Flat(l), j \in 0 .. I - 1 :
          w = << <<"wact", r, j>>, << "act", Load(m, <<"fc1_1", r, j>>), Load(m, <<"fc1_2", r, j>>),
                                      ScatteredGate(l, m, r) >> >>
    BY ONLY <2>1, SMT DEF Activation
  <2> QED BY <1>14, <2>2 DEF Makes
<1>15. CASE l.kernel = "activation_grad"
  <2>1. w \in ActivationGrad(l, m)
    BY <1>15 DEF Stored
  <2>2. ASSUME NEW d \in {"g_fc1_1", "g_fc1_2"}, w \in RowGrad(l, m, d)
        PROVE  w[1][1] \in Makes(l) /\ l.kernel # "histogram"
    <3>1. \E r \in Flat(l), j \in 0 .. I - 1 :
            w = << <<d, r, j>>, << d, Load(m, <<"g_wact", r, j>>), Load(m, <<"fc1_1", r, j>>),
                                   Load(m, <<"fc1_2", r, j>>), ScatteredGate(l, m, r) >> >>
      BY ONLY <2>2, SMT DEF RowGrad
    <3> QED BY <1>15, <3>1 DEF Makes
  <2>3. CASE w \in GateGrad(l, m)
    <3>1. \E a, b, c : w = << <<"g_gate", a, b>>, c >>
      BY ONLY <2>3, Zenon DEF GateGrad
    <3> QED BY <1>15, <3>1 DEF Makes
  <2> QED BY <2>1, <2>2, <2>3 DEF ActivationGrad
<1>16. CASE l.kernel = "grad_sum"
  <2>1. w \in GradSum(l, m)
    BY <1>16 DEF Stored
  <2>2. \E r \in Flat(l), n \in 0 .. H - 1 :
          w = << <<"g_scat", r, n>>, << Load(m, <<"g_scat1", r, n>>), Load(m, <<"g_scat2", r, n>>) >> >>
    BY ONLY <2>1, SMT DEF GradSum
  <2> QED BY <1>16, <2>2 DEF Makes
<1> QED BY <1>0, <1>1, <1>2, <1>4, <1>5, <1>6, <1>7, <1>8, <1>9, <1>10, <1>11, <1>12, <1>13, <1>14, <1>15, <1>16

\* The stores of the running launch are to the tensors it makes.
StoresNamed ==
  \A w \in stores : /\ at <= Len(job.launches) /\ w[1][1] \in Makes(Launch(at))
                    /\ Launch(at).kernel # "histogram"

\* A launch that ends changes only the tensors it makes.
LEMMA FinishKeeps ==
  ASSUME StoresNamed, FinishLaunch, NEW c, c[1] \notin Makes(Launch(at)) \/ Launch(at).kernel = "histogram"
  PROVE  /\ Load(mem', c) = Load(mem, c)
         /\ c \in DOMAIN mem' <=> c \in DOMAIN mem
<1>1. mem' = Write(stores, mem)
  BY DEF FinishLaunch
<1>2. \A t \in stores : t[1] # c
  BY DEF StoresNamed
<1> QED BY <1>1, <1>2, WriteKept

\* A program changes only the tensors of the counters.
LEMMA RunLeaves ==
  ASSUME NEW p \in Launch(at).grid, RunProgram(p), NEW c,
         \/ c[1] \notin {"hist", "cumcopy"}
         \/ c[1] = "hist" /\ Launch(at).kernel # "histogram"
         \/ c[1] = "cumcopy" /\ Launch(at).kernel # "index"
  PROVE  /\ Load(mem', c) = Load(mem, c)
         /\ c \in DOMAIN mem' <=> c \in DOMAIN mem
<1> DEFINE A == Added(Launch(at), p, pc[p], mem)
<1>1. mem' = AtomicAdd(A, mem)
  BY DEF RunProgram
<1>2. \A a \in A : a[1] # c
  <2> SUFFICES ASSUME NEW a \in A, a[1] = c PROVE FALSE
    OBVIOUS
  <2>1. CASE Launch(at).kernel = "histogram"
    <3>1. a \in _expert_histogram_kernel(Launch(at), p, mem)
      BY <2>1 DEF Added
    <3>2. PICK e, v : a = << <<"hist", e>>, v >>
      BY <3>1 DEF _expert_histogram_kernel
    <3>3. c[1] = "hist"
      BY <3>2
    <3> QED BY <2>1, <3>3
  <2>2. CASE Launch(at).kernel = "index"
    <3>1. a = << <<"cumcopy", pc[p]>>, -Cardinality(IndexLanes(Launch(at), p, pc[p], mem)) >>
      BY <2>2 DEF Added, _moe_index_compute_add
    <3>2. c[1] = "cumcopy"
      BY <3>1
    <3> QED BY <2>2, <3>2
  <2>3. CASE Launch(at).kernel \notin Atomic
    BY <2>3, NothingAdded
  <2> QED BY <2>1, <2>2, <2>3 DEF Atomic
<1>3. Load(AtomicAdd(A, mem), c) = Load(mem, c)
  BY <1>2, AddElsewhere
<1> QED BY <1>1, <1>3, AddKeeps

\* Which tensors are ready after a step.
LEMMA ReadyRun ==
  ASSUME NEW p, RunProgram(p), NEW x
  PROVE  Ready(x)' <=> Ready(x)
BY DEF RunProgram, Ready, Launch

\* The end of a launch makes its tensors ready.
LEMMA ReadyFinish ==
  ASSUME Stream, at <= Len(job.launches), FinishLaunch, NEW x
  PROVE  Ready(x)' <=> Ready(x) \/ x \in Makes(Launch(at))
<1>1. at' = at + 1 /\ job' = job /\ at \in Nat /\ at >= 1
  <2>1. Len(job.launches) \in Nat
    BY JobsAssumption DEF Stream
  <2> QED BY <2>1 DEF FinishLaunch, Stream
<1>2. \A i : Launch(i)' = Launch(i)
  BY <1>1 DEF Launch
<1>3. 1 .. at' - 1 = (1 .. at - 1) \cup {at}
  BY <1>1
<1> QED BY <1>2, <1>3 DEF Ready

\* Stores stay named.
LEMMA NamedStep ==
  ASSUME Stream, MoEJob(job), StoresNamed, at <= Len(job.launches),
         (\E p \in Launch(at).grid : RunProgram(p)) \/ FinishLaunch
  PROVE  StoresNamed'
<1>1. LayerLaunch(Sh, Launch(at))
  BY LaunchOfLayer
<1>2. ASSUME NEW p \in Launch(at).grid, RunProgram(p) PROVE StoresNamed'
  <2>1. /\ stores' = stores \cup Stored(Launch(at), p, pc[p], mem)
        /\ job' = job /\ at' = at /\ Launch(at)' = Launch(at)
    BY <1>2 DEF RunProgram, Launch
  <2>2. \A w \in Stored(Launch(at), p, pc[p], mem) : w[1][1] \in Makes(Launch(at)) /\ Launch(at).kernel # "histogram"
    BY <1>1, StoredIn
  <2> QED BY <2>1, <2>2 DEF StoresNamed
<1>3. ASSUME FinishLaunch PROVE StoresNamed'
  BY <1>3 DEF FinishLaunch, StoresNamed
<1> QED BY <1>2, <1>3

-----------------------------------------------------------------------------
\* The row of each pair, and the cell that holds it.
Row     == [f \in 0 .. Pairs - 1 |-> Sidx(mem, f \div Sh.topk, f % Sh.topk)]
Cell(f) == <<"sidx", f \div Sh.topk, f % Sh.topk>>

\* The pairs that the histogram has counted, and those for which the index kernel
\* has reserved rows.
Counted(f)  == Ready("hist") \/ (Running("histogram") /\ pc[<<f \div HistBlock>>] = 1)
Reserved(f) == Running("index") /\ Ex[f] < pc[<<f \div IndexBlock>>]

\* The inputs of the layer are never overwritten.
InputsKept == \A x \in {"eidx", "x", "gout", "gate"} : \A i, j : Load(mem, <<x, i, j>>) = Load(job.mem, <<x, i, j>>)

\* The histogram counts the pairs counted so far, the cumulative sums all pairs up
\* to an expert, and the counters of the index kernel those without a row yet.
Histogram ==
  \A e \in 0 .. Sh.E - 1 :
    /\ <<"hist", e>> \in DOMAIN mem
    /\ mem[<<"hist", e>>] = Cardinality({f \in 0 .. Pairs - 1 : Ex[f] = e /\ Counted(f)})
Cumulative ==
  Ready("cum") => \A e \in 0 .. Sh.E - 1 : Load(mem, <<"cum", e>>) = Cardinality(UpTo(Pairs, Ex, e))
Counters ==
  Ready("cumcopy") /\ ~ Ready("sidx") =>
    \A e \in 0 .. Sh.E - 1 :
      /\ <<"cumcopy", e>> \in DOMAIN mem
      /\ mem[<<"cumcopy", e>>] = Cardinality(UpTo(Pairs, Ex, e))
                                  - Cardinality({f \in 0 .. Pairs - 1 : Ex[f] = e /\ Reserved(f)})

\* While the index kernel runs: each pair with a reservation has a row, at or above
\* the counter of its expert and below the expert's last row, and rows are distinct.
Reservations ==
  Running("index") =>
    /\ \A f \in 0 .. Pairs - 1 : Reserved(f) => \E v : <<Cell(f), v>> \in stores
    /\ \A w \in stores :
         \E f \in 0 .. Pairs - 1 :
           /\ Reserved(f) /\ w = <<Cell(f), w[2]>> /\ w[2] \in Int
           /\ mem[<<"cumcopy", Ex[f]>>] <= w[2] /\ w[2] < Cardinality(UpTo(Pairs, Ex, Ex[f]))
    /\ \A w, z \in stores : w[1] = z[1] \/ w[2] = z[2] => w = z

\* Once made, the rows are sorted by expert; nothing else makes them.
Rows ==
  /\ Ready("sidx") => Sorted(Pairs, Ex, Row)
  /\ <<"sidx", 0, 0>> \in DOMAIN mem => Ready("sidx")

Dispatch ==
  MoEJob(job) =>
    StoresNamed /\ InputsKept /\ Histogram /\ Cumulative /\ Counters /\ Reservations /\ Rows

-----------------------------------------------------------------------------
\* The lanes of program q are the indices whose tile is q.
LEMMA LaneOf ==
  ASSUME NEW w \in Nat \ {0}, NEW q \in Nat, NEW f \in Nat
  PROVE  f \in Lanes(q, w) <=> f \div w = q
<1>1. f \div w \in Nat /\ f % w \in Nat /\ f % w < w /\ f = (f \div w) * w + (f % w)
  BY DivMod
<1>2. q * w \in Nat
  OBVIOUS
<1>3. ASSUME f \div w = q PROVE f \in Lanes(q, w)
  BY <1>1, <1>2, <1>3 DEF Lanes
<1>4. ASSUME f \in Lanes(q, w) PROVE f \div w = q
  <2>1. f - q * w \in 0 .. w - 1 /\ f = q * w + (f - q * w)
    BY <1>2, <1>4 DEF Lanes
  <2> DEFINE r == f - q * w
  <2>2. r \in Nat /\ r < w /\ f = q * w + r
    BY <2>1
  <2> HIDE DEF r
  <2> QED BY <1>1, <2>2, DivUnique
<1> QED BY <1>3, <1>4

\* A pair is found again from its token and its position.
LEMMA PairOf ==
  ASSUME MoEJob(job), NEW f \in 0 .. Pairs - 1
  PROVE  /\ f \in Nat /\ f = (f \div Sh.topk) * Sh.topk + (f % Sh.topk)
         /\ f \div Sh.topk \in 0 .. Sh.T - 1 /\ f % Sh.topk \in 0 .. Sh.topk - 1
<1>1. Sh.T \in Nat /\ Sh.topk \in Nat \ {0} /\ Pairs \in Nat
  BY JobIsLayer
<1>2. f \in Nat /\ f < Sh.T * Sh.topk
  BY <1>1 DEF Pairs
<1> DEFINE q == f \div Sh.topk
           r == f % Sh.topk
<1>3. q \in Nat /\ r \in Nat /\ r < Sh.topk /\ f = q * Sh.topk + r
  BY ONLY <1>1, <1>2, DivMod
<1> HIDE DEF q, r
<1>4. q < Sh.T
  <2> SUFFICES ASSUME Sh.T <= q PROVE FALSE
    BY <1>1, <1>3
  <2>1. Sh.T * Sh.topk <= q * Sh.topk
    BY <1>1, <1>3, MulMono
  <2>2. Sh.T * Sh.topk \in Nat /\ q * Sh.topk \in Nat
    BY <1>1, <1>3
  <2> QED BY <1>1, <1>2, <1>3, <2>1, <2>2
<1>5. q \in 0 .. Sh.T - 1 /\ r \in 0 .. Sh.topk - 1
  BY <1>1, <1>3, <1>4
<1> QED BY ONLY <1>2, <1>3, <1>5, Zenon DEF q, r

\* Two pairs do not share a cell.
LEMMA CellsDiffer ==
  ASSUME MoEJob(job), NEW f \in 0 .. Pairs - 1, NEW h \in 0 .. Pairs - 1, Cell(f) = Cell(h)
  PROVE  f = h
<1>1. f \div Sh.topk = h \div Sh.topk /\ f % Sh.topk = h % Sh.topk
  BY DEF Cell
<1>2. f = (f \div Sh.topk) * Sh.topk + (f % Sh.topk) /\ h = (h \div Sh.topk) * Sh.topk + (h % Sh.topk)
  BY PairOf
<1> QED BY ONLY <1>1, <1>2, Zenon

\* Kernels read the experts that the router gave.
LEMMA ExpertIs ==
  ASSUME MoEJob(job), InputsKept, NEW l, l.T = Sh.T, l.topk = Sh.topk
  PROVE  /\ Flat(l) = 0 .. Pairs - 1
         /\ \A f \in 0 .. Pairs - 1 : ExpertOf(l, mem, f) = Ex[f] /\ Ex[f] \in 0 .. Sh.E - 1
<1>1. Flat(l) = 0 .. Pairs - 1
  BY DEF Flat, Pairs
<1>2. \A f \in 0 .. Pairs - 1 : ExpertOf(l, mem, f) = ExpertOf(Sh, job.mem, f)
  BY DEF ExpertOf, InputsKept
<1>3. \A f \in 0 .. Pairs - 1 : Ex[f] \in 0 .. Sh.E - 1
  BY JobIsLayer DEF Routing
<1> QED BY <1>1, <1>2, <1>3 DEF Ex

\* What an addition adds.
LEMMA AddedTo ==
  ASSUME NEW A, NEW m, NEW c \in DOMAIN m, NEW v, <<c, v>> \in A, \A a \in A : a[1] = c => a[2] = v
  PROVE  AtomicAdd(A, m)[c] = m[c] + v
<1>1. \E a \in A : a[1] = c
  <2>1. <<c, v>>[1] = c
    OBVIOUS
  <2> QED BY <2>1
<1> DEFINE a == CHOOSE b \in A : b[1] = c
<1>2. a \in A /\ a[1] = c
  BY <1>1
<1>3. a[2] = v
  BY <1>2
<1> QED BY <1>1, <1>3 DEF AtomicAdd

\* The lanes beyond the input fall in a bin of no expert.
LEMMA HistogramLanes ==
  ASSUME MoEJob(job), InputsKept, NEW l, l.T = Sh.T, l.topk = Sh.topk, l.E = Sh.E, NEW q \in Nat
  PROVE  _expert_histogram_kernel(l, <<q>>, mem) =
           { << <<"hist", e>>, Cardinality({f \in 0 .. Pairs - 1 : Ex[f] = e /\ f \div HistBlock = q}) >> :
             e \in 0 .. Sh.E - 1 }
<1> DEFINE bins == next_power_of_2(l.E + 1)
           data(f) == IF f \in Flat(l) THEN ExpertOf(l, mem, f) ELSE bins - 1
           In(e) == {f \in Lanes(q, HistBlock) : data(f) = e}
           Of1(e) == {f \in 0 .. Pairs - 1 : Ex[f] = e /\ f \div HistBlock = q}
<1>1. Sh.E \in Nat /\ Pairs \in Nat /\ HistBlock \in Nat \ {0}
  BY JobIsLayer, MoEAssumption
<1>2. bins \in Nat /\ bins >= Sh.E + 1
  <2>1. l.E + 1 \in Nat \ {0}
    BY <1>1
  <2> QED BY <2>1, NextPower
<1>3. /\ Flat(l) = 0 .. Pairs - 1
      /\ \A f \in 0 .. Pairs - 1 : ExpertOf(l, mem, f) = Ex[f] /\ Ex[f] \in 0 .. Sh.E - 1
  BY ExpertIs
<1> HIDE DEF bins
<1>4. ASSUME NEW e \in 0 .. Sh.E - 1 PROVE In(e) = Of1(e)
  <2>1. \A f : f \in Lanes(q, HistBlock) => f \in Nat
    <3>1. q * HistBlock \in Nat
      BY <1>1
    <3> QED BY <1>1, <3>1 DEF Lanes
  <2>2. \A f \in Nat : f \in Lanes(q, HistBlock) <=> f \div HistBlock = q
    BY <1>1, LaneOf
  <2>3. e # bins - 1
    BY <1>1, <1>2
  <2>4. \A f \in In(e) : f \in Of1(e)
    BY <1>3, <2>1, <2>2, <2>3
  <2>5. \A f \in Of1(e) : f \in Nat
    BY <1>1
  <2>6. \A f \in Of1(e) : f \in In(e)
    BY <1>3, <2>2, <2>5
  <2> QED BY <2>4, <2>6
<1>5. _expert_histogram_kernel(l, <<q>>, mem) =
        { << <<"hist", e>>, Cardinality(In(e)) >> : e \in 0 .. l.E - 1 }
  <2>1. <<q>>[1] = q
    OBVIOUS
  <2> QED BY <2>1, Zenon DEF _expert_histogram_kernel, bins
<1> HIDE DEF In, Of1
<1>6. { << <<"hist", e>>, Cardinality(In(e)) >> : e \in 0 .. l.E - 1 }
       = { << <<"hist", e>>, Cardinality(Of1(e)) >> : e \in 0 .. Sh.E - 1 }
  BY <1>4
<1> QED BY <1>5, <1>6, Zenon DEF Of1

-----------------------------------------------------------------------------
\* What depends on the job alone.
LEMMA JobKept ==
  ASSUME job' = job
  PROVE  /\ Sh' = Sh /\ Pairs' = Pairs /\ Ex' = Ex /\ (MoEJob(job))' = MoEJob(job)
         /\ \A f : Cell(f)' = Cell(f)
         /\ \A i : Launch(i)' = Launch(i)
<1>1. Sh' = Sh
  BY DEF Sh
<1>2. Pairs' = Pairs
  BY <1>1 DEF Pairs
<1>3. Ex' = Ex
  BY <1>1, <1>2 DEF Ex
<1> QED BY <1>1, <1>2, <1>3 DEF Cell, Launch

\* Where a step of a program leaves the stream.
LEMMA RunFacts ==
  ASSUME Stream, at <= Len(job.launches), NEW p \in Launch(at).grid, RunProgram(p)
  PROVE  /\ job' = job /\ at' = at /\ Launch(at)' = Launch(at)
         /\ pc \in [Launch(at).grid -> Nat] /\ pc[p] < Steps(Launch(at))
         /\ pc' = [pc EXCEPT ![p] = @ + 1]
         /\ \A k : Running(k)' <=> Running(k)
         /\ Launch(at).kernel # "index" => pc[p] = 0
<1>1. /\ job' = job /\ at' = at /\ pc[p] < Steps(Launch(at)) /\ pc' = [pc EXCEPT ![p] = @ + 1]
  BY DEF RunProgram
<1>2. pc \in [Launch(at).grid -> Nat]
  BY DEF Stream
<1>3. Launch(at)' = Launch(at) /\ \A k : Running(k)' <=> Running(k)
  BY <1>1 DEF Launch, Running
<1>4. Launch(at).kernel # "index" => pc[p] = 0
  <2>1. pc[p] \in Nat
    BY <1>2
  <2> QED BY <1>1, <2>1 DEF Steps
<1> QED BY <1>1, <1>2, <1>3, <1>4

\* A program leaves the inputs.
LEMMA RunInputs ==
  ASSUME InputsKept, NEW p \in Launch(at).grid, RunProgram(p)
  PROVE  InputsKept'
<1>1. job' = job
  BY DEF RunProgram
<1>2. ASSUME NEW x \in {"eidx", "x", "gout", "gate"}, NEW i, NEW j
      PROVE  Load(mem', <<x, i, j>>) = Load(mem, <<x, i, j>>)
  <2>1. <<x, i, j>>[1] \notin {"hist", "cumcopy"}
    OBVIOUS
  <2> QED BY <2>1, RunLeaves
<1> QED BY <1>1, <1>2 DEF InputsKept

\* The histogram counts the lanes of the program that has run.
LEMMA RunHistogram ==
  ASSUME Stream, MoEJob(job), at <= Len(job.launches), InputsKept, Histogram,
         NEW p \in Launch(at).grid, RunProgram(p)
  PROVE  Histogram'
<1> DEFINE l == Launch(at)
           S(e) == {f \in 0 .. Pairs - 1 : Ex[f] = e /\ Counted(f)}
<1>1. /\ job' = job /\ at' = at /\ pc \in [l.grid -> Nat] /\ pc' = [pc EXCEPT ![p] = @ + 1]
      /\ \A k : Running(k)' <=> Running(k)
      /\ l.kernel # "index" => pc[p] = 0
  BY RunFacts
<1>2. Sh' = Sh /\ Pairs' = Pairs /\ Ex' = Ex
  BY <1>1, JobKept
<1>3. Ready("hist")' <=> Ready("hist")
  BY ReadyRun
<1>4. /\ LayerLaunch(Sh, l) /\ \A x \in Makes(l) : ~ Ready(x)
  BY LaunchOfLayer
<1>5. l.T = Sh.T /\ l.topk = Sh.topk /\ l.E = Sh.E
  BY <1>4 DEF LayerLaunch
<1>6. Pairs \in Nat /\ Sh.E \in Nat /\ HistBlock \in Nat \ {0} /\ Ex \in [0 .. Pairs - 1 -> 0 .. Sh.E - 1]
  BY JobIsLayer, MoEAssumption DEF Routing
<1>7. CASE l.kernel = "histogram"
  <2>1. PICK q \in 0 .. Cdiv(Pairs, HistBlock) - 1 : p = <<q>>
    BY <1>4, <1>7 DEF LayerLaunch, LaunchForm, TorchOps, Pairs
  <2>2. l.grid = {<<i>> : i \in 0 .. Cdiv(Pairs, HistBlock) - 1}
    BY <1>4, <1>7 DEF LayerLaunch, LaunchForm, TorchOps, Pairs
  <2>3. ~ Ready("hist") /\ Running("histogram")
    BY <1>4, <1>7 DEF Makes, Running
  <2>4. \A f \in 0 .. Pairs - 1 : <<f \div HistBlock>> \in l.grid
    BY <1>6, <2>2, TileOf
  <2>5. ASSUME NEW f \in 0 .. Pairs - 1
        PROVE  /\ Counted(f)' <=> Counted(f) \/ f \div HistBlock = q
               /\ ~ (Counted(f) /\ f \div HistBlock = q)
    <3> DEFINE t == f \div HistBlock
    <3>1. <<t>> \in l.grid
      BY <2>4
    <3>2. t = q => <<t>> = p
      BY <2>1
    <3>3. t # q => <<t>> # p
      BY <2>1
    <3>4. Counted(f) <=> pc[<<t>>] = 1
      BY <2>3 DEF Counted
    <3>5. Counted(f)' <=> pc'[<<t>>] = 1
      BY <1>1, <1>3, <2>3 DEF Counted
    <3>6. pc[p] = 0 /\ pc'[p] = 1
      BY <1>1, <1>7
    <3>7. t # q => pc'[<<t>>] = pc[<<t>>]
      BY <1>1, <3>1, <3>3
    <3> HIDE DEF t
    <3> QED BY <3>2, <3>4, <3>5, <3>6, <3>7 DEF t
  <2>6. ASSUME NEW e \in 0 .. Sh.E - 1
        PROVE  <<"hist", e>> \in DOMAIN mem' /\ mem'[<<"hist", e>>] = Cardinality(S(e)')
    <3> DEFINE D == {f \in 0 .. Pairs - 1 : Ex[f] = e /\ f \div HistBlock = q}
               A == Added(l, p, pc[p], mem)
    <3>1. S(e)' = S(e) \cup D /\ S(e) \cap D = {}
      BY <1>2, <2>5
    <3>2. S(e) \in SUBSET (0 .. Pairs - 1) /\ D \in SUBSET (0 .. Pairs - 1)
      OBVIOUS
    <3>3. A = { << <<"hist", x>>, Cardinality({f \in 0 .. Pairs - 1 : Ex[f] = x /\ f \div HistBlock = q}) >> :
                x \in 0 .. Sh.E - 1 }
      <4>1. A = _expert_histogram_kernel(l, <<q>>, mem)
        BY <1>7, <2>1 DEF Added
      <4>2. q \in Nat
        BY <2>1
      <4> HIDE DEF A, l
      <4> QED BY <1>5, <4>1, <4>2, HistogramLanes
    <3>4. << <<"hist", e>>, Cardinality(D) >> \in A
      BY <3>3
    <3>5. \A a \in A : a[1] = <<"hist", e>> => a[2] = Cardinality(D)
      <4> SUFFICES ASSUME NEW a \in A, a[1] = <<"hist", e>> PROVE a[2] = Cardinality(D)
        OBVIOUS
      <4>1. PICK x \in 0 .. Sh.E - 1 :
              a = << <<"hist", x>>, Cardinality({f \in 0 .. Pairs - 1 : Ex[f] = x /\ f \div HistBlock = q}) >>
        BY <3>3
      <4>2. x = e
        BY <4>1
      <4> QED BY <4>1, <4>2
    <3>6. <<"hist", e>> \in DOMAIN mem /\ mem[<<"hist", e>>] = Cardinality(S(e))
      BY DEF Histogram
    <3>7. mem' = AtomicAdd(A, mem)
      BY DEF RunProgram
    <3> HIDE DEF S, A, D
    <3>8. mem'[<<"hist", e>>] = mem[<<"hist", e>>] + Cardinality(D) /\ <<"hist", e>> \in DOMAIN mem'
      BY <3>4, <3>5, <3>6, <3>7, AddedTo, AddKeeps
    <3>9. Cardinality(S(e) \cup D) = Cardinality(S(e)) + Cardinality(D)
      <4>1. Pairs \in Nat /\ S(e) \cap D = {}
        BY <1>6, <3>1
      <4> QED BY ONLY <4>1, <3>2, CountSplit
    <3> QED BY <3>1, <3>6, <3>8, <3>9
  <2> QED BY <1>2, <2>6 DEF Histogram
<1>8. CASE l.kernel # "histogram"
  <2>1. \A f : Counted(f)' <=> Counted(f)
    BY <1>1, <1>3, <1>8 DEF Counted, Running
  <2>2. \A e : S(e)' = S(e)
    BY <1>2, <2>1
  <2>3. \A e : /\ Load(mem', <<"hist", e>>) = Load(mem, <<"hist", e>>)
               /\ <<"hist", e>> \in DOMAIN mem' <=> <<"hist", e>> \in DOMAIN mem
    <3> TAKE e
    <3>1. <<"hist", e>>[1] = "hist"
      OBVIOUS
    <3> QED BY <1>8, <3>1, RunLeaves
  <2>4. ASSUME NEW e \in 0 .. Sh.E - 1
        PROVE  <<"hist", e>> \in DOMAIN mem' /\ mem'[<<"hist", e>>] = Cardinality(S(e)')
    <3>1. <<"hist", e>> \in DOMAIN mem /\ mem[<<"hist", e>>] = Cardinality(S(e))
      BY DEF Histogram
    <3> HIDE DEF S
    <3> QED BY <2>2, <2>3, <3>1 DEF Load
  <2> QED BY <1>2, <2>4 DEF Histogram
<1> QED BY <1>7, <1>8

\* Cells of a tensor that is no counter survive a program.
LEMMA RunCells ==
  ASSUME NEW p \in Launch(at).grid, RunProgram(p), NEW x, x \notin {"hist", "cumcopy"}
  PROVE  /\ \A i : Load(mem', <<x, i>>) = Load(mem, <<x, i>>)
         /\ \A i, j : /\ Load(mem', <<x, i, j>>) = Load(mem, <<x, i, j>>)
                      /\ <<x, i, j>> \in DOMAIN mem' <=> <<x, i, j>> \in DOMAIN mem
         /\ \A i, j, k : Load(mem', <<x, i, j, k>>) = Load(mem, <<x, i, j, k>>)
<1>1. \A i : <<x, i>>[1] = x
  OBVIOUS
<1>2. \A i, j : <<x, i, j>>[1] = x
  OBVIOUS
<1>3. \A i, j, k : <<x, i, j, k>>[1] = x
  OBVIOUS
<1> QED BY <1>1, <1>2, <1>3, RunLeaves

\* A program leaves the rows of a dispatch that is made.
LEMMA RunRows ==
  ASSUME Rows, NEW p \in Launch(at).grid, RunProgram(p)
  PROVE  Rows'
<1>1. job' = job
  BY DEF RunProgram
<1>2. Sh' = Sh /\ Pairs' = Pairs /\ Ex' = Ex
  BY <1>1, JobKept
<1>3. Ready("sidx")' <=> Ready("sidx")
  BY ReadyRun
<1>4. "sidx" \notin {"hist", "cumcopy"}
  OBVIOUS
<1>5. \A i, j : /\ Load(mem', <<"sidx", i, j>>) = Load(mem, <<"sidx", i, j>>)
                /\ <<"sidx", i, j>> \in DOMAIN mem' <=> <<"sidx", i, j>> \in DOMAIN mem
  BY ONLY <1>4, p \in Launch(at).grid, RunProgram(p), RunCells
<1>6. Row' = Row
  BY <1>2, <1>5 DEF Row, Sidx
<1> QED BY <1>2, <1>3, <1>5, <1>6 DEF Rows

\* A program leaves the cumulative counts.
LEMMA RunCumulative ==
  ASSUME Cumulative, NEW p \in Launch(at).grid, RunProgram(p)
  PROVE  Cumulative'
<1>1. job' = job
  BY DEF RunProgram
<1>2. Sh' = Sh /\ Pairs' = Pairs /\ Ex' = Ex
  BY <1>1, JobKept
<1>3. Ready("cum")' <=> Ready("cum")
  BY ReadyRun
<1>4. "cum" \notin {"hist", "cumcopy"}
  OBVIOUS
<1>5. \A i : Load(mem', <<"cum", i>>) = Load(mem, <<"cum", i>>)
  BY ONLY <1>4, p \in Launch(at).grid, RunProgram(p), RunCells
<1> QED BY <1>2, <1>3, <1>5 DEF Cumulative

\* The pairs of expert e among the lanes of program q.
Mine(q, e) == {f \in 0 .. Pairs - 1 : Ex[f] = e /\ f \div IndexBlock = q}

\* One step of a program of the index kernel: it takes the expert pc[p], and lowers
\* the expert's counter by the number of its own pairs.
LEMMA IndexRun ==
  ASSUME Stream, MoEJob(job), at <= Len(job.launches), InputsKept, Counters,
         NEW p \in Launch(at).grid, RunProgram(p), Launch(at).kernel = "index"
  PROVE  /\ p = <<p[1]>> /\ p[1] \in Nat /\ pc[p] \in 0 .. Sh.E - 1
         /\ IndexLanes(Launch(at), p, pc[p], mem) = Mine(p[1], pc[p])
         /\ \A f \in 0 .. Pairs - 1 : /\ Reserved(f)' <=> Reserved(f) \/ f \in Mine(p[1], pc[p])
                                      /\ ~ (Reserved(f) /\ f \in Mine(p[1], pc[p]))
         /\ \A e \in 0 .. Sh.E - 1 :
              /\ <<"cumcopy", e>> \in DOMAIN mem /\ <<"cumcopy", e>> \in DOMAIN mem'
              /\ mem[<<"cumcopy", e>>] = Cardinality(UpTo(Pairs, Ex, e))
                                          - Cardinality({f \in 0 .. Pairs - 1 : Ex[f] = e /\ Reserved(f)})
              /\ e # pc[p] => mem'[<<"cumcopy", e>>] = mem[<<"cumcopy", e>>]
         /\ mem'[<<"cumcopy", pc[p]>>] = mem[<<"cumcopy", pc[p]>>] + (- Cardinality(Mine(p[1], pc[p])))
         /\ ~ Ready("sidx") /\ Ready("cumcopy") /\ Running("index")
<1> DEFINE l == Launch(at)
           q == p[1]
           x == pc[p]
           M == Mine(q, x)
<1>1. /\ job' = job /\ at' = at /\ pc \in [l.grid -> Nat] /\ pc' = [pc EXCEPT ![p] = @ + 1]
      /\ (\A k : Running(k)' <=> Running(k)) /\ x < Steps(l)
  BY RunFacts
<1>2. Sh' = Sh /\ Pairs' = Pairs /\ Ex' = Ex
  BY <1>1, JobKept
<1>3. LayerLaunch(Sh, l) /\ (\A y \in Makes(l) : ~ Ready(y)) /\ \A y \in Needs(l) : Ready(y)
  BY LaunchOfLayer
<1>4. l.T = Sh.T /\ l.topk = Sh.topk /\ l.E = Sh.E
  BY <1>3 DEF LayerLaunch
<1>5. Pairs \in Nat /\ Sh.E \in Nat /\ IndexBlock \in Nat \ {0} /\ Ex \in [0 .. Pairs - 1 -> 0 .. Sh.E - 1]
  BY JobIsLayer, MoEAssumption DEF Routing
<1>6. l.grid = {<<i>> : i \in 0 .. Cdiv(Pairs, IndexBlock) - 1}
  BY <1>3 DEF LayerLaunch, LaunchForm, TorchOps, Pairs
<1>7. p = <<q>> /\ q \in Nat
  <2>1. PICK i \in 0 .. Cdiv(Pairs, IndexBlock) - 1 : p = <<i>>
    BY <1>6
  <2> QED BY <2>1
<1>8. x \in 0 .. Sh.E - 1
  BY <1>1, <1>4, <1>5 DEF Steps
<1>9. ~ Ready("sidx") /\ Ready("cumcopy") /\ Running("index")
  BY <1>3 DEF Makes, Needs, Running
<1>10. IndexLanes(l, p, x, mem) = M
  <2>1. /\ Flat(l) = 0 .. Pairs - 1
        /\ \A f \in 0 .. Pairs - 1 : ExpertOf(l, mem, f) = Ex[f] /\ Ex[f] \in 0 .. Sh.E - 1
    BY <1>4, ExpertIs
  <2>2. \A f \in 0 .. Pairs - 1 : f \in Lanes(q, IndexBlock) <=> f \div IndexBlock = q
    BY <1>5, <1>7, LaneOf
  <2> HIDE DEF q, x, l
  <2> QED BY <2>1, <2>2 DEF IndexLanes, Mine, q
<1>11. ASSUME NEW f \in 0 .. Pairs - 1
       PROVE  /\ Reserved(f)' <=> Reserved(f) \/ f \in M
              /\ ~ (Reserved(f) /\ f \in M)
  <2> DEFINE t == f \div IndexBlock
  <2>1. <<t>> \in l.grid
    BY <1>5, <1>6, TileOf
  <2>2. Reserved(f) <=> Ex[f] < pc[<<t>>]
    BY <1>9 DEF Reserved
  <2>3. Reserved(f)' <=> Ex[f] < pc'[<<t>>]
    BY <1>1, <1>2, <1>9 DEF Reserved
  <2>4. f \in M <=> Ex[f] = x /\ t = q
    BY DEF Mine
  <2>5. (t = q <=> <<t>> = p) /\ Ex[f] \in Nat
    BY <1>5, <1>7
  <2>6. CASE t = q
    <3>1. pc[<<t>>] = x /\ pc'[<<t>>] = x + 1 /\ x \in Nat
      BY <1>1, <2>5, <2>6
    <3> HIDE DEF x, q, t, M
    <3> QED BY <2>2, <2>3, <2>4, <2>5, <2>6, <3>1
  <2>7. CASE t # q
    <3>1. pc'[<<t>>] = pc[<<t>>]
      BY <1>1, <2>1, <2>5, <2>7
    <3> HIDE DEF x, q, t, M
    <3> QED BY <2>2, <2>3, <2>4, <2>7, <3>1
  <2> QED BY <2>6, <2>7
<1>12. \A e \in 0 .. Sh.E - 1 :
         /\ <<"cumcopy", e>> \in DOMAIN mem
         /\ mem[<<"cumcopy", e>>] = Cardinality(UpTo(Pairs, Ex, e))
                                     - Cardinality({f \in 0 .. Pairs - 1 : Ex[f] = e /\ Reserved(f)})
  BY <1>9 DEF Counters
<1> DEFINE A == Added(l, p, x, mem)
<1>13. A = {<< <<"cumcopy", x>>, -Cardinality(M) >>} /\ mem' = AtomicAdd(A, mem)
  <2>1. A = {<< <<"cumcopy", x>>, -Cardinality(IndexLanes(l, p, x, mem)) >>}
    BY DEF Added, _moe_index_compute_add
  <2>2. mem' = AtomicAdd(A, mem)
    BY DEF RunProgram
  <2> QED BY <1>10, <2>1, <2>2
<1> HIDE DEF A, M, x, q, l
<1>14. mem'[<<"cumcopy", x>>] = mem[<<"cumcopy", x>>] + (-Cardinality(M))
  <2>1. << <<"cumcopy", x>>, -Cardinality(M) >> \in A /\ \A a \in A : a[1] = <<"cumcopy", x>> => a[2] = -Cardinality(M)
    BY <1>13
  <2>2. <<"cumcopy", x>> \in DOMAIN mem
    BY <1>8, <1>12
  <2> DEFINE v == -Cardinality(M)
  <2>3. << <<"cumcopy", x>>, v >> \in A /\ \A a \in A : a[1] = <<"cumcopy", x>> => a[2] = v
    BY <2>1
  <2> HIDE DEF v
  <2>4. AtomicAdd(A, mem)[<<"cumcopy", x>>] = mem[<<"cumcopy", x>>] + v
    BY ONLY <2>2, <2>3, AddedTo
  <2> QED BY <1>13, <2>4 DEF v
<1>15. ASSUME NEW e \in 0 .. Sh.E - 1
       PROVE  /\ <<"cumcopy", e>> \in DOMAIN mem'
              /\ e # x => mem'[<<"cumcopy", e>>] = mem[<<"cumcopy", e>>]
  <2>1. <<"cumcopy", e>> \in DOMAIN mem'
    BY <1>12, <1>13, AddKeeps
  <2>2. e # x => \A a \in A : a[1] # <<"cumcopy", e>>
    BY <1>13
  <2>3. e # x => Load(mem', <<"cumcopy", e>>) = Load(mem, <<"cumcopy", e>>)
    BY <1>13, <2>2, AddElsewhere
  <2> QED BY <1>12, <2>1, <2>3 DEF Load
<1> QED BY <1>7, <1>8, <1>9, <1>10, <1>11, <1>12, <1>14, <1>15 DEF M, x, q, l

\* The counters stay what is left of each expert.
LEMMA RunCounters ==
  ASSUME Stream, MoEJob(job), at <= Len(job.launches), InputsKept, Counters,
         NEW p \in Launch(at).grid, RunProgram(p)
  PROVE  Counters'
<1> DEFINE S(e) == {f \in 0 .. Pairs - 1 : Ex[f] = e /\ Reserved(f)}
<1>1. job' = job /\ at' = at /\ \A k : Running(k)' <=> Running(k)
  BY RunFacts
<1>2. Sh' = Sh /\ Pairs' = Pairs /\ Ex' = Ex
  BY <1>1, JobKept
<1>3. (Ready("sidx")' <=> Ready("sidx")) /\ (Ready("cumcopy")' <=> Ready("cumcopy"))
  BY ReadyRun
<1>4. Pairs \in Nat
  BY JobIsLayer
<1>5. CASE Launch(at).kernel = "index"
  <2>0. PICK x, M : x = pc[p] /\ M = Mine(p[1], x)
    OBVIOUS
  <2>1. /\ x \in 0 .. Sh.E - 1
        /\ \A f \in 0 .. Pairs - 1 : (Reserved(f)' <=> Reserved(f) \/ f \in M) /\ ~ (Reserved(f) /\ f \in M)
        /\ \A e \in 0 .. Sh.E - 1 :
             /\ <<"cumcopy", e>> \in DOMAIN mem'
             /\ mem[<<"cumcopy", e>>] = Cardinality(UpTo(Pairs, Ex, e)) - Cardinality(S(e))
             /\ e # x => mem'[<<"cumcopy", e>>] = mem[<<"cumcopy", e>>]
        /\ mem'[<<"cumcopy", x>>] = mem[<<"cumcopy", x>>] + (- Cardinality(M))
    BY <1>5, <2>0, IndexRun
  <2>2. \A f : f \in M <=> f \in 0 .. Pairs - 1 /\ Ex[f] = x /\ f \div IndexBlock = p[1]
    BY <2>0 DEF Mine
  <2>3. \A e \in 0 .. Sh.E - 1 : e # x => S(e)' = S(e)
    BY <1>2, <2>1, <2>2
  <2>4. S(x)' = S(x) \cup M /\ S(x) \cap M = {}
    BY <1>2, <2>1, <2>2
  <2>5. S(x) \in SUBSET (0 .. Pairs - 1) /\ M \in SUBSET (0 .. Pairs - 1)
    BY <2>2
  <2> HIDE DEF S
  <2>6. Cardinality(S(x) \cup M) = Cardinality(S(x)) + Cardinality(M)
        /\ Cardinality(S(x)) \in 0 .. Pairs /\ Cardinality(M) \in 0 .. Pairs
    <3>1. Pairs \in Nat /\ S(x) \in SUBSET (0 .. Pairs - 1) /\ M \in SUBSET (0 .. Pairs - 1) /\ S(x) \cap M = {}
      BY ONLY <1>4, <2>4, <2>5
    <3> QED BY ONLY <3>1, CountSplit, ZenonT(60)
  <2>7. Cardinality(UpTo(Pairs, Ex, x)) \in Nat
    BY <2>1, JobIsLayer, UpToSplit
  <2>8. ASSUME NEW e \in 0 .. Sh.E - 1
        PROVE  <<"cumcopy", e>> \in DOMAIN mem' /\
               mem'[<<"cumcopy", e>>] = Cardinality(UpTo(Pairs, Ex, e)) - Cardinality(S(e)')
    <3>1. CASE e # x
      BY <2>1, <2>3, <3>1
    <3>2. CASE e = x
      <4>1. mem[<<"cumcopy", x>>] = Cardinality(UpTo(Pairs, Ex, x)) - Cardinality(S(x))
        BY <2>1
      <4>2. mem'[<<"cumcopy", x>>] = Cardinality(UpTo(Pairs, Ex, x)) - Cardinality(S(x)')
        BY <2>1, <2>4, <2>6, <2>7, <4>1
      <4> QED BY <2>1, <3>2, <4>2
    <3> QED BY <3>1, <3>2
  <2> QED BY <1>2, <2>8 DEF Counters, S
<1>6. CASE Launch(at).kernel # "index"
  <2>1. \A f : ~ Reserved(f) /\ ~ Reserved(f)'
    BY <1>1, <1>6 DEF Reserved, Running
  <2>2. \A e : S(e)' = S(e)
    BY <1>2, <2>1
  <2>3. \A e : /\ Load(mem', <<"cumcopy", e>>) = Load(mem, <<"cumcopy", e>>)
               /\ <<"cumcopy", e>> \in DOMAIN mem' <=> <<"cumcopy", e>> \in DOMAIN mem
    <3> TAKE e
    <3>1. <<"cumcopy", e>>[1] = "cumcopy"
      OBVIOUS
    <3> QED BY <1>6, <3>1, RunLeaves
  <2>4. ASSUME Ready("cumcopy"), ~ Ready("sidx"), NEW e \in 0 .. Sh.E - 1
        PROVE  <<"cumcopy", e>> \in DOMAIN mem' /\
               mem'[<<"cumcopy", e>>] = Cardinality(UpTo(Pairs, Ex, e)) - Cardinality(S(e)')
    <3>1. <<"cumcopy", e>> \in DOMAIN mem /\
          mem[<<"cumcopy", e>>] = Cardinality(UpTo(Pairs, Ex, e)) - Cardinality(S(e))
      BY <2>4 DEF Counters
    <3> HIDE DEF S
    <3> QED BY <2>2, <2>3, <3>1 DEF Load
  <2> QED BY <1>2, <1>3, <2>4 DEF Counters
<1> QED BY <1>5, <1>6

\* The rows of different experts are apart.
LEMMA ExpertsApart ==
  ASSUME NEW n, NEW E, NEW ex, Routing(n, E, ex), NEW d \in Int, NEW e \in Int, d < e
  PROVE  Cardinality(UpTo(n, ex, d)) <= Cardinality(Under(n, ex, e))
<1>1. n \in Nat /\ ex \in [0 .. n - 1 -> 0 .. E - 1] /\ E \in Nat
  BY DEF Routing
<1>2. UpTo(n, ex, d) \in SUBSET Under(n, ex, e) /\ Under(n, ex, e) \in SUBSET (0 .. n - 1)
  BY <1>1 DEF UpTo, Under
<1> QED BY <1>1, <1>2, CountSubset

\* What is left of an expert is not less than what the experts before it have.
LEMMA LeftOver ==
  ASSUME NEW n, NEW E, NEW ex, Routing(n, E, ex), NEW e \in Int, NEW S \in SUBSET Of(n, ex, e)
  PROVE  /\ Cardinality(S) \in Nat /\ Cardinality(UpTo(n, ex, e)) \in Nat /\ Cardinality(Under(n, ex, e)) \in Nat
         /\ Cardinality(Under(n, ex, e)) <= Cardinality(UpTo(n, ex, e)) - Cardinality(S)
<1>1. n \in Nat /\ Of(n, ex, e) \in SUBSET (0 .. n - 1)
  BY DEF Routing, Of
<1>2. Cardinality(S) <= Cardinality(Of(n, ex, e)) /\ Cardinality(S) \in 0 .. n
  BY <1>1, CountSubset
<1>3. /\ Cardinality(UpTo(n, ex, e)) = Cardinality(Under(n, ex, e)) + Cardinality(Of(n, ex, e))
      /\ Cardinality(UpTo(n, ex, e)) \in 0 .. n /\ Cardinality(Under(n, ex, e)) \in 0 .. n
      /\ Cardinality(Of(n, ex, e)) \in 0 .. n
  BY UpToSplit
<1> QED BY <1>1, <1>2, <1>3

\* The rows reserved stay distinct and inside their expert, whatever the order in
\* which the programs reserve them.
LEMMA RunReservations ==
  ASSUME Stream, MoEJob(job), at <= Len(job.launches), InputsKept, Counters, Reservations,
         NEW p \in Launch(at).grid, RunProgram(p)
  PROVE  Reservations'
<1>1. job' = job /\ at' = at /\ \A k : Running(k)' <=> Running(k)
  BY RunFacts
<1>2. Sh' = Sh /\ Pairs' = Pairs /\ Ex' = Ex /\ \A f : Cell(f)' = Cell(f)
  BY <1>1, JobKept
<1>3. Routing(Pairs, Sh.E, Ex) /\ Pairs \in Nat /\ Sh.E \in Nat /\ Ex \in [0 .. Pairs - 1 -> 0 .. Sh.E - 1]
  BY JobIsLayer DEF Routing
<1>4. CASE Launch(at).kernel # "index"
  BY <1>1, <1>4 DEF Reservations, Running
<1>5. CASE Launch(at).kernel = "index"
  <2>0. PICK x, M, K, S : /\ x = pc[p] /\ M = Mine(p[1], x) /\ K = mem[<<"cumcopy", x>>]
                          /\ S = {f \in 0 .. Pairs - 1 : Ex[f] = x /\ Reserved(f)}
    OBVIOUS
  <2>1. /\ x \in 0 .. Sh.E - 1
        /\ IndexLanes(Launch(at), p, x, mem) = M
        /\ \A f \in 0 .. Pairs - 1 : (Reserved(f)' <=> Reserved(f) \/ f \in M) /\ ~ (Reserved(f) /\ f \in M)
        /\ <<"cumcopy", x>> \in DOMAIN mem
        /\ mem'[<<"cumcopy", x>>] = K + (- Cardinality(M))
        /\ Running("index")
    BY <1>5, <2>0, IndexRun
  <2>2. \A e \in 0 .. Sh.E - 1 : e # x => mem'[<<"cumcopy", e>>] = mem[<<"cumcopy", e>>]
    BY <1>5, <2>0, IndexRun
  <2>3. ASSUME NEW e \in 0 .. Sh.E - 1
        PROVE  mem[<<"cumcopy", e>>] \in Int /\ Cardinality(Under(Pairs, Ex, e)) <= mem[<<"cumcopy", e>>]
    <3> DEFINE R == {f \in 0 .. Pairs - 1 : Ex[f] = e /\ Reserved(f)}
    <3>1. mem[<<"cumcopy", e>>] = Cardinality(UpTo(Pairs, Ex, e)) - Cardinality(R)
      BY <1>5, IndexRun
    <3>2. R \in SUBSET Of(Pairs, Ex, e) /\ e \in Int
      BY DEF Of
    <3> HIDE DEF R
    <3> QED BY <1>3, <3>1, <3>2, LeftOver
  <2>4. \A f : f \in M <=> f \in 0 .. Pairs - 1 /\ Ex[f] = x /\ f \div IndexBlock = p[1]
    BY <2>0 DEF Mine
  <2>5. /\ M \in SUBSET (0 .. Pairs - 1) /\ S \in SUBSET (0 .. Pairs - 1) /\ S \cap M = {}
        /\ S \cup M \in SUBSET Of(Pairs, Ex, x)
    BY <2>0, <2>1, <2>4 DEF Of
  <2>6. /\ Cardinality(S \cup M) = Cardinality(S) + Cardinality(M)
        /\ Cardinality(S) \in Nat /\ Cardinality(M) \in Nat
    <3>1. Pairs \in Nat
      BY <1>3
    <3>2. M \in SUBSET (0 .. Pairs - 1) /\ S \in SUBSET (0 .. Pairs - 1) /\ S \cap M = {}
      BY <2>5
    <3>3. /\ Cardinality(S \cup M) = Cardinality(S) + Cardinality(M)
          /\ Cardinality(S) \in 0 .. Pairs /\ Cardinality(M) \in 0 .. Pairs
      BY ONLY <3>1, <3>2, CountSplit
    <3> QED BY ONLY <3>3
  <2>7. /\ K = Cardinality(UpTo(Pairs, Ex, x)) - Cardinality(S)
        /\ Cardinality(UpTo(Pairs, Ex, x)) \in Nat /\ Cardinality(Under(Pairs, Ex, x)) \in Nat
        /\ Cardinality(Under(Pairs, Ex, x)) <= K - Cardinality(M)
        /\ K <= Cardinality(UpTo(Pairs, Ex, x)) /\ K \in Int
    <3>1. K = Cardinality(UpTo(Pairs, Ex, x)) - Cardinality(S)
      BY <1>5, <2>0, <2>1, IndexRun
    <3>2. x \in Int
      BY <2>1
    <3>3. /\ Cardinality(UpTo(Pairs, Ex, x)) \in Nat /\ Cardinality(Under(Pairs, Ex, x)) \in Nat
          /\ Cardinality(Under(Pairs, Ex, x)) <= Cardinality(UpTo(Pairs, Ex, x)) - Cardinality(S \cup M)
      BY ONLY <1>3, <2>5, <3>2, LeftOver
    <3> QED BY ONLY <2>6, <3>1, <3>3
  <2> DEFINE num == [f \in M |-> Cardinality({g \in M : g <= f})]
             slot == [f \in M |-> K - Cardinality(M) + num[f] - 1]
  <2>8. /\ \A f \in M : num[f] \in 1 .. Cardinality(M)
        /\ \A f, h \in M : f # h => num[f] # num[h]
    <3>1. M \in SUBSET (0 .. Pairs - 1) /\ Pairs \in Nat
      BY <1>3, <2>5
    <3>2. /\ \A f \in M : Cardinality({g \in M : g <= f}) \in 1 .. Cardinality(M)
          /\ \A f, h \in M : f # h => Cardinality({g \in M : g <= f}) # Cardinality({g \in M : g <= h})
      BY ONLY <3>1, Numbering
    <3> QED BY ONLY <3>2
  <2>9. stores' = stores \cup {<<Cell(f), slot[f]>> : f \in M}
    <3>1. stores' = stores \cup _moe_index_compute_kernel(Launch(at), p, x, mem)
      BY <1>5, <2>0 DEF RunProgram, Stored
    <3>2. K = Load(mem, <<"cumcopy", x>>)
      BY <2>0, <2>1 DEF Load
    <3>3. Launch(at).T = Sh.T /\ Launch(at).topk = Sh.topk
      BY LaunchOfLayer DEF LayerLaunch
    <3>4. _moe_index_compute_kernel(Launch(at), p, x, mem) =
            { <<Cell(f), K - Cardinality(M) + Cardinality({g \in M : g <= f}) - 1>> : f \in M }
      <4>1. IndexLanes(Launch(at), p, x, mem) = M
        BY <2>1
      <4>2. PICK l : l = Launch(at)
        OBVIOUS
      <4>3. l.T = Sh.T /\ l.topk = Sh.topk /\ IndexLanes(l, p, x, mem) = M
        BY <3>3, <4>1, <4>2
      <4>4. _moe_index_compute_kernel(l, p, x, mem) =
              { <<Cell(f), K - Cardinality(M) + Cardinality({g \in M : g <= f}) - 1>> : f \in M }
        BY ONLY <3>2, <4>3, Zenon DEF _moe_index_compute_kernel, Cell
      <4> QED BY ONLY <4>2, <4>4, Zenon
    <3>5. \A f \in M : slot[f] = K - Cardinality(M) + Cardinality({g \in M : g <= f}) - 1
      OBVIOUS
    <3> HIDE DEF slot
    <3> QED BY <3>1, <3>4, <3>5
  <2>10. \A f \in M : /\ slot[f] \in Int /\ K - Cardinality(M) <= slot[f] /\ slot[f] < K
                      /\ Cardinality(Under(Pairs, Ex, x)) <= slot[f] /\ slot[f] < Cardinality(UpTo(Pairs, Ex, x))
    <3> TAKE f \in M
    <3>1. num[f] \in 1 .. Cardinality(M)
      BY <2>8
    <3>2. slot[f] = K - Cardinality(M) + num[f] - 1
      OBVIOUS
    <3> HIDE DEF num, slot
    <3>3. Cardinality(M) \in Nat /\ num[f] \in Int /\ 1 <= num[f] /\ num[f] <= Cardinality(M)
      BY ONLY <2>6, <3>1
    <3> QED BY ONLY <2>7, <3>2, <3>3
  <2>11. \A f, h \in M : slot[f] = slot[h] => f = h
    <3> SUFFICES ASSUME NEW f \in M, NEW h \in M, slot[f] = slot[h], f # h PROVE FALSE
      OBVIOUS
    <3>1. num[f] \in 1 .. Cardinality(M) /\ num[h] \in 1 .. Cardinality(M) /\ num[f] # num[h]
      BY <2>8
    <3>2. slot[f] = K - Cardinality(M) + num[f] - 1 /\ slot[h] = K - Cardinality(M) + num[h] - 1
      OBVIOUS
    <3>3. slot[f] = slot[h]
      OBVIOUS
    <3> HIDE DEF num, slot
    <3>4. K \in Int /\ Cardinality(M) \in Nat
      BY <2>6, <2>7
    <3> QED BY ONLY <3>1, <3>2, <3>3, <3>4
  <2> HIDE DEF num, slot
  <2>12. /\ \A f \in 0 .. Pairs - 1 : Reserved(f) => \E v : <<Cell(f), v>> \in stores
         /\ \A w \in stores :
              \E f \in 0 .. Pairs - 1 :
                /\ Reserved(f) /\ w = <<Cell(f), w[2]>> /\ w[2] \in Int
                /\ mem[<<"cumcopy", Ex[f]>>] <= w[2] /\ w[2] < Cardinality(UpTo(Pairs, Ex, Ex[f]))
         /\ \A w, z \in stores : w[1] = z[1] \/ w[2] = z[2] => w = z
    BY <2>1 DEF Reservations
  <2>13. \A f \in 0 .. Pairs - 1 : Reserved(f)' => \E v : <<Cell(f), v>> \in stores'
    <3> SUFFICES ASSUME NEW f \in 0 .. Pairs - 1, Reserved(f)' PROVE \E v : <<Cell(f), v>> \in stores'
      OBVIOUS
    <3>1. Reserved(f) \/ f \in M
      BY <2>1
    <3>2. CASE Reserved(f)
      BY <2>9, <2>12, <3>2
    <3>3. CASE f \in M
      BY <2>9, <3>3
    <3> QED BY <3>1, <3>2, <3>3
  <2>14. ASSUME NEW w \in stores'
         PROVE  \E f \in 0 .. Pairs - 1 :
                  /\ Reserved(f)' /\ w = <<Cell(f), w[2]>> /\ w[2] \in Int
                  /\ mem'[<<"cumcopy", Ex[f]>>] <= w[2] /\ w[2] < Cardinality(UpTo(Pairs, Ex, Ex[f]))
    <3>1. CASE w \in stores
      <4>1. PICK f \in 0 .. Pairs - 1 :
              /\ Reserved(f) /\ w = <<Cell(f), w[2]>> /\ w[2] \in Int
              /\ mem[<<"cumcopy", Ex[f]>>] <= w[2] /\ w[2] < Cardinality(UpTo(Pairs, Ex, Ex[f]))
        BY <2>12, <3>1
      <4>2. Ex[f] \in 0 .. Sh.E - 1 /\ mem[<<"cumcopy", Ex[f]>>] \in Int
        BY <1>3, <2>3
      <4>3. mem'[<<"cumcopy", Ex[f]>>] <= mem[<<"cumcopy", Ex[f]>>] /\ mem'[<<"cumcopy", Ex[f]>>] \in Int
        <5>1. CASE Ex[f] = x
          <6>1. mem'[<<"cumcopy", x>>] = K - Cardinality(M) /\ mem[<<"cumcopy", x>>] = K
            BY <2>0, <2>1, <2>6, <2>7
          <6>2. K \in Int /\ Cardinality(M) \in Nat
            BY <2>6, <2>7
          <6> QED BY ONLY <5>1, <6>1, <6>2
        <5>2. CASE Ex[f] # x
          BY <2>2, <4>2, <5>2
        <5> QED BY <5>1, <5>2
      <4>4. mem'[<<"cumcopy", Ex[f]>>] <= w[2]
        BY <4>1, <4>2, <4>3
      <4> QED BY <2>1, <4>1, <4>4
    <3>2. CASE w \notin stores
      <4>1. PICK f \in M : w = <<Cell(f), slot[f]>>
        BY <2>9, <3>2
      <4>2. f \in 0 .. Pairs - 1 /\ Ex[f] = x
        BY <2>4
      <4>3. w[2] = slot[f] /\ w = <<Cell(f), w[2]>>
        BY <4>1
      <4>4. mem'[<<"cumcopy", x>>] = K - Cardinality(M)
        BY <2>1, <2>6, <2>7
      <4> QED BY <2>1, <2>10, <4>2, <4>3, <4>4
    <3> QED BY <3>1, <3>2
  <2>15. ASSUME NEW w \in stores, NEW h \in M PROVE w[1] # Cell(h) /\ w[2] # slot[h]
    <3>1. PICK f \in 0 .. Pairs - 1 :
            /\ Reserved(f) /\ w = <<Cell(f), w[2]>> /\ w[2] \in Int
            /\ mem[<<"cumcopy", Ex[f]>>] <= w[2] /\ w[2] < Cardinality(UpTo(Pairs, Ex, Ex[f]))
      BY <2>12
    <3>2. h \in 0 .. Pairs - 1 /\ Ex[h] = x
      BY <2>4
    <3>3. f # h
      BY <2>1, <3>1
    <3>4. w[1] # Cell(h)
      BY <3>1, <3>2, <3>3, CellsDiffer
    <3>5. /\ slot[h] \in Int /\ slot[h] < K /\ Cardinality(Under(Pairs, Ex, x)) <= slot[h]
          /\ slot[h] < Cardinality(UpTo(Pairs, Ex, x))
      BY <2>10
    <3>6. Ex[f] \in 0 .. Sh.E - 1
      BY <1>3
    <3>7. CASE Ex[f] = x
      <4>1. K <= w[2]
        BY <2>0, <3>1, <3>7
      <4> QED BY <2>7, <3>1, <3>4, <3>5, <4>1
    <3>8. CASE Ex[f] < x
      <4>1. Cardinality(UpTo(Pairs, Ex, Ex[f])) <= Cardinality(Under(Pairs, Ex, x))
        BY <1>3, <2>1, <3>6, <3>8, ExpertsApart
      <4>2. Cardinality(UpTo(Pairs, Ex, Ex[f])) \in Nat
        BY <1>3, <3>6, UpToSplit
      <4> QED BY <2>7, <3>1, <3>4, <3>5, <4>1, <4>2
    <3>9. CASE x < Ex[f]
      <4>1. Cardinality(UpTo(Pairs, Ex, x)) <= Cardinality(Under(Pairs, Ex, Ex[f]))
        BY <1>3, <2>1, <3>6, <3>9, ExpertsApart
      <4>2. Cardinality(Under(Pairs, Ex, Ex[f])) \in Nat
        BY <1>3, <3>6, UpToSplit
      <4>3. Cardinality(Under(Pairs, Ex, Ex[f])) <= mem[<<"cumcopy", Ex[f]>>] /\ mem[<<"cumcopy", Ex[f]>>] \in Int
        BY <2>3, <3>6
      <4> QED BY <2>7, <3>1, <3>4, <3>5, <4>1, <4>2, <4>3
    <3> QED BY <2>1, <3>6, <3>7, <3>8, <3>9
  <2>16. ASSUME NEW w \in stores', NEW z \in stores', w[1] = z[1] \/ w[2] = z[2]
         PROVE  w = z
    <3>1. CASE w \in stores /\ z \in stores
      BY <2>12, <2>16, <3>1
    <3>2. CASE w \in stores /\ z \notin stores
      <4>1. PICK h \in M : z = <<Cell(h), slot[h]>>
        BY <2>9, <3>2
      <4> QED BY <2>15, <2>16, <3>2, <4>1
    <3>3. CASE w \notin stores /\ z \in stores
      <4>1. PICK h \in M : w = <<Cell(h), slot[h]>>
        BY <2>9, <3>3
      <4> QED BY <2>15, <2>16, <3>3, <4>1
    <3>4. CASE w \notin stores /\ z \notin stores
      <4>1. PICK f \in M : w = <<Cell(f), slot[f]>>
        BY <2>9, <3>4
      <4>2. PICK h \in M : z = <<Cell(h), slot[h]>>
        BY <2>9, <3>4
      <4>3. f \in 0 .. Pairs - 1 /\ h \in 0 .. Pairs - 1
        BY <2>4
      <4>4. Cell(f) = Cell(h) \/ slot[f] = slot[h]
        BY <2>16, <4>1, <4>2
      <4>5. f = h
        BY <2>11, <4>3, <4>4, CellsDiffer
      <4> QED BY <4>1, <4>2, <4>5
    <3> QED BY <3>1, <3>2, <3>3, <3>4
  <2> QED BY <1>2, <2>13, <2>14, <2>16 DEF Reservations
<1> QED BY <1>4, <1>5

-----------------------------------------------------------------------------
\* Which launch of a layer makes which part of the dispatch.
LEMMA MakersOfDispatch ==
  ASSUME NEW s, NEW l, LayerLaunch(s, l)
  PROVE  /\ \A x \in {"eidx", "x", "gout", "gate"} : x \notin Makes(l)
         /\ "hist" \in Makes(l) <=> l.kernel = "histogram"
         /\ "cum" \in Makes(l) <=> l.kernel = "cumsum"
         /\ "cumcopy" \in Makes(l) <=> l.kernel = "clone"
         /\ "sidx" \in Makes(l) <=> l.kernel \in {"argsort", "build_indices", "index"}
<1>1. \/ l.kernel = "histogram" \/ l.kernel = "index" \/ l.kernel = "argsort" \/ l.kernel = "build_indices"
      \/ l.kernel = "cumsum" \/ l.kernel = "clone" \/ l.kernel = "activation" \/ l.kernel = "activation_grad"
      \/ l.kernel = "grad_sum" \/ l.kernel \in {"scatter", "gather", "gemm_nk", "gemm_mn", "quack", "quack_k"}
  BY DEF LayerLaunch, LaunchForm, TorchOps
<1>2. CASE l.kernel \in {"scatter", "gather", "gemm_nk", "gemm_mn", "quack", "quack_k"}
  BY <1>2 DEF LayerLaunch, LaunchForm, TorchOps, Makes, RowProducts, WeightProducts
<1>3. CASE l.kernel \notin {"scatter", "gather", "gemm_nk", "gemm_mn", "quack", "quack_k"}
  BY <1>1, <1>3 DEF Makes
<1> QED BY <1>2, <1>3

\* Where the end of a launch leaves the stream.
LEMMA FinishFacts ==
  ASSUME Stream, MoEJob(job), at <= Len(job.launches), FinishLaunch
  PROVE  /\ job' = job /\ at' = at + 1 /\ stores' = {}
         /\ \A f \in 0 .. Pairs - 1 : ~ Reserved(f)' /\ (Counted(f)' <=> Ready("hist")')
<1> DEFINE n == at + 1
           L == job.launches
<1>1. job' = job /\ at' = n /\ stores' = {} /\ pc' = Idle(job, n)
  BY DEF FinishLaunch
<1>2. Layer(Sh, L) /\ Pairs \in Nat /\ Ex \in [0 .. Pairs - 1 -> 0 .. Sh.E - 1] /\ Sh.E \in Nat
  BY JobIsLayer DEF Routing
<1>3. Len(L) \in Nat /\ at \in 1 .. Len(L)
  BY <1>2 DEF Layer, Stream
<1>4. Sh' = Sh /\ Pairs' = Pairs /\ Ex' = Ex /\ \A i : Launch(i)' = Launch(i)
  BY <1>1, JobKept
<1>5. ASSUME NEW f \in 0 .. Pairs - 1 PROVE ~ Reserved(f)' /\ (Counted(f)' <=> Ready("hist")')
  <2>1. CASE n > Len(L)
    <3>1. ~ (at' <= Len(job'.launches))
      BY <1>1, <1>3, <2>1
    <3> QED BY <3>1 DEF Reserved, Counted, Running
  <2>2. CASE n <= Len(L)
    <3>1. LayerLaunch(Sh, L[n]) /\ Launch(at)' = L[n]
      BY <1>1, <1>2, <1>3, <2>2 DEF Layer, Launch
    <3>2. pc' = [p \in L[n].grid |-> 0]
      BY <1>1, <1>3, <2>2 DEF Idle
    <3>3. HistBlock \in Nat \ {0} /\ IndexBlock \in Nat \ {0}
      BY MoEAssumption
    <3>4. f \div HistBlock \in 0 .. Cdiv(Pairs, HistBlock) - 1 /\ f \div IndexBlock \in 0 .. Cdiv(Pairs, IndexBlock) - 1
      BY <1>2, <3>3, TileOf
    <3>5. ASSUME L[n].kernel = "histogram" PROVE pc'[<<f \div HistBlock>>] = 0
      <4>1. L[n].grid = {<<p>> : p \in 0 .. Cdiv(Pairs, HistBlock) - 1}
        BY <3>1, <3>5 DEF LayerLaunch, LaunchForm, TorchOps, Pairs
      <4> QED BY <3>2, <3>4, <4>1
    <3>6. ASSUME L[n].kernel = "index" PROVE pc'[<<f \div IndexBlock>>] = 0
      <4>1. L[n].grid = {<<p>> : p \in 0 .. Cdiv(Pairs, IndexBlock) - 1}
        BY <3>1, <3>6 DEF LayerLaunch, LaunchForm, TorchOps, Pairs
      <4> QED BY <3>2, <3>4, <4>1
    <3>7. Counted(f)' <=> Ready("hist")'
      BY <3>1, <3>5 DEF Counted, Running
    <3>8. ~ Reserved(f)'
      <4>1. Ex'[f] \in Nat
        BY <1>2, <1>4
      <4> QED BY <3>1, <3>6, <4>1 DEF Reserved, Running
    <3> QED BY <3>7, <3>8
  <2> QED BY <1>3, <2>1, <2>2
<1> QED BY <1>1, <1>5

\* Cells of a tensor that the launch does not make survive its end.
LEMMA FinishCells ==
  ASSUME StoresNamed, FinishLaunch, NEW x, x \notin Makes(Launch(at)) \/ Launch(at).kernel = "histogram"
  PROVE  /\ \A i : /\ Load(mem', <<x, i>>) = Load(mem, <<x, i>>)
                   /\ <<x, i>> \in DOMAIN mem' <=> <<x, i>> \in DOMAIN mem
         /\ \A i, j : /\ Load(mem', <<x, i, j>>) = Load(mem, <<x, i, j>>)
                      /\ <<x, i, j>> \in DOMAIN mem' <=> <<x, i, j>> \in DOMAIN mem
         /\ \A i, j, k : Load(mem', <<x, i, j, k>>) = Load(mem, <<x, i, j, k>>)
<1>1. \A i : <<x, i>>[1] = x
  OBVIOUS
<1>2. \A i, j : <<x, i, j>>[1] = x
  OBVIOUS
<1>3. \A i, j, k : <<x, i, j, k>>[1] = x
  OBVIOUS
<1> QED BY <1>1, <1>2, <1>3, FinishKeeps

\* The end of a launch leaves the inputs.
LEMMA FinishInputs ==
  ASSUME Stream, MoEJob(job), at <= Len(job.launches), StoresNamed, InputsKept, FinishLaunch
  PROVE  InputsKept'
<1>1. job' = job
  BY DEF FinishLaunch
<1>2. LayerLaunch(Sh, Launch(at))
  BY LaunchOfLayer
<1>3. \A x \in {"eidx", "x", "gout", "gate"} : x \notin Makes(Launch(at))
  BY <1>2, MakersOfDispatch
<1>4. ASSUME NEW x \in {"eidx", "x", "gout", "gate"}, NEW i, NEW j
      PROVE  Load(mem', <<x, i, j>>) = Load(mem, <<x, i, j>>)
  BY <1>3, FinishCells
<1> QED BY <1>1, <1>4 DEF InputsKept

\* At its end the histogram has counted every pair.
LEMMA FinishHistogram ==
  ASSUME Stream, MoEJob(job), at <= Len(job.launches), StoresNamed, Histogram, FinishLaunch
  PROVE  Histogram'
<1> DEFINE l == Launch(at)
           S(e) == {f \in 0 .. Pairs - 1 : Ex[f] = e /\ Counted(f)}
<1>1. job' = job /\ at' = at + 1 /\ \A f \in 0 .. Pairs - 1 : (Counted(f)' <=> Ready("hist")')
  BY FinishFacts
<1>2. Sh' = Sh /\ Pairs' = Pairs /\ Ex' = Ex
  BY <1>1, JobKept
<1>3. LayerLaunch(Sh, l)
  BY LaunchOfLayer
<1>4. "hist" \notin Makes(l) \/ l.kernel = "histogram"
  BY <1>3, MakersOfDispatch
<1>5. \A e : /\ Load(mem', <<"hist", e>>) = Load(mem, <<"hist", e>>)
             /\ <<"hist", e>> \in DOMAIN mem' <=> <<"hist", e>> \in DOMAIN mem
  BY <1>4, FinishCells
<1>6. Ready("hist")' <=> Ready("hist") \/ l.kernel = "histogram"
  BY <1>3, ReadyFinish, MakersOfDispatch
<1>7. \A f \in 0 .. Pairs - 1 : Counted(f)' <=> Counted(f)
  <2> TAKE f \in 0 .. Pairs - 1
  <2>1. CASE l.kernel = "histogram"
    <3>1. HistBlock \in Nat \ {0} /\ Pairs \in Nat
      BY MoEAssumption, JobIsLayer
    <3>2. l.grid = {<<p>> : p \in 0 .. Cdiv(Pairs, HistBlock) - 1}
      BY <1>3, <2>1 DEF LayerLaunch, LaunchForm, TorchOps, Pairs
    <3>3. <<f \div HistBlock>> \in l.grid
      BY <3>1, <3>2, TileOf
    <3>4. pc[<<f \div HistBlock>>] = 1
      BY <2>1, <3>3 DEF FinishLaunch, Steps
    <3>5. Counted(f)
      BY <2>1, <3>4 DEF Counted, Running
    <3> QED BY <1>1, <1>6, <2>1, <3>5
  <2>2. CASE l.kernel # "histogram"
    <3>1. Counted(f) <=> Ready("hist")
      BY <2>2 DEF Counted, Running
    <3> QED BY <1>1, <1>6, <2>2, <3>1
  <2> QED BY <2>1, <2>2
<1>8. \A e : S(e)' = S(e)
  BY <1>2, <1>7
<1>9. ASSUME NEW e \in 0 .. Sh.E - 1
      PROVE  <<"hist", e>> \in DOMAIN mem' /\ mem'[<<"hist", e>>] = Cardinality(S(e)')
  <2>1. <<"hist", e>> \in DOMAIN mem /\ mem[<<"hist", e>>] = Cardinality(S(e))
    BY DEF Histogram
  <2> HIDE DEF S
  <2> QED BY <1>5, <1>8, <2>1 DEF Load
<1> QED BY <1>2, <1>9 DEF Histogram

\* A complete histogram.
LEMMA HistogramIs ==
  ASSUME Histogram, Ready("hist"), NEW e \in 0 .. Sh.E - 1
  PROVE  Load(mem, <<"hist", e>>) = Cardinality(Of(Pairs, Ex, e))
<1>1. {f \in 0 .. Pairs - 1 : Ex[f] = e /\ Counted(f)} = Of(Pairs, Ex, e)
  BY DEF Counted, Of
<1> QED BY <1>1 DEF Histogram, Load

\* A launch of one program.
LEMMA OneProgram ==
  ASSUME NEW l, NEW m, l.grid = {<< 0 >>}
  PROVE  AllStores(l, m) = Stored(l, <<0>>, 0, m)
BY DEF AllStores

\* The cumulative sums of a complete histogram.
LEMMA CumSumStored ==
  ASSUME Stream, MoEJob(job), at <= Len(job.launches), Histogram, FinishLaunch,
         NEW x \in {"cum", "cumcopy"}, Launch(at).kernel = (IF x = "cum" THEN "cumsum" ELSE "clone"),
         NEW e \in 0 .. Sh.E - 1
  PROVE  /\ <<x, e>> \in DOMAIN mem'
         /\ Load(mem', <<x, e>>) = Cardinality(UpTo(Pairs, Ex, e))
<1> DEFINE l == Launch(at)
<1>1. LayerLaunch(Sh, l) /\ \A y \in Needs(l) : Ready(y)
  BY LaunchOfLayer
<1>2. Ready("hist") /\ l.grid = {<<0>>} /\ l.E = Sh.E
  BY <1>1 DEF LayerLaunch, LaunchForm, TorchOps, Needs
<1>3. mem' = Write(CumSum(l, mem, x), mem)
  <2>1. mem' = Write(AllStores(l, mem), mem)
    BY StreamFinish DEF Atomic
  <2>2. AllStores(l, mem) = Stored(l, <<0>>, 0, mem)
    BY <1>2, OneProgram
  <2>3. Stored(l, <<0>>, 0, mem) = CumSum(l, mem, x)
    BY DEF Stored
  <2> QED BY <2>1, <2>2, <2>3
<1> DEFINE F(y) == FoldLeft(LAMBDA a, b : a + b, 0, [i \in 1 .. y + 1 |-> Load(mem, <<"hist", i - 1>>)])
<1>4. F(e) = Cardinality(UpTo(Pairs, Ex, e))
  <2>1. Routing(Pairs, Sh.E, Ex)
    BY JobIsLayer
  <2>2. \A y \in 0 .. Sh.E - 1 : Load(mem, <<"hist", y>>) = Cardinality(Of(Pairs, Ex, y))
    BY <1>2, HistogramIs
  <2>3. e \in 0 .. Sh.E - 1
    OBVIOUS
  <2>5. PICK s : s = [i \in 1 .. e + 1 |-> Load(mem, <<"hist", i - 1>>)]
    OBVIOUS
  <2>6. HistPrefix(Pairs, Sh.E, Ex, mem, e, s)
    BY ONLY <2>1, <2>2, <2>3, <2>5 DEF HistPrefix
  <2>7. SumIs(s, Cardinality(UpTo(Pairs, Ex, e)))
    BY ONLY <2>6, CumIs
  <2> QED BY ONLY <2>5, <2>7, Zenon DEF SumIs
<1>5. CumSum(l, mem, x) = { << <<x, y>>, F(y) >> : y \in 0 .. Sh.E - 1 }
  BY <1>2, Zenon DEF CumSum
<1> HIDE DEF F
<1>6. << <<x, e>>, F(e) >> \in CumSum(l, mem, x)
  BY <1>5
<1>7. \A t \in CumSum(l, mem, x) : t[1] = <<x, e>> => t[2] = F(e)
  <2> SUFFICES ASSUME NEW t \in CumSum(l, mem, x), t[1] = <<x, e>> PROVE t[2] = F(e)
    OBVIOUS
  <2>1. PICK y \in 0 .. Sh.E - 1 : t = << <<x, y>>, F(y) >>
    BY <1>5
  <2>2. y = e
    BY <2>1
  <2> QED BY <2>1, <2>2
<1>8. Load(Write(CumSum(l, mem, x), mem), <<x, e>>) = F(e) /\ <<x, e>> \in DOMAIN Write(CumSum(l, mem, x), mem)
  BY ONLY <1>6, <1>7, WriteStored
<1> QED BY <1>3, <1>4, <1>8

\* The cumulative sums, after the end of a launch.
LEMMA FinishCumulative ==
  ASSUME Stream, MoEJob(job), at <= Len(job.launches), StoresNamed, Histogram, Cumulative, FinishLaunch
  PROVE  Cumulative'
<1> DEFINE l == Launch(at)
<1>1. job' = job
  BY FinishFacts
<1>2. Sh' = Sh /\ Pairs' = Pairs /\ Ex' = Ex
  BY <1>1, JobKept
<1>3. LayerLaunch(Sh, l)
  BY LaunchOfLayer
<1>4. "cum" \in Makes(l) <=> l.kernel = "cumsum"
  BY <1>3, MakersOfDispatch
<1>5. Ready("cum")' <=> Ready("cum") \/ l.kernel = "cumsum"
  BY <1>4, ReadyFinish
<1>6. ASSUME Ready("cum")', NEW e \in 0 .. Sh.E - 1
      PROVE  Load(mem', <<"cum", e>>) = Cardinality(UpTo(Pairs, Ex, e))
  <2>1. CASE l.kernel = "cumsum"
    <3>1. "cum" \in {"cum", "cumcopy"} /\ Launch(at).kernel = (IF "cum" = "cum" THEN "cumsum" ELSE "clone")
      BY <2>1
    <3> QED BY <3>1, CumSumStored
  <2>2. CASE l.kernel # "cumsum"
    <3>1. Load(mem', <<"cum", e>>) = Load(mem, <<"cum", e>>)
      BY <1>4, <2>2, FinishCells
    <3>2. Load(mem, <<"cum", e>>) = Cardinality(UpTo(Pairs, Ex, e))
      BY <1>5, <1>6, <2>2 DEF Cumulative
    <3> QED BY <3>1, <3>2
  <2> QED BY <2>1, <2>2
<1> QED BY <1>2, <1>6 DEF Cumulative

\* The counters of the index kernel, after the end of a launch.
LEMMA FinishCounters ==
  ASSUME Stream, MoEJob(job), at <= Len(job.launches), StoresNamed, Histogram, Counters, FinishLaunch
  PROVE  Counters'
<1> DEFINE l == Launch(at)
           S(e) == {f \in 0 .. Pairs - 1 : Ex[f] = e /\ Reserved(f)}
<1>1. job' = job /\ \A f \in 0 .. Pairs - 1 : ~ Reserved(f)'
  BY FinishFacts
<1>2. Sh' = Sh /\ Pairs' = Pairs /\ Ex' = Ex
  BY <1>1, JobKept
<1>3. LayerLaunch(Sh, l)
  BY LaunchOfLayer
<1>4. "cumcopy" \in Makes(l) <=> l.kernel = "clone"
  BY <1>3, MakersOfDispatch
<1>5. /\ Ready("cumcopy")' <=> Ready("cumcopy") \/ l.kernel = "clone"
      /\ Ready("sidx")' <=> Ready("sidx") \/ l.kernel \in {"argsort", "build_indices", "index"}
  BY <1>3, ReadyFinish, MakersOfDispatch
<1>6. \A e : Cardinality(S(e)') = 0
  <2>1. \A e : S(e)' = {}
    BY <1>1, <1>2
  <2> HIDE DEF S
  <2> QED BY <2>1, FS_EmptySet
<1>7. ASSUME NEW e \in 0 .. Sh.E - 1 PROVE Cardinality(UpTo(Pairs, Ex, e)) \in Int
  <2>1. Routing(Pairs, Sh.E, Ex) /\ e \in Int
    BY JobIsLayer
  <2>2. Cardinality(UpTo(Pairs, Ex, e)) \in 0 .. Pairs
    BY <2>1, UpToSplit
  <2> QED BY <2>2
<1>8. ASSUME Ready("cumcopy")', ~ Ready("sidx")', NEW e \in 0 .. Sh.E - 1
      PROVE  <<"cumcopy", e>> \in DOMAIN mem' /\ mem'[<<"cumcopy", e>>] = Cardinality(UpTo(Pairs, Ex, e))
  <2>1. CASE l.kernel = "clone"
    <3>1. "cumcopy" \in {"cum", "cumcopy"} /\ Launch(at).kernel = (IF "cumcopy" = "cum" THEN "cumsum" ELSE "clone")
      BY <2>1
    <3>2. /\ <<"cumcopy", e>> \in DOMAIN mem'
          /\ Load(mem', <<"cumcopy", e>>) = Cardinality(UpTo(Pairs, Ex, e))
      BY <3>1, CumSumStored
    <3> QED BY <3>2 DEF Load
  <2>2. CASE l.kernel # "clone"
    <3>1. l.kernel # "index" /\ ~ Ready("sidx") /\ Ready("cumcopy")
      BY <1>5, <1>8, <2>2
    <3>2. S(e) = {}
      BY <3>1 DEF Reserved, Running
    <3>3. <<"cumcopy", e>> \in DOMAIN mem /\ mem[<<"cumcopy", e>>] = Cardinality(UpTo(Pairs, Ex, e)) - Cardinality(S(e))
      BY <3>1 DEF Counters
    <3>4. /\ Load(mem', <<"cumcopy", e>>) = Load(mem, <<"cumcopy", e>>)
          /\ <<"cumcopy", e>> \in DOMAIN mem' <=> <<"cumcopy", e>> \in DOMAIN mem
      BY <1>4, <2>2, FinishCells
    <3> HIDE DEF S
    <3>5. Cardinality(S(e)) = 0
      BY <3>2, FS_EmptySet
    <3>6. mem[<<"cumcopy", e>>] = Cardinality(UpTo(Pairs, Ex, e))
      BY <1>7, <3>3, <3>5
    <3> QED BY <3>3, <3>4, <3>6 DEF Load
  <2> QED BY <2>1, <2>2
<1>9. ASSUME Ready("cumcopy")', ~ Ready("sidx")', NEW e \in 0 .. Sh.E - 1
      PROVE  /\ <<"cumcopy", e>> \in DOMAIN mem'
             /\ mem'[<<"cumcopy", e>>] = Cardinality(UpTo(Pairs, Ex, e)) - Cardinality(S(e)')
  <2>1. <<"cumcopy", e>> \in DOMAIN mem' /\ mem'[<<"cumcopy", e>>] = Cardinality(UpTo(Pairs, Ex, e))
    BY <1>8, <1>9
  <2> HIDE DEF S
  <2> QED BY <1>6, <1>7, <2>1
<1> QED BY <1>2, <1>9 DEF Counters

\* A launch begins with no reservations.
LEMMA FinishReservations ==
  ASSUME Stream, MoEJob(job), at <= Len(job.launches), FinishLaunch
  PROVE  Reservations'
<1>1. job' = job /\ stores' = {} /\ \A f \in 0 .. Pairs - 1 : ~ Reserved(f)'
  BY FinishFacts
<1>2. Pairs' = Pairs
  BY <1>1, JobKept
<1> QED BY <1>1, <1>2 DEF Reservations

\* What the argsort stores for a pair.
LEMMA RankStored ==
  ASSUME MoEJob(job), InputsKept, NEW l, l.T = Sh.T, l.topk = Sh.topk
  PROVE  /\ \A f \in 0 .. Pairs - 1 : <<Cell(f), Rank(Pairs, Ex, f)>> \in ScatterIndex(l, mem)
         /\ \A w \in ScatterIndex(l, mem) : \E f \in 0 .. Pairs - 1 : w = <<Cell(f), Rank(Pairs, Ex, f)>>
<1> DEFINE R(f) == {g \in Flat(l) : \/ ExpertOf(l, mem, g) < ExpertOf(l, mem, f)
                                    \/ ExpertOf(l, mem, g) = ExpertOf(l, mem, f) /\ g < f}
<1>1. /\ Flat(l) = 0 .. Pairs - 1
      /\ \A f \in 0 .. Pairs - 1 : ExpertOf(l, mem, f) = Ex[f] /\ Ex[f] \in 0 .. Sh.E - 1
  BY ExpertIs
<1>2. ASSUME NEW f \in 0 .. Pairs - 1 PROVE Cardinality(R(f)) = Rank(Pairs, Ex, f)
  <2>1. R(f) = {g \in 0 .. Pairs - 1 : Ex[g] < Ex[f] \/ (Ex[g] = Ex[f] /\ g < f)}
    BY <1>1
  <2> HIDE DEF R
  <2> QED BY <2>1 DEF Rank
<1>3. ScatterIndex(l, mem) = { << <<"sidx", f \div l.topk, f % l.topk>>, Cardinality(R(f)) >> : f \in Flat(l) }
  BY Zenon DEF ScatterIndex
<1>4. \A f : <<"sidx", f \div l.topk, f % l.topk>> = Cell(f)
  BY DEF Cell
<1> HIDE DEF R
<1>5. ScatterIndex(l, mem) = { << Cell(f), Cardinality(R(f)) >> : f \in Flat(l) }
  BY ONLY <1>3, <1>4
<1> QED BY ONLY <1>1, <1>2, <1>5

\* The end of a launch that stores one row for each pair and nothing else there.
LEMMA RowsStored ==
  ASSUME Stream, MoEJob(job), at <= Len(job.launches), FinishLaunch, NEW row,
         \A f \in 0 .. Pairs - 1 : <<Cell(f), row[f]>> \in stores,
         \A w \in stores : w[1][1] = "sidx" => \E f \in 0 .. Pairs - 1 : w = <<Cell(f), row[f]>>
  PROVE  \A f \in 0 .. Pairs - 1 : Row'[f] = row[f]
<1> TAKE f \in 0 .. Pairs - 1
<1>1. job' = job /\ mem' = Write(stores, mem)
  BY DEF FinishLaunch
<1>2. Sh' = Sh /\ Pairs' = Pairs
  BY <1>1, JobKept
<1>3. \A t \in stores : t[1] = Cell(f) => t[2] = row[f]
  <2> TAKE t \in stores
  <2> HAVE t[1] = Cell(f)
  <2>1. t[1][1] = "sidx"
    BY DEF Cell
  <2>2. PICK h \in 0 .. Pairs - 1 : t = <<Cell(h), row[h]>>
    BY <2>1
  <2>3. h = f
    BY <2>2, CellsDiffer
  <2> QED BY <2>2, <2>3
<1>4. Load(Write(stores, mem), Cell(f)) = row[f]
  <2>1. <<Cell(f), row[f]>> \in stores
    OBVIOUS
  <2> QED BY ONLY <1>3, <2>1, WriteStored
<1>5. Row'[f] = Load(mem', Cell(f))
  BY <1>2 DEF Row, Sidx, Cell
<1> QED BY <1>1, <1>4, <1>5

\* What a launch of one program has stored when it ends.
LEMMA TorchStored ==
  ASSUME Stream, at <= Len(job.launches), FinishLaunch, Launch(at).grid = {<< 0 >>}, Launch(at).kernel \notin Atomic
  PROVE  stores = Stored(Launch(at), <<0>>, 0, mem)
<1>1. stores = UNION {Stored(Launch(at), p, 0, mem) : p \in {q \in Launch(at).grid : pc[q] = 1}}
  BY DEF Stream
<1>2. pc[<<0>>] = 1
  BY DEF FinishLaunch, Steps, Atomic
<1>3. {q \in Launch(at).grid : pc[q] = 1} = {<<0>>}
  BY <1>2
<1> QED BY <1>1, <1>3

\* At the end of the index kernel every pair has its own row, among those of its
\* expert.
LEMMA IndexRows ==
  ASSUME Stream, MoEJob(job), at <= Len(job.launches), Counters, Reservations, FinishLaunch,
         Launch(at).kernel = "index"
  PROVE  \E row : /\ Sorted(Pairs, Ex, row)
                  /\ \A f \in 0 .. Pairs - 1 : <<Cell(f), row[f]>> \in stores
                  /\ \A w \in stores : \E f \in 0 .. Pairs - 1 : w = <<Cell(f), row[f]>>
<1> DEFINE l == Launch(at)
           row == [f \in 0 .. Pairs - 1 |-> CHOOSE v : <<Cell(f), v>> \in stores]
<1>1. /\ LayerLaunch(Sh, l) /\ Ready("cumcopy") /\ ~ Ready("sidx")
  <2>1. LayerLaunch(Sh, l) /\ (\A x \in Needs(l) : Ready(x)) /\ (\A x \in Makes(l) : ~ Ready(x))
    BY LaunchOfLayer
  <2> QED BY <2>1 DEF Needs, Makes
<1>2. Routing(Pairs, Sh.E, Ex) /\ Pairs \in Nat /\ Sh.E \in Nat /\ Ex \in [0 .. Pairs - 1 -> 0 .. Sh.E - 1]
  BY JobIsLayer DEF Routing
<1>3. ASSUME NEW f \in 0 .. Pairs - 1 PROVE Reserved(f)
  <2>1. l.grid = {<<p>> : p \in 0 .. Cdiv(Pairs, IndexBlock) - 1} /\ l.E = Sh.E
    BY <1>1 DEF LayerLaunch, LaunchForm, TorchOps, Pairs
  <2>2. f \div IndexBlock \in 0 .. Cdiv(Pairs, IndexBlock) - 1
    BY <1>2, MoEAssumption, TileOf
  <2>3. pc[<<f \div IndexBlock>>] = Sh.E
    BY <2>1, <2>2 DEF FinishLaunch, Steps
  <2>4. Ex[f] < Sh.E
    BY <1>2
  <2> QED BY <2>3, <2>4 DEF Reserved, Running
<1>4. /\ \A f \in 0 .. Pairs - 1 : \E v : <<Cell(f), v>> \in stores
      /\ \A w \in stores :
           \E f \in 0 .. Pairs - 1 :
             /\ w = <<Cell(f), w[2]>> /\ w[2] \in Int
             /\ mem[<<"cumcopy", Ex[f]>>] <= w[2] /\ w[2] < Cardinality(UpTo(Pairs, Ex, Ex[f]))
      /\ \A w, z \in stores : w[1] = z[1] \/ w[2] = z[2] => w = z
  BY <1>3 DEF Reservations, Running
<1>5. \A f \in 0 .. Pairs - 1 : <<Cell(f), row[f]>> \in stores
  BY <1>4
<1> HIDE DEF row
<1>6. ASSUME NEW w \in stores PROVE \E f \in 0 .. Pairs - 1 : w = <<Cell(f), row[f]>>
  <2>1. PICK f \in 0 .. Pairs - 1 : w = <<Cell(f), w[2]>>
    BY <1>4
  <2>2. <<Cell(f), row[f]>> \in stores /\ <<Cell(f), row[f]>>[1] = w[1]
    BY <1>5, <2>1
  <2>3. w = <<Cell(f), row[f]>>
    BY <1>4, <2>2
  <2> QED BY <2>3
<1>7. ASSUME NEW e \in 0 .. Sh.E - 1
      PROVE  /\ mem[<<"cumcopy", e>>] \in Int /\ Cardinality(Under(Pairs, Ex, e)) \in Int
             /\ Cardinality(UpTo(Pairs, Ex, e)) \in Int
             /\ Cardinality(Under(Pairs, Ex, e)) <= mem[<<"cumcopy", e>>]
  <2> DEFINE R == {f \in 0 .. Pairs - 1 : Ex[f] = e /\ Reserved(f)}
  <2>1. mem[<<"cumcopy", e>>] = Cardinality(UpTo(Pairs, Ex, e)) - Cardinality(R)
    BY <1>1 DEF Counters
  <2>2. R \in SUBSET Of(Pairs, Ex, e) /\ e \in Int
    BY DEF Of
  <2> HIDE DEF R
  <2>3. /\ Cardinality(R) \in Nat /\ Cardinality(UpTo(Pairs, Ex, e)) \in Nat /\ Cardinality(Under(Pairs, Ex, e)) \in Nat
        /\ Cardinality(Under(Pairs, Ex, e)) <= Cardinality(UpTo(Pairs, Ex, e)) - Cardinality(R)
    BY ONLY <1>2, <2>2, LeftOver
  <2> QED BY <2>1, <2>3
<1>8. ASSUME NEW f \in 0 .. Pairs - 1
      PROVE  /\ row[f] \in Int /\ Cardinality(Under(Pairs, Ex, Ex[f])) <= row[f]
             /\ row[f] < Cardinality(UpTo(Pairs, Ex, Ex[f]))
  <2>1. PICK h \in 0 .. Pairs - 1 :
             /\ <<Cell(f), row[f]>> = <<Cell(h), row[f]>> /\ row[f] \in Int
             /\ mem[<<"cumcopy", Ex[h]>>] <= row[f] /\ row[f] < Cardinality(UpTo(Pairs, Ex, Ex[h]))
    <3>1. <<Cell(f), row[f]>> \in stores /\ <<Cell(f), row[f]>>[2] = row[f]
      BY <1>5
    <3> QED BY <1>4, <3>1
  <2>2. h = f
    BY <2>1, CellsDiffer
  <2>3. Ex[f] \in 0 .. Sh.E - 1
    BY <1>2
  <2>4. /\ mem[<<"cumcopy", Ex[f]>>] \in Int /\ Cardinality(Under(Pairs, Ex, Ex[f])) \in Int
        /\ Cardinality(UpTo(Pairs, Ex, Ex[f])) \in Int
        /\ Cardinality(Under(Pairs, Ex, Ex[f])) <= mem[<<"cumcopy", Ex[f]>>]
    BY <1>7, <2>3
  <2> QED BY <2>1, <2>2, <2>4
<1>9. ASSUME NEW f \in 0 .. Pairs - 1, NEW h \in 0 .. Pairs - 1, row[f] = row[h] PROVE f = h
  <2>1. <<Cell(f), row[f]>> \in stores /\ <<Cell(h), row[h]>> \in stores
    BY <1>5
  <2>2. <<Cell(f), row[f]>>[2] = <<Cell(h), row[h]>>[2]
    BY <1>9
  <2>3. <<Cell(f), row[f]>> = <<Cell(h), row[h]>>
    BY <1>4, <2>1, <2>2
  <2> QED BY <2>3, CellsDiffer
<1>10. Sorted(Pairs, Ex, row)
  BY <1>8, <1>9 DEF Sorted
<1> QED BY <1>5, <1>6, <1>10

\* The rows, after the end of a launch.
LEMMA FinishRows ==
  ASSUME Stream, MoEJob(job), at <= Len(job.launches), StoresNamed, InputsKept, Counters, Reservations, Rows,
         FinishLaunch
  PROVE  Rows'
<1> DEFINE l == Launch(at)
<1>1. job' = job
  BY FinishFacts
<1>2. Sh' = Sh /\ Pairs' = Pairs /\ Ex' = Ex
  BY <1>1, JobKept
<1>3. LayerLaunch(Sh, l)
  BY LaunchOfLayer
<1>4. "sidx" \in Makes(l) <=> l.kernel \in {"argsort", "build_indices", "index"}
  BY <1>3, MakersOfDispatch
<1>5. Ready("sidx")' <=> Ready("sidx") \/ l.kernel \in {"argsort", "build_indices", "index"}
  BY <1>4, ReadyFinish
<1>6. ASSUME <<"sidx", 0, 0>> \in DOMAIN mem' PROVE Ready("sidx")'
  <2>1. CASE "sidx" \in Makes(l)
    BY <1>4, <1>5, <2>1
  <2>2. CASE "sidx" \notin Makes(l)
    <3>1. <<"sidx", 0, 0>> \in DOMAIN mem
      BY <1>6, <2>2, FinishCells
    <3> QED BY <1>5, <3>1 DEF Rows
  <2> QED BY <2>1, <2>2
<1>7. Routing(Pairs, Sh.E, Ex)
  BY JobIsLayer
<1>8. ASSUME NEW row, Sorted(Pairs, Ex, row), \A f \in 0 .. Pairs - 1 : Row'[f] = row[f]
      PROVE  Sorted(Pairs, Ex, Row')
  BY <1>8 DEF Sorted
<1>9. ASSUME Ready("sidx")' PROVE Sorted(Pairs, Ex, Row')
  <2>1. CASE "sidx" \notin Makes(l)
    <3>1. \A i, j : Load(mem', <<"sidx", i, j>>) = Load(mem, <<"sidx", i, j>>)
      BY <2>1, FinishCells
    <3>2. Row' = Row
      BY <1>2, <3>1 DEF Row, Sidx
    <3> QED BY <1>4, <1>5, <1>9, <2>1, <3>2 DEF Rows
  <2>2. CASE l.kernel \in {"argsort", "build_indices"}
    <3>1. PICK row : row = [f \in 0 .. Pairs - 1 |-> Rank(Pairs, Ex, f)]
      OBVIOUS
    <3>2. Sorted(Pairs, Ex, row)
      BY <1>7, <3>1, RankSorts
    <3>3. l.T = Sh.T /\ l.topk = Sh.topk /\ l.grid = {<<0>>}
      BY <1>3, <2>2 DEF LayerLaunch, LaunchForm, TorchOps
    <3>4. stores = Stored(l, <<0>>, 0, mem)
      BY <2>2, <3>3, TorchStored DEF Atomic
    <3>5. Stored(l, <<0>>, 0, mem) = IF l.kernel = "argsort" THEN ScatterIndex(l, mem) ELSE _build_moe_indices(l, mem)
      BY <2>2 DEF Stored
    <3>6. /\ \A f \in 0 .. Pairs - 1 : <<Cell(f), row[f]>> \in ScatterIndex(l, mem)
          /\ \A w \in ScatterIndex(l, mem) : \E f \in 0 .. Pairs - 1 : w = <<Cell(f), row[f]>>
      BY <3>1, <3>3, RankStored
    <3>7. /\ \A w \in _build_moe_indices(l, mem) : w[1][1] = "sidx" => w \in ScatterIndex(l, mem)
          /\ \A w \in ScatterIndex(l, mem) : w \in _build_moe_indices(l, mem)
      <4>1. ASSUME NEW w \in _build_moe_indices(l, mem), w \notin ScatterIndex(l, mem) PROVE w[1][1] = "aidx"
        <5>1. \E a, c : w = << <<"aidx", a>>, c >>
          BY <4>1 DEF _build_moe_indices
        <5> QED BY <5>1
      <4>2. \A w \in ScatterIndex(l, mem) : w \in _build_moe_indices(l, mem)
        BY DEF _build_moe_indices
      <4> QED BY <4>1, <4>2
    <3>8. /\ \A f \in 0 .. Pairs - 1 : <<Cell(f), row[f]>> \in stores
          /\ \A w \in stores : w[1][1] = "sidx" => \E f \in 0 .. Pairs - 1 : w = <<Cell(f), row[f]>>
      BY <3>4, <3>5, <3>6, <3>7
    <3>9. \A f \in 0 .. Pairs - 1 : Row'[f] = row[f]
      BY <3>8, RowsStored
    <3> QED BY <1>8, <3>2, <3>9
  <2>3. CASE l.kernel = "index"
    <3>1. PICK row : /\ Sorted(Pairs, Ex, row)
                     /\ \A f \in 0 .. Pairs - 1 : <<Cell(f), row[f]>> \in stores
                     /\ \A w \in stores : \E f \in 0 .. Pairs - 1 : w = <<Cell(f), row[f]>>
      BY <2>3, IndexRows
    <3>2. \A f \in 0 .. Pairs - 1 : Row'[f] = row[f]
      BY <3>1, RowsStored
    <3> QED BY <1>8, <3>1, <3>2
  <2> QED BY <1>4, <2>1, <2>2, <2>3
<1> QED BY <1>2, <1>6, <1>9 DEF Rows

\* Before the first launch nothing is counted and no row is given.
LEMMA DispatchInit == Init => Dispatch
<1> SUFFICES ASSUME Init, MoEJob(job)
             PROVE  StoresNamed /\ InputsKept /\ Histogram /\ Cumulative /\ Counters /\ Reservations /\ Rows
  BY DEF Dispatch
<1>1. job \in Jobs /\ at = 1 /\ pc = Idle(job, 1) /\ stores = {} /\ mem = job.mem
  BY DEF Init
<1>2. \A x : ~ Ready(x)
  BY <1>1 DEF Ready
<1>3. /\ Layer(Sh, job.launches) /\ MoEInputs(Sh, job.mem) /\ Pairs \in Nat
      /\ Ex \in [0 .. Pairs - 1 -> 0 .. Sh.E - 1] /\ Sh.E \in Nat
  BY JobIsLayer DEF Routing
<1>4. Len(job.launches) \in Nat
  BY <1>3 DEF Layer
<1>5. ASSUME NEW f \in 0 .. Pairs - 1 PROVE ~ Counted(f) /\ ~ Reserved(f)
  <2>1. CASE ~ (at <= Len(job.launches))
    BY <1>2, <2>1 DEF Counted, Reserved, Running
  <2>2. CASE at <= Len(job.launches)
    <3>1. LayerLaunch(Sh, Launch(at)) /\ pc = [p \in Launch(at).grid |-> 0]
      BY <1>1, <1>3, <1>4, <2>2 DEF Layer, Launch, Idle
    <3>2. HistBlock \in Nat \ {0} /\ IndexBlock \in Nat \ {0}
      BY MoEAssumption
    <3>3. f \div HistBlock \in 0 .. Cdiv(Pairs, HistBlock) - 1 /\ f \div IndexBlock \in 0 .. Cdiv(Pairs, IndexBlock) - 1
      BY <1>3, <3>2, TileOf
    <3>4. ASSUME Launch(at).kernel = "histogram" PROVE pc[<<f \div HistBlock>>] = 0
      <4>1. Launch(at).grid = {<<p>> : p \in 0 .. Cdiv(Pairs, HistBlock) - 1}
        BY <3>1, <3>4 DEF LayerLaunch, LaunchForm, TorchOps, Pairs
      <4> QED BY <3>1, <3>3, <4>1
    <3>5. ASSUME Launch(at).kernel = "index" PROVE pc[<<f \div IndexBlock>>] = 0
      <4>1. Launch(at).grid = {<<p>> : p \in 0 .. Cdiv(Pairs, IndexBlock) - 1}
        BY <3>1, <3>5 DEF LayerLaunch, LaunchForm, TorchOps, Pairs
      <4> QED BY <3>1, <3>3, <4>1
    <3>6. Ex[f] \in Nat
      BY <1>3
    <3> QED BY <1>2, <3>4, <3>5, <3>6 DEF Counted, Reserved, Running
  <2> QED BY <2>1, <2>2
<1>6. Histogram
  <2> SUFFICES ASSUME NEW e \in 0 .. Sh.E - 1
               PROVE  /\ <<"hist", e>> \in DOMAIN mem
                      /\ mem[<<"hist", e>>] = Cardinality({f \in 0 .. Pairs - 1 : Ex[f] = e /\ Counted(f)})
    BY DEF Histogram
  <2>1. {f \in 0 .. Pairs - 1 : Ex[f] = e /\ Counted(f)} = {}
    BY <1>5
  <2>2. Cardinality({}) = 0
    BY FS_EmptySet
  <2>3. <<"hist", e>> \in DOMAIN mem /\ mem[<<"hist", e>>] = 0
    BY <1>1, <1>3 DEF MoEInputs
  <2> QED BY <2>1, <2>2, <2>3
<1>7. Reservations
  BY <1>1, <1>5 DEF Reservations
<1>8. Rows
  BY <1>1, <1>2, <1>3 DEF Rows, MoEInputs
<1> QED BY <1>1, <1>2, <1>6, <1>7, <1>8 DEF StoresNamed, InputsKept, Cumulative, Counters

\* No step breaks the dispatch.
LEMMA DispatchStep == Stream /\ Dispatch /\ [Next]_vars => Dispatch'
<1> SUFFICES ASSUME Stream, Dispatch, [Next]_vars PROVE Dispatch'
  OBVIOUS
<1>1. job' = job
  BY DEF Next, RunProgram, FinishLaunch, vars
<1>2. (MoEJob(job))' = MoEJob(job)
  BY <1>1, JobKept
<1> SUFFICES ASSUME MoEJob(job)
             PROVE  (StoresNamed /\ InputsKept /\ Histogram /\ Cumulative /\ Counters /\ Reservations /\ Rows)'
  BY <1>2 DEF Dispatch
<1>3. StoresNamed /\ InputsKept /\ Histogram /\ Cumulative /\ Counters /\ Reservations /\ Rows
  BY DEF Dispatch
<1>4. CASE UNCHANGED vars
  <2>1. job' = job /\ at' = at /\ pc' = pc /\ stores' = stores /\ mem' = mem
    BY <1>4 DEF vars
  <2>2. Sh' = Sh /\ Pairs' = Pairs /\ Ex' = Ex /\ Row' = Row /\ (\A f : Cell(f)' = Cell(f)) /\ \A i : Launch(i)' = Launch(i)
    BY <2>1, JobKept DEF Row
  <2>3. \A x : (Ready(x)' <=> Ready(x)) /\ (Running(x)' <=> Running(x)) /\ (Counted(x)' <=> Counted(x))
               /\ (Reserved(x)' <=> Reserved(x))
    BY <2>1, <2>2 DEF Ready, Running, Counted, Reserved
  <2>4. StoresNamed' /\ InputsKept' /\ Cumulative' /\ Rows'
    BY <1>3, <2>1, <2>2, <2>3 DEF StoresNamed, InputsKept, Cumulative, Rows
  <2>5. Histogram'
    BY <1>3, <2>1, <2>2, <2>3 DEF Histogram
  <2>6. Counters'
    BY <1>3, <2>1, <2>2, <2>3 DEF Counters
  <2>7. Reservations'
    BY <1>3, <2>1, <2>2, <2>3 DEF Reservations
  <2> QED BY <2>4, <2>5, <2>6, <2>7
<1>5. CASE Next
  <2>1. at <= Len(job.launches) /\ ((\E p \in Launch(at).grid : RunProgram(p)) \/ FinishLaunch)
    BY <1>5 DEF Next
  <2>2. StoresNamed'
    BY <1>3, <2>1, NamedStep
  <2>3. ASSUME NEW p \in Launch(at).grid, RunProgram(p)
        PROVE  (InputsKept /\ Histogram /\ Cumulative /\ Counters /\ Reservations /\ Rows)'
    BY <1>3, <2>1, <2>3, RunInputs, RunHistogram, RunCumulative, RunCounters, RunReservations, RunRows
  <2>4. ASSUME FinishLaunch
        PROVE  (InputsKept /\ Histogram /\ Cumulative /\ Counters /\ Reservations /\ Rows)'
    BY <1>3, <2>1, <2>4, FinishInputs, FinishHistogram, FinishCumulative, FinishCounters, FinishReservations, FinishRows
  <2> QED BY <2>1, <2>2, <2>3, <2>4
<1> QED BY <1>4, <1>5

-----------------------------------------------------------------------------
\* The rows of an expert begin after those of the experts before it.
LEMMA GroupIs ==
  ASSUME MoEJob(job), Cumulative, Ready("cum"), NEW g \in 0 .. Sh.E - 1
  PROVE  /\ GroupStart(mem, g) = Cardinality(Under(Pairs, Ex, g))
         /\ Load(mem, <<"cum", g>>) = Cardinality(UpTo(Pairs, Ex, g))
         /\ GroupSize(mem, g) = Cardinality(Of(Pairs, Ex, g))
         /\ Cardinality(Under(Pairs, Ex, g)) \in Nat /\ Cardinality(Of(Pairs, Ex, g)) \in Nat
         /\ Cardinality(UpTo(Pairs, Ex, g)) = Cardinality(Under(Pairs, Ex, g)) + Cardinality(Of(Pairs, Ex, g))
<1>1. Routing(Pairs, Sh.E, Ex) /\ g \in Int /\ Sh.E \in Nat /\ Ex \in [0 .. Pairs - 1 -> 0 .. Sh.E - 1]
  BY JobIsLayer DEF Routing
<1>2. /\ Cardinality(UpTo(Pairs, Ex, g)) = Cardinality(Under(Pairs, Ex, g)) + Cardinality(Of(Pairs, Ex, g))
      /\ UpTo(Pairs, Ex, g - 1) = Under(Pairs, Ex, g)
      /\ Cardinality(Under(Pairs, Ex, g)) \in Nat /\ Cardinality(Of(Pairs, Ex, g)) \in Nat
  <2>1. /\ Cardinality(UpTo(Pairs, Ex, g)) = Cardinality(Under(Pairs, Ex, g)) + Cardinality(Of(Pairs, Ex, g))
        /\ UpTo(Pairs, Ex, g - 1) = Under(Pairs, Ex, g)
        /\ Cardinality(Under(Pairs, Ex, g)) \in 0 .. Pairs /\ Cardinality(Of(Pairs, Ex, g)) \in 0 .. Pairs
    BY ONLY <1>1, UpToSplit
  <2> QED BY <2>1
<1>3. \A e \in 0 .. Sh.E - 1 : Load(mem, <<"cum", e>>) = Cardinality(UpTo(Pairs, Ex, e))
  BY DEF Cumulative
<1>4. GroupStart(mem, g) = Cardinality(Under(Pairs, Ex, g))
  <2>1. CASE g = 0
    <3>1. Under(Pairs, Ex, g) = {}
      BY <1>1, <2>1 DEF Under
    <3> QED BY <2>1, <3>1, FS_EmptySet DEF GroupStart
  <2>2. CASE g # 0
    <3>1. g > 0 /\ g - 1 \in 0 .. Sh.E - 1
      BY <1>1, <2>2
    <3> QED BY <1>2, <1>3, <3>1 DEF GroupStart
  <2> QED BY <2>1, <2>2
<1> QED BY <1>2, <1>3, <1>4 DEF GroupSize

\* Rows that are sorted, once the histogram and its sums are there, are dispatched as
\* promised.
LEMMA DispatchMeansSorted == Stream /\ Dispatch => DispatchSorted
<1> SUFFICES ASSUME Stream, Dispatch, Just({"index", "cumsum"}), <<"sidx", 0, 0>> \in DOMAIN mem
             PROVE  /\ \A e \in 0 .. Done.E - 1 :
                         Load(mem, <<"hist", e>>) = Cardinality({f \in Flat(Done) : ExpertOf(Done, mem, f) = e})
                    /\ {Sidx(mem, f \div Done.topk, f % Done.topk) : f \in Flat(Done)} = Flat(Done)
                    /\ \A f \in Flat(Done) :
                         LET e == ExpertOf(Done, mem, f)
                             r == Sidx(mem, f \div Done.topk, f % Done.topk)
                         IN  GroupStart(mem, e) <= r /\ r < Load(mem, <<"cum", e>>)
  BY DEF DispatchSorted
<1> DEFINE i == at - 1
<1>1. i \in 1 .. Len(job.launches) /\ Len(job.launches) \in Nat /\ job \in Jobs /\ at \in Nat
  BY JobsAssumption DEF Stream, Just
<1>2. Launch(i) = Done /\ Done.kernel \in {"index", "cumsum"}
  BY DEF Just, Done
<1>3. MoEJob(job)
  <2>1. DOMAIN job.launches = 1 .. Len(job.launches)
    BY <1>1, JobsAssumption
  <2>2. job.launches[i].kernel \in MoEKernelNames
    BY <1>2 DEF MoEKernelNames, Launch
  <2> HIDE DEF i
  <2> QED BY <1>1, <2>1, <2>2, JobsAssumption
<1>4. Layer(Sh, job.launches)
  BY <1>3, JobIsLayer
<1>5. LayerLaunch(Sh, Done) /\ \A x \in Needs(Done) : \E j \in 1 .. i - 1 : x \in Makes(Launch(j))
  BY <1>1, <1>2, <1>4 DEF Layer, Launch
<1>6. Done.T = Sh.T /\ Done.topk = Sh.topk /\ Done.E = Sh.E
  BY <1>5 DEF LayerLaunch
<1>7. InputsKept /\ Histogram /\ Cumulative /\ Rows
  BY <1>3 DEF Dispatch
<1>8. Ready("hist") /\ Ready("cum")
  <2>1. \A x \in Needs(Done) : Ready(x)
    BY <1>1, <1>5 DEF Ready
  <2>2. \A x \in Makes(Done) : Ready(x)
    BY <1>1, <1>2 DEF Ready
  <2> QED BY <1>2, <2>1, <2>2 DEF Needs, Makes
<1>9. Sorted(Pairs, Ex, Row)
  BY <1>7 DEF Rows
<1>10. /\ Flat(Done) = 0 .. Pairs - 1
       /\ \A f \in 0 .. Pairs - 1 : ExpertOf(Done, mem, f) = Ex[f] /\ Ex[f] \in 0 .. Sh.E - 1
  BY <1>3, <1>6, <1>7, ExpertIs
<1>11. \A f \in 0 .. Pairs - 1 : Sidx(mem, f \div Done.topk, f % Done.topk) = Row[f]
  BY <1>6 DEF Row
<1>12. ASSUME NEW e \in 0 .. Done.E - 1
       PROVE  Load(mem, <<"hist", e>>) = Cardinality({f \in Flat(Done) : ExpertOf(Done, mem, f) = e})
  <2>1. {f \in Flat(Done) : ExpertOf(Done, mem, f) = e} = Of(Pairs, Ex, e)
    BY <1>10 DEF Of
  <2> QED BY <1>6, <1>7, <1>8, <2>1, HistogramIs
<1>13. {Sidx(mem, f \div Done.topk, f % Done.topk) : f \in Flat(Done)} = Flat(Done)
  <2>1. {Row[f] : f \in 0 .. Pairs - 1} = 0 .. Pairs - 1
    BY <1>3, <1>9, JobIsLayer, SortedOnto
  <2>2. {Sidx(mem, f \div Done.topk, f % Done.topk) : f \in Flat(Done)} = {Row[f] : f \in 0 .. Pairs - 1}
    BY <1>10, <1>11
  <2> QED BY ONLY <1>10, <2>1, <2>2
<1>14. ASSUME NEW f \in 0 .. Pairs - 1
       PROVE  GroupStart(mem, Ex[f]) <= Row[f] /\ Row[f] < Load(mem, <<"cum", Ex[f]>>)
  <2>1. Ex[f] \in 0 .. Sh.E - 1
    BY <1>10
  <2>2. GroupStart(mem, Ex[f]) = Cardinality(Under(Pairs, Ex, Ex[f])) /\ Load(mem, <<"cum", Ex[f]>>) = Cardinality(UpTo(Pairs, Ex, Ex[f]))
    BY <1>3, <1>7, <1>8, <2>1, GroupIs
  <2> QED BY <1>9, <2>2 DEF Sorted
<1> QED BY <1>10, <1>11, <1>12, <1>13, <1>14

\* Dispatch, for any number of tokens, experts and programs, any block sizes and any
\* order of the programs: the histogram counts the tokens of each expert, no two
\* (token, k) pairs share a row, and the rows of an expert lie between its cumulative
\* counts, after the atomic reservations of _moe_index_compute_kernel as after argsort.
THEOREM DispatchIsSorted == Spec => []DispatchSorted
<1>1. Init => Stream /\ Dispatch
  BY StreamInit, DispatchInit
<1>2. Stream /\ Dispatch /\ [Next]_vars => (Stream /\ Dispatch)'
  BY StreamStep, DispatchStep
<1>3. Stream /\ Dispatch => DispatchSorted
  BY DispatchMeansSorted
<1> QED BY <1>1, <1>2, <1>3, PTL DEF Spec

-----------------------------------------------------------------------------
\* The terms a row computed alone would hold: of the expert e, the token t and its
\* k-th choice, in column n of tensor x.
TermOf(x, e, t, k, n) ==
  CASE x = "scat"    -> <<"x", t, n>>
    [] x = "g_fc2"   -> <<"gout", t, n>>
    [] x = "fc1_1"   -> Fc1("W1_1", e, t, n)
    [] x = "fc1_2"   -> Fc1("W1_2", e, t, n)
    [] x = "wact"    -> Act(e, t, k, n)
    [] x = "fc2"     -> << "W2", e, n, [j \in 1 .. I |-> Act(e, t, k, j - 1)] >>
    [] x = "g_wact"  -> <<"W2t", e, n, GRow(t)>>
    [] x = "g_fc1_1" -> ActGrad("g_fc1_1", e, t, k, n)
    [] x = "g_fc1_2" -> ActGrad("g_fc1_2", e, t, k, n)
    [] x = "g_scat1" -> BackTerm("W1_1t", "g_fc1_1", e, t, k, n)
    [] x = "g_scat2" -> BackTerm("W1_2t", "g_fc1_2", e, t, k, n)
    [] x = "g_scat"  -> << BackTerm("W1_1t", "g_fc1_1", e, t, k, n), BackTerm("W1_2t", "g_fc1_2", e, t, k, n) >>
RowTerm(x, f, n) == TermOf(x, Ex[f], f \div Sh.topk, f % Sh.topk, n)
RowTensors == {"scat", "g_fc2", "fc1_1", "fc1_2", "wact", "fc2", "g_wact", "g_fc1_1", "g_fc1_2",
               "g_scat1", "g_scat2", "g_scat"}

\* A tensor over expert-sorted rows that is ready holds those terms, whatever row its
\* pair was sorted into.
RowMade(x) ==
  Ready(x) =>
    /\ Ready("sidx")
    /\ \A f \in 0 .. Pairs - 1, n \in 0 .. Width(x) - 1 : Load(mem, <<x, Row[f], n>>) = RowTerm(x, f, n)

\* So do the sums over the rows of a token, the gradient of the gates, the token of
\* every row, and the gradient of the weights.
TokenMade(y, x) ==
  Ready(y) =>
    \A t \in 0 .. Sh.T - 1, n \in 0 .. H - 1 :
      Load(mem, <<y, t, n>>) = [k \in 1 .. Sh.topk |-> RowTerm(x, t * Sh.topk + (k - 1), n)]
GateMade ==
  Ready("g_gate") =>
    \A f \in 0 .. Pairs - 1 :
      Load(mem, <<"g_gate", f \div Sh.topk, f % Sh.topk>>) =
        [j \in 1 .. I |-> [x \in {"fc1_1", "fc1_2", "g_wact"} |-> RowTerm(x, f, j - 1)]]
IndexMade ==
  Ready("aidx") =>
    Ready("sidx") /\ \A f \in 0 .. Pairs - 1 : Load(mem, <<"aidx", Row[f]>>) = f \div Sh.topk
GradTerms(c, e, n, j) == {<< RowTerm(GradOf(c), f, n), RowTerm(InputOf(c), f, j) >> : f \in Of(Pairs, Ex, e)}
Reduces(v, c, e, n, j) ==
  Len(FlattenSeq(v)) = Cardinality(Of(Pairs, Ex, e)) /\ ToSet(FlattenSeq(v)) = GradTerms(c, e, n, j)
WeightMade(c) ==
  Ready(c) =>
    \A e \in 0 .. Sh.E - 1, n \in 0 .. Width(GradOf(c)) - 1, j \in 0 .. Width(InputOf(c)) - 1 :
      Reduces(Load(mem, <<c, e, n, j>>), c, e, n, j)

Values ==
  MoEJob(job) =>
    /\ \A x \in RowTensors : RowMade(x)
    /\ TokenMade("moe", "fc2") /\ TokenMade("g_x", "g_scat")
    /\ GateMade /\ IndexMade /\ \A c \in WeightProducts : WeightMade(c)

\* The terms depend only on the job.
LEMMA TermsKept ==
  ASSUME job' = job
  PROVE  /\ \A x, f, n : RowTerm(x, f, n)' = RowTerm(x, f, n)
         /\ \A c, e, n, j : GradTerms(c, e, n, j)' = GradTerms(c, e, n, j)
         /\ \A v, c, e, n, j : Reduces(v, c, e, n, j)' <=> Reduces(v, c, e, n, j)
<1>1. Sh' = Sh /\ Pairs' = Pairs /\ Ex' = Ex
  BY JobKept
<1>2. \A x, f, n : RowTerm(x, f, n)' = RowTerm(x, f, n)
  BY <1>1 DEF RowTerm
<1>3. \A c, e, n, j : GradTerms(c, e, n, j)' = GradTerms(c, e, n, j)
  BY <1>1, <1>2 DEF GradTerms
<1>4. \A v, c, e, n, j : Reduces(v, c, e, n, j)' <=> Reduces(v, c, e, n, j)
  BY <1>1, <1>3 DEF Reduces
<1> QED BY <1>2, <1>3, <1>4

\* A step that leaves the cells of what is ready leaves the values.
Leaves(x) ==
  /\ \A i : Load(mem', <<x, i>>) = Load(mem, <<x, i>>)
  /\ \A i, j : Load(mem', <<x, i, j>>) = Load(mem, <<x, i, j>>)
  /\ \A i, j, k : Load(mem', <<x, i, j, k>>) = Load(mem, <<x, i, j, k>>)

\* Where the rows are made, they stay.
LEMMA RowLeft ==
  ASSUME job' = job, Leaves("sidx")
  PROVE  Row' = Row
<1>1. Sh' = Sh /\ Pairs' = Pairs
  BY JobKept
<1> QED BY <1>1 DEF Row, Sidx, Leaves

\* A tensor over sorted rows that is left keeps its terms.
LEMMA RowsMadeKept ==
  ASSUME job' = job, NEW x, RowMade(x), Ready(x), Ready("sidx")', Leaves(x), Leaves("sidx")
  PROVE  RowMade(x)'
<1>1. Sh' = Sh /\ Pairs' = Pairs /\ Row' = Row
  BY JobKept, RowLeft
<1>2. \A f, n : RowTerm(x, f, n)' = RowTerm(x, f, n)
  BY TermsKept
<1>3. \A i, j : Load(mem', <<x, i, j>>) = Load(mem, <<x, i, j>>)
  BY DEF Leaves
<1>4. \A f \in 0 .. Pairs - 1, n \in 0 .. Width(x) - 1 : Load(mem, <<x, Row[f], n>>) = RowTerm(x, f, n)
  BY DEF RowMade
<1> QED BY <1>1, <1>2, <1>3, <1>4 DEF RowMade

\* So does a sum over the rows of a token,
LEMMA TokenMadeKept ==
  ASSUME job' = job, NEW y, NEW x, TokenMade(y, x), Ready(y), Leaves(y)
  PROVE  TokenMade(y, x)'
<1>1. Sh' = Sh
  BY JobKept
<1>2. \A f, n : RowTerm(x, f, n)' = RowTerm(x, f, n)
  BY TermsKept
<1> QED BY <1>1, <1>2 DEF TokenMade, Leaves

\* the gradient of the gates,
LEMMA GateMadeKept ==
  ASSUME job' = job, GateMade, Ready("g_gate"), Leaves("g_gate")
  PROVE  GateMade'
<1>1. Sh' = Sh /\ Pairs' = Pairs
  BY JobKept
<1>2. \A x, f, n : RowTerm(x, f, n)' = RowTerm(x, f, n)
  BY TermsKept
<1> QED BY <1>1, <1>2 DEF GateMade, Leaves

\* the token of every row,
LEMMA IndexMadeKept ==
  ASSUME job' = job, IndexMade, Ready("aidx"), Ready("sidx")', Leaves("aidx"), Leaves("sidx")
  PROVE  IndexMade'
<1>1. Sh' = Sh /\ Pairs' = Pairs /\ Row' = Row
  BY JobKept, RowLeft
<1> QED BY <1>1 DEF IndexMade, Leaves

\* and the gradient of the weights.
LEMMA WeightMadeKept ==
  ASSUME job' = job, NEW c, WeightMade(c), Ready(c), Leaves(c)
  PROVE  WeightMade(c)'
<1>1. Sh' = Sh
  BY JobKept
<1>2. \A v, e, n, j : Reduces(v, c, e, n, j)' <=> Reduces(v, c, e, n, j)
  BY TermsKept
<1>3. \A e, n, j : Load(mem', <<c, e, n, j>>) = Load(mem, <<c, e, n, j>>)
  BY DEF Leaves
<1>4. \A e \in 0 .. Sh.E - 1, n \in 0 .. Width(GradOf(c)) - 1, j \in 0 .. Width(InputOf(c)) - 1 : Reduces(Load(mem, <<c, e, n, j>>), c, e, n, j)
  BY DEF WeightMade
<1>5. ASSUME NEW e \in 0 .. Sh.E - 1, NEW n \in 0 .. Width(GradOf(c)) - 1, NEW j \in 0 .. Width(InputOf(c)) - 1
      PROVE  Reduces(Load(mem, <<c, e, n, j>>), c, e, n, j)'
  <2>1. PICK v : v = Load(mem, <<c, e, n, j>>)
    OBVIOUS
  <2>2. Reduces(v, c, e, n, j)
    BY <1>4, <2>1
  <2>3. Reduces(v, c, e, n, j)' /\ v = Load(mem, <<c, e, n, j>>)'
    BY <1>2, <1>3, <2>1, <2>2
  <2> QED BY <2>3 DEF Reduces
<1> QED BY <1>1, <1>5 DEF WeightMade

\* A program of a launch leaves the values.
LEMMA RunValues ==
  ASSUME MoEJob(job), Values, NEW p \in Launch(at).grid, RunProgram(p)
  PROVE  Values'
<1>1. job' = job
  BY DEF RunProgram
<1>2. \A x : x \notin {"hist", "cumcopy"} => Leaves(x)
  BY RunCells DEF Leaves
<1>3. \A x : Ready(x)' <=> Ready(x)
  BY ReadyRun
<1>4. /\ \A x \in RowTensors : RowMade(x)
      /\ TokenMade("moe", "fc2") /\ TokenMade("g_x", "g_scat") /\ GateMade /\ IndexMade /\ \A c \in WeightProducts : WeightMade(c)
  BY DEF Values
<1>5. ASSUME NEW x \in RowTensors PROVE RowMade(x)'
  <2>1. CASE ~ Ready(x)
    BY <1>3, <2>1 DEF RowMade
  <2>2. CASE Ready(x)
    <3>1. Leaves(x) /\ Leaves("sidx")
      BY <1>2 DEF RowTensors
    <3>2. RowMade(x) /\ Ready("sidx")'
      BY <1>3, <1>4, <2>2 DEF RowMade
    <3> QED BY <1>1, <2>2, <3>1, <3>2, RowsMadeKept
  <2> QED BY <2>1, <2>2
<1>6. ASSUME NEW y \in {"moe", "g_x"}, NEW x, TokenMade(y, x) PROVE TokenMade(y, x)'
  <2>1. CASE ~ Ready(y)
    BY <1>3, <2>1 DEF TokenMade
  <2>2. CASE Ready(y)
    BY <1>1, <1>2, <1>6, <2>2, TokenMadeKept
  <2> QED BY <2>1, <2>2
<1>7. GateMade'
  <2>1. CASE ~ Ready("g_gate")
    BY <1>3, <2>1 DEF GateMade
  <2>2. CASE Ready("g_gate")
    BY <1>1, <1>2, <1>4, <2>2, GateMadeKept
  <2> QED BY <2>1, <2>2
<1>8. IndexMade'
  <2>1. CASE ~ Ready("aidx")
    BY <1>3, <2>1 DEF IndexMade
  <2>2. CASE Ready("aidx")
    <3>1. Ready("sidx")'
      BY <1>3, <1>4, <2>2 DEF IndexMade
    <3> QED BY <1>1, <1>2, <1>4, <2>2, <3>1, IndexMadeKept
  <2> QED BY <2>1, <2>2
<1>9. ASSUME NEW c \in WeightProducts PROVE WeightMade(c)'
  <2>1. CASE ~ Ready(c)
    <3>1. ~ Ready(c)'
      BY <1>3, <2>1
    <3> QED BY ONLY <3>1 DEF WeightMade
  <2>2. CASE Ready(c)
    <3>1. c \notin {"hist", "cumcopy"}
      BY DEF WeightProducts
    <3>2. Leaves(c) /\ WeightMade(c)
      BY <1>2, <1>4, <3>1
    <3> QED BY ONLY <1>1, <2>2, <3>2, WeightMadeKept
  <2> QED BY <2>1, <2>2
<1> QED BY <1>4, <1>5, <1>6, <1>7, <1>8, <1>9 DEF Values

\* What is ready is not made again.
LEMMA FinishLeaves ==
  ASSUME Stream, MoEJob(job), at <= Len(job.launches), StoresNamed, FinishLaunch, NEW x, Ready(x)
  PROVE  Leaves(x) /\ Ready(x)'
<1>1. x \notin Makes(Launch(at))
  BY LaunchOfLayer
<1>2. Leaves(x)
  BY <1>1, FinishCells DEF Leaves
<1> QED BY <1>2, ReadyFinish

-----------------------------------------------------------------------------
\* The running launch, with the rows, the inputs and the values it may read.
Computing ==
  /\ Stream /\ MoEJob(job) /\ at <= Len(job.launches)
  /\ StoresNamed /\ InputsKept /\ Cumulative /\ Rows /\ Values

\* Sorted rows are a permutation of the pairs, and a row among those of an expert is
\* of a pair of that expert.
LEMMA RowFacts ==
  ASSUME MoEJob(job), Rows, Ready("sidx")
  PROVE  /\ \A f \in 0 .. Pairs - 1 : Row[f] \in 0 .. Pairs - 1
         /\ \A f, h \in 0 .. Pairs - 1 : Row[f] = Row[h] => f = h
         /\ \A r \in 0 .. Pairs - 1 : \E f \in 0 .. Pairs - 1 : Row[f] = r
<1>1. Routing(Pairs, Sh.E, Ex) /\ Sorted(Pairs, Ex, Row)
  BY JobIsLayer DEF Rows
<1>2. {Row[f] : f \in 0 .. Pairs - 1} = 0 .. Pairs - 1 /\ \A f \in 0 .. Pairs - 1 : Row[f] \in 0 .. Pairs - 1
  BY <1>1, SortedOnto
<1>3. \A r \in 0 .. Pairs - 1 : \E f \in 0 .. Pairs - 1 : Row[f] = r
  BY <1>2
<1> QED BY <1>1, <1>2, <1>3 DEF Sorted

\* The rows between the cumulative counts of an expert are those of its pairs.
LEMMA RowExpert ==
  ASSUME MoEJob(job), Rows, Ready("sidx"), Cumulative, Ready("cum"), NEW f \in 0 .. Pairs - 1, NEW g \in 0 .. Sh.E - 1
  PROVE  (GroupStart(mem, g) <= Row[f] /\ Row[f] < Load(mem, <<"cum", g>>)) <=> g = Ex[f]
<1> DEFINE e == Ex[f]
<1>1. Routing(Pairs, Sh.E, Ex) /\ Sorted(Pairs, Ex, Row) /\ e \in 0 .. Sh.E - 1
  BY JobIsLayer DEF Rows, Routing
<1>2. Row[f] \in Int /\ Cardinality(Under(Pairs, Ex, e)) <= Row[f] /\ Row[f] < Cardinality(UpTo(Pairs, Ex, e))
  BY <1>1 DEF Sorted
<1> HIDE DEF e
<1>3. ASSUME NEW d \in 0 .. Sh.E - 1
      PROVE  /\ GroupStart(mem, d) = Cardinality(Under(Pairs, Ex, d)) /\ Load(mem, <<"cum", d>>) = Cardinality(UpTo(Pairs, Ex, d))
             /\ Cardinality(Under(Pairs, Ex, d)) \in Nat /\ Cardinality(UpTo(Pairs, Ex, d)) \in Nat
  <2>1. /\ GroupStart(mem, d) = Cardinality(Under(Pairs, Ex, d)) /\ Load(mem, <<"cum", d>>) = Cardinality(UpTo(Pairs, Ex, d))
        /\ Cardinality(Under(Pairs, Ex, d)) \in Nat /\ Cardinality(Of(Pairs, Ex, d)) \in Nat
        /\ Cardinality(UpTo(Pairs, Ex, d)) = Cardinality(Under(Pairs, Ex, d)) + Cardinality(Of(Pairs, Ex, d))
    BY GroupIs
  <2> QED BY <2>1
<1>4. ASSUME g = e PROVE GroupStart(mem, g) <= Row[f] /\ Row[f] < Load(mem, <<"cum", g>>)
  BY <1>1, <1>2, <1>3, <1>4
<1>5. ASSUME GroupStart(mem, g) <= Row[f], Row[f] < Load(mem, <<"cum", g>>), g # e PROVE FALSE
  <2>1. g \in Int /\ e \in Int
    BY <1>1
  <2>4. /\ Cardinality(Under(Pairs, Ex, g)) <= Row[f] /\ Row[f] < Cardinality(UpTo(Pairs, Ex, g))
        /\ Cardinality(Under(Pairs, Ex, g)) \in Nat /\ Cardinality(UpTo(Pairs, Ex, g)) \in Nat
    BY <1>3, <1>5
  <2>5. Cardinality(Under(Pairs, Ex, e)) \in Nat /\ Cardinality(UpTo(Pairs, Ex, e)) \in Nat
    BY <1>1, <1>3
  <2>2. CASE g < e
    <3>1. Cardinality(UpTo(Pairs, Ex, g)) <= Cardinality(Under(Pairs, Ex, e))
      BY <1>1, <2>1, <2>2, ExpertsApart
    <3> QED BY ONLY <1>2, <2>4, <2>5, <3>1
  <2>3. CASE e < g
    <3>1. Cardinality(UpTo(Pairs, Ex, e)) <= Cardinality(Under(Pairs, Ex, g))
      BY <1>1, <2>1, <2>3, ExpertsApart
    <3> QED BY ONLY <1>2, <2>4, <2>5, <3>1
  <2> QED BY <1>5, <2>1, <2>2, <2>3
<1> QED BY <1>4, <1>5 DEF e

\* Stores of a launch that give every row of a tensor its term.
RowStores(c, S) ==
  \A f \in 0 .. Pairs - 1, n \in 0 .. Width(c) - 1 :
    /\ << <<c, Row[f], n>>, RowTerm(c, f, n) >> \in S
    /\ \A w \in S : w[1] = <<c, Row[f], n>> => w[2] = RowTerm(c, f, n)

\* When a launch with such stores ends, its tensor is made.
LEMMA RowWritten ==
  ASSUME Computing, FinishLaunch, Launch(at).kernel \notin Atomic, Ready("sidx"), NEW c,
         RowStores(c, AllStores(Launch(at), mem))
  PROVE  RowMade(c)'
<1>1. job' = job
  BY DEF FinishLaunch
<1>2. Stream /\ MoEJob(job) /\ at <= Len(job.launches) /\ StoresNamed
  BY DEF Computing
<1>3. Ready("sidx")' /\ Leaves("sidx")
  BY <1>2, FinishLeaves
<1>4. Pairs' = Pairs /\ Row' = Row
  BY <1>1, <1>3, JobKept, RowLeft
<1>5. mem' = Write(AllStores(Launch(at), mem), mem)
  BY <1>2, StreamFinish
<1>6. \A f, n : RowTerm(c, f, n)' = RowTerm(c, f, n)
  BY <1>1, TermsKept
<1>7. ASSUME NEW f \in 0 .. Pairs - 1, NEW n \in 0 .. Width(c) - 1
      PROVE  Load(mem', <<c, Row[f], n>>) = RowTerm(c, f, n)
  <2>1. /\ << <<c, Row[f], n>>, RowTerm(c, f, n) >> \in AllStores(Launch(at), mem)
        /\ \A w \in AllStores(Launch(at), mem) : w[1] = <<c, Row[f], n>> => w[2] = RowTerm(c, f, n)
    BY DEF RowStores
  <2>2. Load(Write(AllStores(Launch(at), mem), mem), <<c, Row[f], n>>) = RowTerm(c, f, n)
    BY ONLY <2>1, WriteStored
  <2> QED BY ONLY <1>5, <2>2
<1> QED BY <1>3, <1>4, <1>6, <1>7 DEF RowMade

\* Membership in what all programs store.
LEMMA InAllStores ==
  ASSUME NEW l, NEW m, NEW w
  PROVE  w \in AllStores(l, m) <=> \E p \in l.grid : w \in Stored(l, p, 0, m)
BY DEF AllStores

\* A token and a position in its choices give a pair.
LEMMA PairAt ==
  ASSUME MoEJob(job), NEW t \in 0 .. Sh.T - 1, NEW k \in 0 .. Sh.topk - 1
  PROVE  /\ t * Sh.topk + k \in 0 .. Pairs - 1
         /\ (t * Sh.topk + k) \div Sh.topk = t /\ (t * Sh.topk + k) % Sh.topk = k
<1>1. Sh.T \in Nat /\ Sh.topk \in Nat \ {0} /\ Pairs \in Nat /\ t \in Nat /\ k \in Nat /\ k < Sh.topk /\ t + 1 <= Sh.T
  BY JobIsLayer
<1>2. PICK a : a = t * Sh.topk + k
  OBVIOUS
<1>3. t * Sh.topk \in Nat /\ (t + 1) * Sh.topk = t * Sh.topk + Sh.topk
  BY <1>1, MulSucc
<1>4. (t + 1) * Sh.topk <= Sh.T * Sh.topk /\ Sh.T * Sh.topk = Pairs
  BY <1>1, MulMono DEF Pairs
<1>5. a \in Nat /\ a \in 0 .. Pairs - 1
  BY <1>1, <1>2, <1>3, <1>4
<1>6. a \div Sh.topk = t /\ a % Sh.topk = k
  BY ONLY <1>1, <1>2, <1>5, DivUnique
<1> QED BY <1>2, <1>5, <1>6

\* The inputs, as every kernel reads them.
LEMMA InputIs ==
  ASSUME MoEJob(job), InputsKept
  PROVE  /\ \A t \in 0 .. Sh.T - 1, n \in 0 .. H - 1, x \in {"x", "gout"} : Load(mem, <<x, t, n>>) = <<x, t, n>>
         /\ \A t \in 0 .. Sh.T - 1, k \in 0 .. Sh.topk - 1 : Load(mem, <<"gate", t, k>>) = <<"gate", t, k>>
<1>1. MoEInputs(Sh, job.mem)
  BY JobIsLayer
<1>2. /\ \A t \in 0 .. Sh.T - 1 : \A n \in 0 .. H - 1, x \in {"x", "gout"} : Load(job.mem, <<x, t, n>>) = <<x, t, n>>
      /\ \A t \in 0 .. Sh.T - 1 : \A k \in 0 .. Sh.topk - 1 : Load(job.mem, <<"gate", t, k>>) = <<"gate", t, k>>
  BY <1>1 DEF MoEInputs
<1> QED BY <1>2 DEF InputsKept

\* The columns of all programs of a token are those of the hidden dimension.
LEMMA ColumnOf ==
  ASSUME NEW n \in 0 .. H - 1
  PROVE  /\ n \div HiddenBlock \in 0 .. Cdiv(H, HiddenBlock) - 1
         /\ \A t : n \in Columns(<<t, n \div HiddenBlock>>, H)
<1>1. H \in Nat /\ HiddenBlock \in Nat \ {0}
  BY MoEAssumption
<1>2. n \div HiddenBlock \in 0 .. Cdiv(H, HiddenBlock) - 1
  BY <1>1, TileOf
<1>3. n \in Lanes(n \div HiddenBlock, HiddenBlock)
  <2>1. n \in Nat /\ n \div HiddenBlock \in Nat
    BY <1>1, <1>2
  <2> QED BY <1>1, <2>1, LaneOf
<1>4. n < H
  BY <1>1
<1>5. \A t : n \in Columns(<<t, n \div HiddenBlock>>, H)
  <2> TAKE t
  <2>1. <<t, n \div HiddenBlock>>[2] = n \div HiddenBlock
    OBVIOUS
  <2> QED BY <1>3, <1>4, <2>1 DEF Columns
<1> QED BY <1>2, <1>5

\* The scatter gives every pair the row of its token.
LEMMA ScatterRows ==
  ASSUME Computing, Launch(at).kernel = "scatter", Ready("sidx")
  PROVE  RowStores(Launch(at).o, AllStores(Launch(at), mem))
<1>0. PICK l : l = Launch(at)
  OBVIOUS
<1>1. Stream /\ MoEJob(job) /\ at <= Len(job.launches) /\ InputsKept /\ Rows
  BY DEF Computing
<1>2. LayerLaunch(Sh, l) /\ l.kernel = "scatter"
  BY <1>0, <1>1, LaunchOfLayer
<1>3. /\ l.grid = (0 .. Sh.T - 1) \X (0 .. Cdiv(H, HiddenBlock) - 1) /\ l.topk = Sh.topk
      /\ (l.x = "x" /\ l.o = "scat") \/ (l.x = "gout" /\ l.o = "g_fc2")
  BY <1>2 DEF LayerLaunch, LaunchForm, TorchOps, RowGrid
<1>4. Width(l.o) = H
  BY <1>3 DEF Width
<1>5. ASSUME NEW f \in 0 .. Pairs - 1, NEW n \in 0 .. H - 1
      PROVE  RowTerm(l.o, f, n) = Load(mem, <<l.x, f \div Sh.topk, n>>)
  <2>1. f \div Sh.topk \in 0 .. Sh.T - 1
    BY <1>1, PairOf
  <2>2. Load(mem, <<l.x, f \div Sh.topk, n>>) = <<l.x, f \div Sh.topk, n>>
    BY <1>1, <1>3, <2>1, InputIs
  <2>3. RowTerm(l.o, f, n) = <<l.x, f \div Sh.topk, n>>
    BY <1>3 DEF RowTerm, TermOf
  <2> QED BY <2>2, <2>3
<1>6. \A p, k : Stored(l, p, k, mem) = _moe_scatter_kernel(l, p, mem)
  BY <1>2 DEF Stored
<1>7. ASSUME NEW f \in 0 .. Pairs - 1, NEW n \in 0 .. H - 1
      PROVE  << <<l.o, Row[f], n>>, RowTerm(l.o, f, n) >> \in AllStores(l, mem)
  <2> DEFINE p == <<f \div Sh.topk, n \div HiddenBlock>>
             i == f % Sh.topk
             w == << <<l.o, Row[f], n>>, RowTerm(l.o, f, n) >>
  <2>1. f \div Sh.topk \in 0 .. Sh.T - 1 /\ i \in 0 .. l.topk - 1
    BY <1>1, <1>3, PairOf
  <2>2. n \div HiddenBlock \in 0 .. Cdiv(H, HiddenBlock) - 1 /\ n \in Columns(p, H)
    BY ColumnOf
  <2>3. p \in l.grid /\ p[1] = f \div Sh.topk
    BY <1>3, <2>1, <2>2
  <2>4. Row[f] = Sidx(mem, p[1], i)
    BY <2>3 DEF Row
  <2>5. w = << <<l.o, Sidx(mem, p[1], i), n>>, Load(mem, <<l.x, p[1], n>>) >>
    BY <1>5, <2>3, <2>4
  <2> HIDE DEF p, i, w
  <2>6. \E j \in 0 .. l.topk - 1, m \in Columns(p, H) :
          w = << <<l.o, Sidx(mem, p[1], j), m>>, Load(mem, <<l.x, p[1], m>>) >>
    BY <2>1, <2>2, <2>5
  <2>7. w \in _moe_scatter_kernel(l, p, mem)
    BY ONLY <2>6, SMT DEF _moe_scatter_kernel
  <2>8. w \in AllStores(l, mem)
    BY <1>6, <2>3, <2>7, InAllStores
  <2> QED BY <2>8 DEF w
<1>8. ASSUME NEW f \in 0 .. Pairs - 1, NEW n \in 0 .. H - 1, NEW w \in AllStores(l, mem), w[1] = <<l.o, Row[f], n>>
      PROVE  w[2] = RowTerm(l.o, f, n)
  <2>1. PICK p \in l.grid : w \in _moe_scatter_kernel(l, p, mem)
    BY <1>6, InAllStores
  <2>2. PICK i \in 0 .. l.topk - 1, m \in Columns(p, H) :
          w = << <<l.o, Sidx(mem, p[1], i), m>>, Load(mem, <<l.x, p[1], m>>) >>
    BY ONLY <2>1, SMT DEF _moe_scatter_kernel
  <2>3. m = n /\ Sidx(mem, p[1], i) = Row[f]
    BY <1>8, <2>2
  <2>4. p[1] \in 0 .. Sh.T - 1 /\ i \in 0 .. Sh.topk - 1
    BY <1>3
  <2>5. PICK h : h = p[1] * Sh.topk + i
    OBVIOUS
  <2>6. h \in 0 .. Pairs - 1 /\ h \div Sh.topk = p[1] /\ h % Sh.topk = i
    BY <1>1, <2>4, <2>5, PairAt
  <2>7. Row[h] = Row[f]
    BY <2>3, <2>6 DEF Row
  <2>8. h = f
    BY <1>1, <2>6, <2>7, RowFacts
  <2> QED BY <1>5, <2>2, <2>3, <2>6, <2>8
<1> QED BY <1>0, <1>4, <1>7, <1>8 DEF RowStores

\* The sum of the gradients of the two halves.
LEMMA GradSumRows ==
  ASSUME Computing, Launch(at).kernel = "grad_sum", Ready("sidx")
  PROVE  RowStores("g_scat", AllStores(Launch(at), mem))
<1>0. PICK l : l = Launch(at)
  OBVIOUS
<1>1. Stream /\ MoEJob(job) /\ at <= Len(job.launches) /\ InputsKept /\ Rows /\ Values
  BY DEF Computing
<1>2. LayerLaunch(Sh, l) /\ l.kernel = "grad_sum" /\ \A x \in Needs(l) : Ready(x)
  BY <1>0, <1>1, LaunchOfLayer
<1>3. l.grid = {<<0>>} /\ l.topk = Sh.topk /\ l.T = Sh.T
  BY <1>2 DEF LayerLaunch, LaunchForm, TorchOps
<1>4. Flat(l) = 0 .. Pairs - 1 /\ Width("g_scat") = H /\ Width("g_scat1") = H /\ Width("g_scat2") = H
  BY <1>3 DEF Flat, Pairs, Width
<1>5. AllStores(l, mem) = GradSum(l, mem)
  BY <1>2, <1>3, OneProgram DEF Stored
<1>6. RowMade("g_scat1") /\ RowMade("g_scat2") /\ Ready("g_scat1") /\ Ready("g_scat2")
  BY <1>1, <1>2 DEF Values, RowTensors, Needs
<1>7. ASSUME NEW f \in 0 .. Pairs - 1, NEW n \in 0 .. H - 1
      PROVE  RowTerm("g_scat", f, n) = << Load(mem, <<"g_scat1", Row[f], n>>), Load(mem, <<"g_scat2", Row[f], n>>) >>
  <2>1. /\ Load(mem, <<"g_scat1", Row[f], n>>) = RowTerm("g_scat1", f, n)
        /\ Load(mem, <<"g_scat2", Row[f], n>>) = RowTerm("g_scat2", f, n)
    BY <1>4, <1>6 DEF RowMade
  <2>2. RowTerm("g_scat", f, n) = <<RowTerm("g_scat1", f, n), RowTerm("g_scat2", f, n)>>
    BY DEF RowTerm, TermOf
  <2> QED BY <2>1, <2>2
<1>8. \A w : w \in GradSum(l, mem) <=>
        \E r \in Flat(l), n \in 0 .. H - 1 :
          w = << <<"g_scat", r, n>>, << Load(mem, <<"g_scat1", r, n>>), Load(mem, <<"g_scat2", r, n>>) >> >>
  BY ONLY SMT DEF GradSum
<1>9. ASSUME NEW f \in 0 .. Pairs - 1, NEW n \in 0 .. H - 1
      PROVE  /\ << <<"g_scat", Row[f], n>>, RowTerm("g_scat", f, n) >> \in GradSum(l, mem)
             /\ \A w \in GradSum(l, mem) : w[1] = <<"g_scat", Row[f], n>> => w[2] = RowTerm("g_scat", f, n)
  <2>1. Row[f] \in Flat(l)
    BY <1>1, <1>4, RowFacts
  <2>2. << <<"g_scat", Row[f], n>>, RowTerm("g_scat", f, n) >> \in GradSum(l, mem)
    BY ONLY <1>7, <1>8, <2>1
  <2>3. ASSUME NEW w \in GradSum(l, mem), w[1] = <<"g_scat", Row[f], n>> PROVE w[2] = RowTerm("g_scat", f, n)
    <3>1. PICK r \in Flat(l), m \in 0 .. H - 1 :
            w = << <<"g_scat", r, m>>, << Load(mem, <<"g_scat1", r, m>>), Load(mem, <<"g_scat2", r, m>>) >> >>
      BY ONLY <1>8, w \in GradSum(l, mem)
    <3>2. r = Row[f] /\ m = n
      BY ONLY <2>3, <3>1
    <3>3. w[2] = << Load(mem, <<"g_scat1", r, m>>), Load(mem, <<"g_scat2", r, m>>) >>
      BY ONLY <3>1
    <3> QED BY ONLY <1>7, <3>2, <3>3, f \in 0 .. Pairs - 1, n \in 0 .. H - 1
  <2> QED BY <2>2, <2>3
<1> QED BY <1>0, <1>4, <1>5, <1>9 DEF RowStores

\* The gate of a row is that of its pair.
LEMMA GateIs ==
  ASSUME Computing, Ready("sidx"), NEW l, l.T = Sh.T, l.topk = Sh.topk, NEW f \in 0 .. Pairs - 1
  PROVE  ScatteredGate(l, mem, Row[f]) = <<"gate", f \div Sh.topk, f % Sh.topk>>
<1>1. MoEJob(job) /\ InputsKept /\ Rows
  BY DEF Computing
<1>2. Flat(l) = 0 .. Pairs - 1
  BY DEF Flat, Pairs
<1>3. \A h \in Flat(l) : Sidx(mem, h \div l.topk, h % l.topk) = Row[h]
  BY <1>2 DEF Row
<1> DEFINE P(h) == Sidx(mem, h \div l.topk, h % l.topk) = Row[f]
           c == CHOOSE h \in Flat(l) : P(h)
<1>4. c = f
  <2>1. f \in Flat(l) /\ P(f)
    BY <1>2, <1>3
  <2>2. c \in Flat(l) /\ P(c)
    <3> HIDE DEF P
    <3> QED BY <2>1
  <2>3. Row[c] = Row[f]
    BY <1>3, <2>2
  <2> QED BY <1>1, <1>2, <2>2, <2>3, RowFacts
<1>5. ScatteredGate(l, mem, Row[f]) = Load(mem, <<"gate", c \div l.topk, c % l.topk>>)
  BY DEF ScatteredGate
<1>6. f \div Sh.topk \in 0 .. Sh.T - 1 /\ f % Sh.topk \in 0 .. Sh.topk - 1
  BY <1>1, PairOf
<1> HIDE DEF c
<1>7. ScatteredGate(l, mem, Row[f]) = Load(mem, <<"gate", f \div Sh.topk, f % Sh.topk>>)
  BY <1>4, <1>5
<1> QED BY <1>1, <1>6, <1>7, InputIs

\* The activation of a row.
LEMMA ActivationRows ==
  ASSUME Computing, Launch(at).kernel = "activation", Ready("sidx")
  PROVE  RowStores("wact", AllStores(Launch(at), mem))
<1>0. PICK l : l = Launch(at)
  OBVIOUS
<1>1. Stream /\ MoEJob(job) /\ at <= Len(job.launches) /\ InputsKept /\ Rows /\ Values
  BY DEF Computing
<1>2. LayerLaunch(Sh, l) /\ l.kernel = "activation" /\ \A x \in Needs(l) : Ready(x)
  BY <1>0, <1>1, LaunchOfLayer
<1>3. l.grid = {<<0>>} /\ l.topk = Sh.topk /\ l.T = Sh.T
  BY <1>2 DEF LayerLaunch, LaunchForm, TorchOps
<1>4. Flat(l) = 0 .. Pairs - 1 /\ Width("wact") = I /\ Width("fc1_1") = I /\ Width("fc1_2") = I
  BY <1>3 DEF Flat, Pairs, Width
<1>5. AllStores(l, mem) = Activation(l, mem)
  BY <1>2, <1>3, OneProgram DEF Stored
<1>6. RowMade("fc1_1") /\ RowMade("fc1_2") /\ Ready("fc1_1") /\ Ready("fc1_2")
  BY <1>1, <1>2 DEF Values, RowTensors, Needs
<1>7. ASSUME NEW f \in 0 .. Pairs - 1, NEW n \in 0 .. I - 1
      PROVE  RowTerm("wact", f, n) = << "act", Load(mem, <<"fc1_1", Row[f], n>>), Load(mem, <<"fc1_2", Row[f], n>>),
                                        ScatteredGate(l, mem, Row[f]) >>
  <2>1. /\ Load(mem, <<"fc1_1", Row[f], n>>) = RowTerm("fc1_1", f, n)
        /\ Load(mem, <<"fc1_2", Row[f], n>>) = RowTerm("fc1_2", f, n)
    BY <1>4, <1>6 DEF RowMade
  <2>2. RowTerm("wact", f, n) = <<"act", RowTerm("fc1_1", f, n), RowTerm("fc1_2", f, n), <<"gate", f \div Sh.topk, f % Sh.topk>> >>
    BY DEF RowTerm, TermOf, Act
  <2>3. ScatteredGate(l, mem, Row[f]) = <<"gate", f \div Sh.topk, f % Sh.topk>>
    BY <1>3, GateIs
  <2> QED BY <2>1, <2>2, <2>3
<1>8. \A w : w \in Activation(l, mem) <=>
        \E r \in Flat(l), n \in 0 .. I - 1 :
          w = << <<"wact", r, n>>, << "act", Load(mem, <<"fc1_1", r, n>>), Load(mem, <<"fc1_2", r, n>>),
                                      ScatteredGate(l, mem, r) >> >>
  BY ONLY SMT DEF Activation
<1>9. ASSUME NEW f \in 0 .. Pairs - 1, NEW n \in 0 .. I - 1
      PROVE  /\ << <<"wact", Row[f], n>>, RowTerm("wact", f, n) >> \in Activation(l, mem)
             /\ \A w \in Activation(l, mem) : w[1] = <<"wact", Row[f], n>> => w[2] = RowTerm("wact", f, n)
  <2>1. Row[f] \in Flat(l)
    BY <1>1, <1>4, RowFacts
  <2>2. << <<"wact", Row[f], n>>, RowTerm("wact", f, n) >> \in Activation(l, mem)
    BY ONLY <1>7, <1>8, <2>1
  <2>3. ASSUME NEW w \in Activation(l, mem), w[1] = <<"wact", Row[f], n>> PROVE w[2] = RowTerm("wact", f, n)
    <3>1. PICK r \in Flat(l), m \in 0 .. I - 1 :
            w = << <<"wact", r, m>>, << "act", Load(mem, <<"fc1_1", r, m>>), Load(mem, <<"fc1_2", r, m>>),
                                        ScatteredGate(l, mem, r) >> >>
      BY ONLY <1>8, w \in Activation(l, mem)
    <3>2. r = Row[f] /\ m = n
      BY ONLY <2>3, <3>1
    <3>3. w[2] = << "act", Load(mem, <<"fc1_1", r, m>>), Load(mem, <<"fc1_2", r, m>>), ScatteredGate(l, mem, r) >>
      BY ONLY <3>1
    <3> QED BY ONLY <1>7, <3>2, <3>3, f \in 0 .. Pairs - 1, n \in 0 .. I - 1
  <2> QED BY <2>2, <2>3
<1> QED BY <1>0, <1>4, <1>5, <1>9 DEF RowStores

\* The gradient of the activation reads these.
LEMMA GradNeeds ==
  ASSUME Computing, Launch(at).kernel = "activation_grad", Ready("sidx")
  PROVE  /\ Flat(Launch(at)) = 0 .. Pairs - 1 /\ Launch(at).T = Sh.T /\ Launch(at).topk = Sh.topk
         /\ AllStores(Launch(at), mem) = ActivationGrad(Launch(at), mem)
         /\ \A x \in {"fc1_1", "fc1_2", "g_wact"}, f \in 0 .. Pairs - 1, n \in 0 .. I - 1 :
              Load(mem, <<x, Row[f], n>>) = RowTerm(x, f, n)
<1>0. PICK l : l = Launch(at)
  OBVIOUS
<1>1. Stream /\ MoEJob(job) /\ at <= Len(job.launches) /\ Values
  BY DEF Computing
<1>2. LayerLaunch(Sh, l) /\ l.kernel = "activation_grad" /\ \A x \in Needs(l) : Ready(x)
  BY <1>0, <1>1, LaunchOfLayer
<1>3. l.grid = {<<0>>} /\ l.topk = Sh.topk /\ l.T = Sh.T
  BY <1>2 DEF LayerLaunch, LaunchForm, TorchOps
<1>4. Flat(l) = 0 .. Pairs - 1
  BY <1>3 DEF Flat, Pairs
<1>5. AllStores(l, mem) = ActivationGrad(l, mem)
  BY <1>2, <1>3, OneProgram DEF Stored
<1>6. \A x \in {"fc1_1", "fc1_2", "g_wact"} : RowMade(x) /\ Ready(x) /\ Width(x) = I
  BY <1>1, <1>2 DEF Values, RowTensors, Needs, Width
<1> QED BY <1>0, <1>3, <1>4, <1>5, <1>6 DEF RowMade

\* What it stores to a tensor of rows.
LEMMA InRowGrad ==
  ASSUME NEW l, NEW m, NEW d, NEW w
  PROVE  w \in RowGrad(l, m, d) <=>
           \E r \in Flat(l), j \in 0 .. I - 1 :
             w = << <<d, r, j>>, << d, Load(m, <<"g_wact", r, j>>), Load(m, <<"fc1_1", r, j>>),
                                    Load(m, <<"fc1_2", r, j>>), ScatteredGate(l, m, r) >> >>
<1> DEFINE V(r, j) == << <<d, r, j>>, << d, Load(m, <<"g_wact", r, j>>), Load(m, <<"fc1_1", r, j>>),
                                         Load(m, <<"fc1_2", r, j>>), ScatteredGate(l, m, r) >> >>
<1>1. RowGrad(l, m, d) = {V(r, j) : r \in Flat(l), j \in 0 .. I - 1}
  BY DEF RowGrad
<1>2. w \in RowGrad(l, m, d) <=> \E r \in Flat(l), j \in 0 .. I - 1 : w = V(r, j)
  <2> HIDE DEF V
  <2> QED BY ONLY <1>1, SMT
<1> QED BY ONLY <1>2

\* The gradients through the activation.
LEMMA RowGradRows ==
  ASSUME Computing, Launch(at).kernel = "activation_grad", Ready("sidx"), NEW d \in {"g_fc1_1", "g_fc1_2"}
  PROVE  RowStores(d, AllStores(Launch(at), mem))
<1>0. PICK l : l = Launch(at)
  OBVIOUS
<1>1. MoEJob(job) /\ Rows
  BY DEF Computing
<1>2. /\ Flat(l) = 0 .. Pairs - 1 /\ l.T = Sh.T /\ l.topk = Sh.topk
      /\ AllStores(l, mem) = ActivationGrad(l, mem)
      /\ \A x \in {"fc1_1", "fc1_2", "g_wact"}, f \in 0 .. Pairs - 1, n \in 0 .. I - 1 :
           Load(mem, <<x, Row[f], n>>) = RowTerm(x, f, n)
  BY <1>0, GradNeeds
<1>4. Width(d) = I
  BY DEF Width
<1>7. ASSUME NEW f \in 0 .. Pairs - 1, NEW n \in 0 .. I - 1
      PROVE  RowTerm(d, f, n) = << d, Load(mem, <<"g_wact", Row[f], n>>), Load(mem, <<"fc1_1", Row[f], n>>),
                                   Load(mem, <<"fc1_2", Row[f], n>>), ScatteredGate(l, mem, Row[f]) >>
  <2>1. /\ Load(mem, <<"fc1_1", Row[f], n>>) = RowTerm("fc1_1", f, n)
        /\ Load(mem, <<"fc1_2", Row[f], n>>) = RowTerm("fc1_2", f, n)
        /\ Load(mem, <<"g_wact", Row[f], n>>) = RowTerm("g_wact", f, n)
    BY <1>2
  <2>2. RowTerm(d, f, n) = <<d, RowTerm("g_wact", f, n), RowTerm("fc1_1", f, n), RowTerm("fc1_2", f, n),
                             <<"gate", f \div Sh.topk, f % Sh.topk>> >>
    BY DEF RowTerm, TermOf, ActGrad
  <2>3. ScatteredGate(l, mem, Row[f]) = <<"gate", f \div Sh.topk, f % Sh.topk>>
    BY <1>2, GateIs
  <2> QED BY <2>1, <2>2, <2>3
<1>10. \A w \in GateGrad(l, mem) : w[1][1] = "g_gate"
  <2> TAKE w \in GateGrad(l, mem)
  <2>1. \E a, b, c : w = << <<"g_gate", a, b>>, c >>
    BY Zenon DEF GateGrad
  <2> QED BY <2>1
<1>9. ASSUME NEW f \in 0 .. Pairs - 1, NEW n \in 0 .. I - 1
      PROVE  /\ << <<d, Row[f], n>>, RowTerm(d, f, n) >> \in ActivationGrad(l, mem)
             /\ \A w \in ActivationGrad(l, mem) : w[1] = <<d, Row[f], n>> => w[2] = RowTerm(d, f, n)
  <2>1. Row[f] \in Flat(l)
    BY <1>1, <1>2, RowFacts
  <2>2. << <<d, Row[f], n>>, RowTerm(d, f, n) >> \in RowGrad(l, mem, d)
    <3>1. \E r \in Flat(l), j \in 0 .. I - 1 :
            << <<d, Row[f], n>>, RowTerm(d, f, n) >> =
            << <<d, r, j>>, << d, Load(mem, <<"g_wact", r, j>>), Load(mem, <<"fc1_1", r, j>>),
                               Load(mem, <<"fc1_2", r, j>>), ScatteredGate(l, mem, r) >> >>
      BY ONLY <1>7, <2>1, f \in 0 .. Pairs - 1, n \in 0 .. I - 1
    <3> QED BY ONLY <3>1, InRowGrad
  <2>3. ASSUME NEW w \in ActivationGrad(l, mem), w[1] = <<d, Row[f], n>> PROVE w[2] = RowTerm(d, f, n)
    <3>0. w[1][1] = d
      BY ONLY <2>3
    <3>4. w \notin GateGrad(l, mem)
      BY <1>10, <3>0
    <3>5. PICK x \in {"g_fc1_1", "g_fc1_2"} : w \in RowGrad(l, mem, x)
      BY <3>4 DEF ActivationGrad
    <3>1. PICK r \in Flat(l), m \in 0 .. I - 1 :
            w = << <<x, r, m>>, << x, Load(mem, <<"g_wact", r, m>>), Load(mem, <<"fc1_1", r, m>>),
                                 Load(mem, <<"fc1_2", r, m>>), ScatteredGate(l, mem, r) >> >>
      BY ONLY <3>5, InRowGrad
    <3>2. x = d /\ r = Row[f] /\ m = n
      BY ONLY <2>3, <3>1
    <3>3. w[2] = << x, Load(mem, <<"g_wact", r, m>>), Load(mem, <<"fc1_1", r, m>>),
                    Load(mem, <<"fc1_2", r, m>>), ScatteredGate(l, mem, r) >>
      BY ONLY <3>1
    <3> QED BY ONLY <1>7, <3>2, <3>3, f \in 0 .. Pairs - 1, n \in 0 .. I - 1
  <2> QED BY <2>2, <2>3 DEF ActivationGrad
<1> QED BY <1>0, <1>2, <1>4, <1>9 DEF RowStores

\* The gradient of the gates.
LEMMA GateGradMade ==
  ASSUME Computing, Launch(at).kernel = "activation_grad", Ready("sidx"), FinishLaunch
  PROVE  GateMade'
<1>0. PICK l : l = Launch(at)
  OBVIOUS
<1>1. Stream /\ MoEJob(job) /\ at <= Len(job.launches) /\ Rows
  BY DEF Computing
<1>2. /\ Flat(l) = 0 .. Pairs - 1 /\ l.T = Sh.T /\ l.topk = Sh.topk
      /\ AllStores(l, mem) = ActivationGrad(l, mem)
      /\ \A x \in {"fc1_1", "fc1_2", "g_wact"}, f \in 0 .. Pairs - 1, n \in 0 .. I - 1 :
           Load(mem, <<x, Row[f], n>>) = RowTerm(x, f, n)
  BY <1>0, GradNeeds
<1>3. job' = job /\ mem' = Write(ActivationGrad(l, mem), mem)
  BY <1>0, <1>1, <1>2, StreamFinish DEF Atomic, FinishLaunch
<1> DEFINE V(f) == [j \in 1 .. I |-> [x \in {"fc1_1", "fc1_2", "g_wact"} |-> RowTerm(x, f, j - 1)]]
           W(f) == [j \in 1 .. I |-> [x \in {"fc1_1", "fc1_2", "g_wact"} |->
                       Load(mem, <<x, Sidx(mem, f \div l.topk, f % l.topk), j - 1>>)]]
<1>4. ASSUME NEW f \in 0 .. Pairs - 1 PROVE V(f) = W(f)
  <2>1. Sidx(mem, f \div l.topk, f % l.topk) = Row[f]
    BY <1>2 DEF Row
  <2>2. ASSUME NEW j \in 1 .. I, NEW x \in {"fc1_1", "fc1_2", "g_wact"}
        PROVE  RowTerm(x, f, j - 1) = Load(mem, <<x, Sidx(mem, f \div l.topk, f % l.topk), j - 1>>)
    <3>1. I \in Nat
      BY MoEAssumption
    <3>2. j - 1 \in 0 .. I - 1
      BY <3>1
    <3> QED BY <1>2, <2>1, <3>2
  <2> QED BY <2>2, Zenon
<1>5. GateGrad(l, mem) = { << <<"g_gate", f \div l.topk, f % l.topk>>, W(f) >> : f \in Flat(l) }
  BY Zenon DEF GateGrad
<1> HIDE DEF V, W
<1>6. GateGrad(l, mem) = { << <<"g_gate", f \div Sh.topk, f % Sh.topk>>, V(f) >> : f \in 0 .. Pairs - 1 }
  BY ONLY <1>2, <1>4, <1>5
<1>7. \A d, w : w \in RowGrad(l, mem, d) => w[1][1] = d
  <2> SUFFICES ASSUME NEW d, NEW w \in RowGrad(l, mem, d) PROVE w[1][1] = d
    OBVIOUS
  <2>1. \E r \in Flat(l), n \in 0 .. I - 1 :
          w = << <<d, r, n>>, << d, Load(mem, <<"g_wact", r, n>>), Load(mem, <<"fc1_1", r, n>>),
                                 Load(mem, <<"fc1_2", r, n>>), ScatteredGate(l, mem, r) >> >>
    BY ONLY w \in RowGrad(l, mem, d), InRowGrad
  <2> QED BY <2>1
<1>8. ASSUME NEW f \in 0 .. Pairs - 1
      PROVE  Load(mem', <<"g_gate", f \div Sh.topk, f % Sh.topk>>) = V(f)
  <2> DEFINE c == <<"g_gate", f \div Sh.topk, f % Sh.topk>>
  <2>1. <<c, V(f)>> \in ActivationGrad(l, mem)
    BY <1>6 DEF ActivationGrad
  <2>2. ASSUME NEW w \in ActivationGrad(l, mem), w[1] = c PROVE w[2] = V(f)
    <3>1. w[1][1] = "g_gate"
      BY <2>2
    <3>2. w \in GateGrad(l, mem)
      <4>1. w \notin RowGrad(l, mem, "g_fc1_1") /\ w \notin RowGrad(l, mem, "g_fc1_2")
        BY <1>7, <3>1
      <4> QED BY <4>1 DEF ActivationGrad
    <3>3. PICK h \in 0 .. Pairs - 1 : w = << <<"g_gate", h \div Sh.topk, h % Sh.topk>>, V(h) >>
      BY <1>6, <3>2
    <3>4. h \div Sh.topk = f \div Sh.topk /\ h % Sh.topk = f % Sh.topk
      BY <2>2, <3>3
    <3>5. h = f
      BY <1>1, <3>4, CellsDiffer DEF Cell
    <3> QED BY <3>3, <3>5
  <2> HIDE DEF c
  <2>3. Load(Write(ActivationGrad(l, mem), mem), c) = V(f)
    BY ONLY <2>1, <2>2, WriteStored
  <2> QED BY <1>3, <2>3 DEF c
<1>9. Sh' = Sh /\ Pairs' = Pairs /\ \A x, f, n : RowTerm(x, f, n)' = RowTerm(x, f, n)
  BY <1>3, JobKept, TermsKept
<1> QED BY <1>8, <1>9 DEF GateMade, V

\* The gather gives every token the rows of its choices, in their order.
LEMMA GatherMade ==
  ASSUME Computing, FinishLaunch, Launch(at).kernel = "gather", Ready("sidx"),
         NEW y, NEW x, y = Launch(at).y, x = Launch(at).x
  PROVE  TokenMade(y, x)'
<1>0. PICK l : l = Launch(at)
  OBVIOUS
<1>1. Stream /\ MoEJob(job) /\ at <= Len(job.launches) /\ InputsKept /\ Rows /\ Values
  BY DEF Computing
<1>2. LayerLaunch(Sh, l) /\ l.kernel = "gather" /\ \A z \in Needs(l) : Ready(z)
  BY <1>0, <1>1, LaunchOfLayer
<1>3. /\ l.grid = (0 .. Sh.T - 1) \X (0 .. Cdiv(H, HiddenBlock) - 1) /\ l.topk = Sh.topk
      /\ (l.x = "fc2" /\ l.y = "moe") \/ (l.x = "g_scat" /\ l.y = "g_x")
  BY <1>2 DEF LayerLaunch, LaunchForm, TorchOps, RowGrid
<1>4. Width(l.x) = H /\ RowMade(l.x) /\ Ready(l.x)
  BY <1>1, <1>2, <1>3 DEF Width, Values, RowTensors, Needs
<1>5. job' = job /\ mem' = Write(AllStores(l, mem), mem)
  BY <1>0, <1>1, <1>2, StreamFinish DEF Atomic, FinishLaunch
<1> DEFINE V(t, n) == [k \in 1 .. Sh.topk |-> RowTerm(l.x, t * Sh.topk + (k - 1), n)]
           W(t, n) == [i \in 1 .. l.topk |-> Load(mem, <<l.x, Sidx(mem, t, i - 1), n>>)]
<1>6. ASSUME NEW t \in 0 .. Sh.T - 1, NEW n \in 0 .. H - 1 PROVE V(t, n) = W(t, n)
  <2>1. ASSUME NEW k \in 1 .. Sh.topk
        PROVE  RowTerm(l.x, t * Sh.topk + (k - 1), n) = Load(mem, <<l.x, Sidx(mem, t, k - 1), n>>)
    <3>1. Sh.topk \in Nat
      BY <1>1, JobIsLayer
    <3>2. k - 1 \in 0 .. Sh.topk - 1
      BY <3>1
    <3>3. PICK f : f = t * Sh.topk + (k - 1)
      OBVIOUS
    <3>4. f \in 0 .. Pairs - 1 /\ f \div Sh.topk = t /\ f % Sh.topk = k - 1
      BY <1>1, <3>2, <3>3, PairAt
    <3>5. Row[f] = Sidx(mem, t, k - 1)
      BY <3>4 DEF Row
    <3>6. Load(mem, <<l.x, Row[f], n>>) = RowTerm(l.x, f, n)
      BY <1>4, <3>4 DEF RowMade
    <3> QED BY <3>3, <3>5, <3>6
  <2> QED BY <1>3, <2>1
<1>7. \A p : Stored(l, p, 0, mem) = { << <<l.y, p[1], n>>, W(p[1], n) >> : n \in Columns(p, H) }
  <2> TAKE p
  <2>1. Stored(l, p, 0, mem) = _moe_gather_kernel(l, p, mem)
    BY <1>2 DEF Stored
  <2> QED BY <2>1, Zenon DEF _moe_gather_kernel
<1> HIDE DEF V, W
<1>8. ASSUME NEW t \in 0 .. Sh.T - 1, NEW n \in 0 .. H - 1 PROVE Load(mem', <<l.y, t, n>>) = V(t, n)
  <2> DEFINE p == <<t, n \div HiddenBlock>>
             c == <<l.y, t, n>>
  <2>1. p \in l.grid /\ n \in Columns(p, H) /\ p[1] = t
    BY <1>3, ColumnOf
  <2>2. <<c, V(t, n)>> \in Stored(l, p, 0, mem)
    <3>1. <<c, V(t, n)>> = << <<l.y, p[1], n>>, W(p[1], n) >>
      BY <1>6, <2>1
    <3> HIDE DEF p, c
    <3> QED BY <1>7, <2>1, <3>1
  <2>3. <<c, V(t, n)>> \in AllStores(l, mem)
    BY <2>1, <2>2, InAllStores
  <2>4. ASSUME NEW w \in AllStores(l, mem), w[1] = c PROVE w[2] = V(t, n)
    <3>1. PICK q \in l.grid : w \in Stored(l, q, 0, mem)
      BY InAllStores
    <3>2. PICK m \in Columns(q, H) : w = << <<l.y, q[1], m>>, W(q[1], m) >>
      BY <1>7, <3>1
    <3>3. q[1] = t /\ m = n
      BY <2>4, <3>2
    <3> QED BY <1>6, <3>2, <3>3
  <2> HIDE DEF c
  <2>5. Load(Write(AllStores(l, mem), mem), c) = V(t, n)
    BY ONLY <2>3, <2>4, WriteStored
  <2> QED BY <1>5, <2>5 DEF c
<1>9. Sh' = Sh /\ \A z, f, n : RowTerm(z, f, n)' = RowTerm(z, f, n)
  BY <1>5, JobKept, TermsKept
<1>10. y = l.y /\ x = l.x
  BY <1>0
<1> QED BY <1>8, <1>9, <1>10 DEF TokenMade, V

\* The token of every row.
LEMMA IndicesMade ==
  ASSUME Computing, FinishLaunch, Launch(at).kernel = "build_indices"
  PROVE  IndexMade'
<1>0. PICK l : l = Launch(at)
  OBVIOUS
<1>1. Stream /\ MoEJob(job) /\ at <= Len(job.launches) /\ InputsKept
  BY DEF Computing
<1>2. LayerLaunch(Sh, l) /\ l.kernel = "build_indices"
  BY <1>0, <1>1, LaunchOfLayer
<1>3. l.grid = {<<0>>} /\ l.topk = Sh.topk /\ l.T = Sh.T
  BY <1>2 DEF LayerLaunch, LaunchForm, TorchOps
<1>4. stores = _build_moe_indices(l, mem)
  <2>1. stores = Stored(l, <<0>>, 0, mem)
    BY <1>0, <1>1, <1>2, <1>3, TorchStored DEF Atomic
  <2> QED BY <1>2, <2>1 DEF Stored
<1>5. PICK row : row = [f \in 0 .. Pairs - 1 |-> Rank(Pairs, Ex, f)]
  OBVIOUS
<1>6. Sorted(Pairs, Ex, row)
  BY <1>1, <1>5, JobIsLayer, RankSorts
<1>7. /\ \A f \in 0 .. Pairs - 1 : <<Cell(f), row[f]>> \in ScatterIndex(l, mem)
      /\ \A w \in ScatterIndex(l, mem) : \E f \in 0 .. Pairs - 1 : w = <<Cell(f), row[f]>>
  BY <1>1, <1>3, <1>5, RankStored
<1> DEFINE A == { << <<"aidx", s[2]>>, s[1][2] >> : s \in ScatterIndex(l, mem) }
<1>8. stores = ScatterIndex(l, mem) \cup A
  BY <1>4 DEF _build_moe_indices
<1>9. /\ \A f \in 0 .. Pairs - 1 : << <<"aidx", row[f]>>, f \div Sh.topk >> \in A
      /\ \A w \in A : \E f \in 0 .. Pairs - 1 : w = << <<"aidx", row[f]>>, f \div Sh.topk >>
  <2>1. \A f : <<Cell(f), row[f]>>[2] = row[f] /\ <<Cell(f), row[f]>>[1][2] = f \div Sh.topk
    BY DEF Cell
  <2>2. ASSUME NEW f \in 0 .. Pairs - 1 PROVE << <<"aidx", row[f]>>, f \div Sh.topk >> \in A
    <3>1. PICK s \in ScatterIndex(l, mem) : s = <<Cell(f), row[f]>>
      BY <1>7
    <3>2. << <<"aidx", row[f]>>, f \div Sh.topk >> = << <<"aidx", s[2]>>, s[1][2] >>
      BY <2>1, <3>1
    <3> QED BY <3>2
  <2>3. ASSUME NEW w \in A PROVE \E f \in 0 .. Pairs - 1 : w = << <<"aidx", row[f]>>, f \div Sh.topk >>
    <3>1. PICK s \in ScatterIndex(l, mem) : w = << <<"aidx", s[2]>>, s[1][2] >>
      OBVIOUS
    <3>2. PICK f \in 0 .. Pairs - 1 : s = <<Cell(f), row[f]>>
      BY <1>7
    <3> QED BY <2>1, <3>1, <3>2
  <2> QED BY <2>2, <2>3
<1>10. \A w \in A : w[1][1] = "aidx"
  BY <1>9
<1>11. \A w \in ScatterIndex(l, mem) : w[1][1] = "sidx"
  BY <1>7 DEF Cell
<1> HIDE DEF A
<1>12. \A f \in 0 .. Pairs - 1 : Row'[f] = row[f]
  <2>1. \A f \in 0 .. Pairs - 1 : <<Cell(f), row[f]>> \in stores
    BY <1>7, <1>8
  <2>2. \A w \in stores : w[1][1] = "sidx" => \E f \in 0 .. Pairs - 1 : w = <<Cell(f), row[f]>>
    BY <1>7, <1>8, <1>10
  <2> QED BY <1>1, <2>1, <2>2, RowsStored
<1>13. ASSUME NEW f \in 0 .. Pairs - 1 PROVE Load(mem', <<"aidx", row[f]>>) = f \div Sh.topk
  <2> DEFINE c == <<"aidx", row[f]>>
  <2>1. <<c, f \div Sh.topk>> \in stores
    BY <1>8, <1>9
  <2>2. ASSUME NEW w \in stores, w[1] = c PROVE w[2] = f \div Sh.topk
    <3>1. w[1][1] = "aidx"
      BY <2>2
    <3>2. w \in A
      BY <1>8, <1>11, <3>1
    <3>3. PICK h \in 0 .. Pairs - 1 : w = << <<"aidx", row[h]>>, h \div Sh.topk >>
      BY <1>9, <3>2
    <3>4. row[h] = row[f]
      BY <2>2, <3>3
    <3>5. h = f
      BY <1>6, <3>4 DEF Sorted
    <3> QED BY <3>3, <3>5
  <2>3. mem' = Write(stores, mem)
    BY DEF FinishLaunch
  <2> HIDE DEF c
  <2>4. Load(Write(stores, mem), c) = f \div Sh.topk
    BY ONLY <2>1, <2>2, WriteStored
  <2> QED BY <2>3, <2>4 DEF c
<1>14. job' = job /\ Ready("sidx")'
  <2>1. "sidx" \in Makes(l)
    BY <1>2 DEF Makes
  <2> QED BY <1>0, <1>1, <2>1, ReadyFinish DEF FinishLaunch
<1>15. Sh' = Sh /\ Pairs' = Pairs
  BY <1>14, JobKept
<1> QED BY <1>12, <1>13, <1>14, <1>15 DEF IndexMade

\* The term of a product, from those of its operand.
LEMMA ProductTerm ==
  ASSUME NEW c \in RowProducts, NEW f, NEW n
  PROVE  RowTerm(c, f, n) = << Weight(c), Ex[f], n, [i \in 1 .. Width(Operand(c)) |-> RowTerm(Operand(c), f, i - 1)] >>
<1>1. CASE c = "fc1_1"
  BY <1>1 DEF RowTerm, TermOf, Weight, Operand, Width, Fc1, XRow
<1>2. CASE c = "fc1_2"
  BY <1>2 DEF RowTerm, TermOf, Weight, Operand, Width, Fc1, XRow
<1>3. CASE c = "fc2"
  BY <1>3 DEF RowTerm, TermOf, Weight, Operand, Width
<1>4. CASE c = "g_wact"
  BY <1>4 DEF RowTerm, TermOf, Weight, Operand, Width, GRow
<1>5. CASE c = "g_scat1"
  BY <1>5 DEF RowTerm, TermOf, Weight, Operand, Width, BackTerm
<1>6. CASE c = "g_scat2"
  BY <1>6 DEF RowTerm, TermOf, Weight, Operand, Width, BackTerm
<1> QED BY <1>1, <1>2, <1>3, <1>4, <1>5, <1>6 DEF RowProducts

\* The product of the external library, over rows or over an index of rows.
LEMMA QuackRows ==
  ASSUME Computing, Launch(at).kernel = "quack", Ready("sidx")
  PROVE  RowStores(Launch(at).c, AllStores(Launch(at), mem))
<1>0. PICK l : l = Launch(at)
  OBVIOUS
<1>1. Stream /\ MoEJob(job) /\ at <= Len(job.launches) /\ InputsKept /\ Rows /\ Values /\ Cumulative
  BY DEF Computing
<1>2. LayerLaunch(Sh, l) /\ l.kernel = "quack" /\ \A x \in Needs(l) : Ready(x)
  BY <1>0, <1>1, LaunchOfLayer
<1>3. /\ l.topk = Sh.topk /\ l.T = Sh.T /\ l.E = Sh.E
      /\ l.c \in RowProducts /\ l.b = Weight(l.c)
      /\ l.idx \in BOOLEAN /\ (l.idx => l.a = "x" /\ Operand(l.c) = "scat") /\ (~ l.idx => l.a = Operand(l.c))
      /\ l.N = Width(l.c) /\ l.K = Width(Operand(l.c)) /\ l.grid = {<<0>>}
  BY <1>2 DEF LayerLaunch, LaunchForm, TorchOps
<1>4. Ready("cum") /\ (l.idx => Ready("aidx")) /\ (~ l.idx => Ready(Operand(l.c)))
  BY <1>2, <1>3 DEF Needs
<1>5. Flat(l) = 0 .. Pairs - 1
  BY <1>3 DEF Flat, Pairs
<1>6. AllStores(l, mem) = quack_gemm(l, mem)
  BY <1>2, <1>3, OneProgram DEF Stored
<1>7. ASSUME NEW f \in 0 .. Pairs - 1 PROVE quack_group(l, mem, Row[f]) = Ex[f]
  <2>1. Ex[f] \in 0 .. l.E - 1
    BY <1>1, <1>3, JobIsLayer DEF Routing
  <2>2. \A g \in 0 .. l.E - 1 : (GroupStart(mem, g) <= Row[f] /\ Row[f] < Load(mem, <<"cum", g>>)) <=> g = Ex[f]
    BY <1>1, <1>3, <1>4, RowExpert
  <2> QED BY ONLY <2>1, <2>2 DEF quack_group
<1>8. ASSUME NEW f \in 0 .. Pairs - 1
      PROVE  quack_row(l, mem, Row[f]) = [i \in 1 .. Width(Operand(l.c)) |-> RowTerm(Operand(l.c), f, i - 1)]
  <2>1. ASSUME NEW i \in 1 .. l.K
        PROVE  Load(mem, <<l.a, IF l.idx THEN Load(mem, <<"aidx", Row[f]>>) ELSE Row[f], i - 1>>)
               = RowTerm(Operand(l.c), f, i - 1)
    <3>1. l.K \in Nat
      BY <1>3, MoEAssumption DEF Width
    <3>2. i - 1 \in 0 .. Width(Operand(l.c)) - 1
      BY <1>3, <3>1
    <3>3. CASE l.idx
      <4>1. Load(mem, <<"aidx", Row[f]>>) = f \div Sh.topk
        BY <1>1, <1>4, <3>3 DEF Values, IndexMade
      <4>2. f \div Sh.topk \in 0 .. Sh.T - 1 /\ i - 1 \in 0 .. H - 1
        BY <1>1, <1>3, <3>2, <3>3, PairOf DEF Width
      <4>3. Load(mem, <<"x", f \div Sh.topk, i - 1>>) = <<"x", f \div Sh.topk, i - 1>>
        BY <1>1, <4>2, InputIs
      <4>4. RowTerm("scat", f, i - 1) = <<"x", f \div Sh.topk, i - 1>>
        BY DEF RowTerm, TermOf
      <4> QED BY <1>3, <3>3, <4>1, <4>3, <4>4
    <3>4. CASE ~ l.idx
      <4>1. Operand(l.c) \in RowTensors
        BY <1>3 DEF Operand, RowProducts, RowTensors
      <4>2. Load(mem, <<Operand(l.c), Row[f], i - 1>>) = RowTerm(Operand(l.c), f, i - 1)
        BY <1>1, <1>4, <3>2, <3>4, <4>1 DEF Values, RowMade
      <4> QED BY <1>3, <3>4, <4>2
    <3> QED BY <3>3, <3>4
  <2> QED BY <1>3, <2>1 DEF quack_row
<1>9. ASSUME NEW f \in 0 .. Pairs - 1, NEW n
      PROVE  RowTerm(l.c, f, n) = << l.b, quack_group(l, mem, Row[f]), n, quack_row(l, mem, Row[f]) >>
  BY <1>3, <1>7, <1>8, ProductTerm
<1>10. ASSUME NEW f \in 0 .. Pairs - 1, NEW n \in 0 .. Width(l.c) - 1
       PROVE  << <<l.c, Row[f], n>>, RowTerm(l.c, f, n) >> \in AllStores(l, mem)
  <2> DEFINE w == << <<l.c, Row[f], n>>, RowTerm(l.c, f, n) >>
  <2>1. Row[f] \in Flat(l)
    BY <1>1, <1>5, RowFacts
  <2>2. w = << <<l.c, Row[f], n>>, << l.b, quack_group(l, mem, Row[f]), n, quack_row(l, mem, Row[f]) >> >>
    BY <1>9
  <2> HIDE DEF w
  <2>3. \E r \in Flat(l), m \in 0 .. l.N - 1 :
          w = << <<l.c, r, m>>, << l.b, quack_group(l, mem, r), m, quack_row(l, mem, r) >> >>
    BY <1>3, <2>1, <2>2
  <2>4. w \in quack_gemm(l, mem)
    BY ONLY <2>3, SMT DEF quack_gemm
  <2> QED BY <1>6, <2>4 DEF w
<1>11. ASSUME NEW f \in 0 .. Pairs - 1, NEW n, NEW w \in AllStores(l, mem), w[1] = <<l.c, Row[f], n>>
       PROVE  w[2] = RowTerm(l.c, f, n)
  <2>1. w \in quack_gemm(l, mem)
    BY <1>6
  <2>2. PICK r \in Flat(l), m \in 0 .. l.N - 1 :
          w = << <<l.c, r, m>>, << l.b, quack_group(l, mem, r), m, quack_row(l, mem, r) >> >>
    BY ONLY <2>1, SMT DEF quack_gemm
  <2>3. r = Row[f] /\ m = n
    BY <1>11, <2>2
  <2> QED BY <1>9, <2>2, <2>3
<1> QED BY <1>0, <1>10, <1>11 DEF RowStores

\* Routers give a token distinct experts, so an expert has at most one row per token.
LEMMA OneRowPerToken ==
  ASSUME MoEJob(job), NEW g
  PROVE  Cardinality(Of(Pairs, Ex, g)) <= Sh.T /\ Cardinality(Of(Pairs, Ex, g)) <= Pairs
<1> DEFINE S == Of(Pairs, Ex, g)
           U == 0 .. Sh.T - 1
           r == [f \in S |-> f \div Sh.topk]
<1>1. Sh.T \in Nat /\ Pairs \in Nat /\ MoEInputs(Sh, job.mem)
  BY JobIsLayer
<1>2. S \in SUBSET (0 .. Pairs - 1) /\ U \in SUBSET (0 .. Sh.T - 1)
  BY DEF Of
<1>3. \A f \in S : f \div Sh.topk \in U
  BY <1>2, PairOf
<1>4. ASSUME NEW f \in S, NEW h \in S, f \div Sh.topk = h \div Sh.topk PROVE f = h
  <2>1. f \in Flat(Sh) /\ h \in Flat(Sh)
    BY <1>2 DEF Flat, Pairs
  <2>2. ExpertOf(Sh, job.mem, f) = g /\ ExpertOf(Sh, job.mem, h) = g
    BY <1>2 DEF Of, Ex
  <2> QED BY <1>1, <1>4, <2>1, <2>2 DEF MoEInputs
<1>5. IsFiniteSet(U) /\ Cardinality(U) = Sh.T
  <2>1. 0 \in Int /\ Sh.T - 1 \in Int
    BY <1>1
  <2>2. IsFiniteSet(0 .. Sh.T - 1) /\ Cardinality(0 .. Sh.T - 1) = IF 0 > Sh.T - 1 THEN 0 ELSE Sh.T - 1 - 0 + 1
    BY ONLY <2>1, FS_Interval
  <2> QED BY <1>1, <2>2
<1> HIDE DEF S, U
<1>6. r \in Injection(S, U)
  <2>1. r \in [S -> U]
    BY <1>3
  <2>2. \A a, b \in S : r[a] = r[b] => a = b
    BY <1>4
  <2> HIDE DEF r
  <2> QED BY <2>1, <2>2 DEF Injection, IsInjective
<1>7. Cardinality(S) <= Cardinality(U)
  <2> HIDE DEF r
  <2> QED BY ONLY <1>5, <1>6, FS_Injection
<1>8. Cardinality(S) \in 0 .. Pairs
  BY <1>1, <1>2, Count
<1> QED BY <1>1, <1>5, <1>7, <1>8 DEF S

\* What one program of the grouped product stores.
LEMMA InGroupGemm ==
  ASSUME NEW l, NEW p, NEW m, NEW w, NEW tile, l.kernel = "gemm_nk",
         tile = get_pid_mn(p[1], Cdiv(l.max_M, GroupTile[1]), Cdiv(l.N, GroupTile[2]), GroupTile[4])
  PROVE  w \in Stored(l, p, 0, m) <=>
           /\ ~ (tile[1] * GroupTile[1] >= GroupSize(m, p[2]))
           /\ \E x \in GroupLanes(tile, GroupSize(m, p[2]), l.N) :
                w = << <<l.c, GroupStart(m, p[2]) + x[1], x[2]>>,
                       << l.b, p[2], x[2] % l.N, GroupRow(l, m, p[2], x[1]) >> >>
<1>1. Stored(l, p, 0, m) = group_gemm_same_nk_kernel(l, p, m)
  BY DEF Stored
<1>2. group_gemm_same_nk_kernel(l, p, m) =
        IF tile[1] * GroupTile[1] >= GroupSize(m, p[2]) THEN {}
        ELSE { << <<l.c, GroupStart(m, p[2]) + x[1], x[2]>>,
                  << l.b, p[2], x[2] % l.N, GroupRow(l, m, p[2], x[1]) >> >> :
               x \in GroupLanes(tile, GroupSize(m, p[2]), l.N) }
  BY DEF group_gemm_same_nk_kernel
<1> QED BY ONLY <1>1, <1>2, SMT

\* The lanes of a tile that are stored.
LEMMA InGroupLanes ==
  ASSUME NEW tile, NEW pm, NEW pn, tile = <<pm, pn>>, NEW m, NEW n, NEW x
  PROVE  x \in GroupLanes(tile, m, n) <=>
           x \in Lanes(pm, GroupTile[1]) \X Lanes(pn, GroupTile[2]) /\ x[1] < m /\ x[2] < n
BY DEF GroupLanes

\* Small dividends.
LEMMA ModSmall ==
  ASSUME NEW a \in Nat, NEW b \in Nat, a < b
  PROVE  a % b = a
<1>1. b \in Nat \ {0} /\ 0 \in Nat /\ a = 0 * b + a
  OBVIOUS
<1> QED BY <1>1, DivUnique

\* The grouped product gives every row its product, although it is launched for one
\* row per token and expert only.
LEMMA GemmRows ==
  ASSUME Computing, Launch(at).kernel = "gemm_nk", Ready("sidx")
  PROVE  RowStores(Launch(at).c, AllStores(Launch(at), mem))
<1>0. PICK l : l = Launch(at)
  OBVIOUS
<1>1. Stream /\ MoEJob(job) /\ at <= Len(job.launches) /\ InputsKept /\ Rows /\ Values /\ Cumulative
  BY DEF Computing
<1>2. LayerLaunch(Sh, l) /\ l.kernel = "gemm_nk" /\ \A x \in Needs(l) : Ready(x)
  BY <1>0, <1>1, LaunchOfLayer
<1>3. /\ l.topk = Sh.topk /\ l.T = Sh.T /\ l.E = Sh.E
      /\ l.c \in RowProducts /\ l.a = Operand(l.c) /\ l.b = Weight(l.c)
      /\ l.N = Width(l.c) /\ l.K = Width(l.a) /\ l.max_M \in {Sh.T * Sh.topk, Sh.T}
      /\ l.grid = TileGrid(Sh, l.max_M, l.N)
  BY <1>2 DEF LayerLaunch, LaunchForm, TorchOps
<1>4. Ready("cum") /\ Ready(l.a) /\ RowMade(l.a)
  <2>1. l.a \in RowTensors
    BY <1>3 DEF Operand, RowProducts, RowTensors
  <2> QED BY <1>1, <1>2, <2>1 DEF Needs, Values
<1> DEFINE bm == GroupTile[1]
           bn == GroupTile[2]
           bk == GroupTile[3]
           nm == Cdiv(l.max_M, bm)
           nn == Cdiv(l.N, bn)
<1>5. bm \in Nat \ {0} /\ bn \in Nat \ {0} /\ bk \in Nat \ {0} /\ GroupTile[4] \in Nat \ {0}
  BY MoEAssumption
<1>6. l.N \in Nat /\ l.K \in Nat /\ l.max_M \in Nat /\ Pairs \in Nat
  <2>1. l.N \in Nat /\ l.K \in Nat
    BY ONLY <1>3, MoEAssumption DEF Width, MoEAssumption
  <2>2. Sh.T \in Nat /\ Pairs \in Nat /\ Sh.T * Sh.topk = Pairs
    BY <1>1, JobIsLayer DEF Pairs
  <2> QED BY ONLY <1>3, <2>1, <2>2
<1>7. nm \in Nat /\ nn \in Nat
  BY <1>5, <1>6, CdivFacts
<1>8. l.grid = (0 .. nm * nn - 1) \X (0 .. Sh.E - 1)
  BY <1>3 DEF TileGrid
<1>9. PICK ks : ks = FlattenSeq(Chunks(l.K, bk))
  OBVIOUS
<1>10. ks = Upto(l.K)
  BY <1>5, <1>6, <1>9, FlatChunks
<1> HIDE DEF bm, bn, bk, nm, nn
<1>15. /\ \A q \in 0 .. nm - 1, r \in 0 .. nn - 1 : \E t \in 0 .. nm * nn - 1 : get_pid_mn(t, nm, nn, GroupTile[4]) = <<q, r>>
       /\ \A t \in 0 .. nm * nn - 1 : \E q \in 0 .. nm - 1, r \in 0 .. nn - 1 : get_pid_mn(t, nm, nn, GroupTile[4]) = <<q, r>>
  <2>1. GroupTile[4] \in Nat \ {0}
    BY <1>5
  <2>2. \A q \in 0 .. nm - 1, r \in 0 .. nn - 1 : \E t \in 0 .. nm * nn - 1 : get_pid_mn(t, nm, nn, GroupTile[4]) = <<q, r>>
    BY ONLY <1>7, <2>1, TileIsTaken
  <2>3. ASSUME NEW t \in 0 .. nm * nn - 1
        PROVE  \E q \in 0 .. nm - 1, r \in 0 .. nn - 1 : get_pid_mn(t, nm, nn, GroupTile[4]) = <<q, r>>
    BY ONLY <1>7, <2>1, t \in 0 .. nm * nn - 1, TileInRange
  <2> QED BY <2>2, <2>3
<1> DEFINE V(g, a, b) == << <<l.c, GroupStart(mem, g) + a, b>>,
                            << l.b, g, b % l.N, GroupRow(l, mem, g, a) >> >>
\* the term of a valid lane
<1>11. ASSUME NEW f \in 0 .. Pairs - 1, NEW a \in Nat, NEW b \in Nat, b < l.N,
              a < GroupSize(mem, Ex[f]), GroupStart(mem, Ex[f]) + a = Row[f]
       PROVE  V(Ex[f], a, b) = << <<l.c, Row[f], b>>, RowTerm(l.c, f, b) >>
  <2>1. Ex[f] \in 0 .. Sh.E - 1
    BY <1>1, JobIsLayer DEF Routing
  <2>2. GroupSize(mem, Ex[f]) \in Nat
    BY <1>1, <1>4, <2>1, GroupIs
  <2>3. a % GroupSize(mem, Ex[f]) = a /\ b % l.N = b
    BY <1>6, <1>11, <2>2, ModSmall
  <2>4. [i \in DOMAIN ks |-> Load(mem, <<l.a, Row[f], ks[i]>>)] = [i \in 1 .. Width(l.a) |-> RowTerm(l.a, f, i - 1)]
    <3>1. DOMAIN ks = 1 .. l.K /\ \A i \in 1 .. l.K : ks[i] = i - 1
      BY <1>6, <1>10 DEF Upto
    <3>2. ASSUME NEW i \in 1 .. l.K PROVE Load(mem, <<l.a, Row[f], i - 1>>) = RowTerm(l.a, f, i - 1)
      <4>1. i - 1 \in 0 .. Width(l.a) - 1
        BY <1>3, <1>6
      <4> QED BY <1>4, <4>1 DEF RowMade
    <3> QED BY <1>3, <3>1, <3>2
  <2>6. GroupRow(l, mem, Ex[f], a) = [i \in DOMAIN ks |-> Load(mem, <<l.a, Row[f], ks[i]>>)]
    BY <1>9, <1>11, <2>3 DEF GroupRow, bk
  <2>5. RowTerm(l.c, f, b) = << l.b, Ex[f], b, [i \in 1 .. Width(l.a) |-> RowTerm(l.a, f, i - 1)] >>
    BY <1>3, ProductTerm
  <2> QED BY <1>11, <2>3, <2>4, <2>5, <2>6
<1>12. ASSUME NEW p \in l.grid, NEW w, NEW pm, NEW pn, get_pid_mn(p[1], nm, nn, GroupTile[4]) = <<pm, pn>>
       PROVE  w \in Stored(l, p, 0, mem) <=>
                /\ ~ (pm * bm >= GroupSize(mem, p[2]))
                /\ \E x \in Lanes(pm, bm) \X Lanes(pn, bn) :
                     x[1] < GroupSize(mem, p[2]) /\ x[2] < l.N /\ w = V(p[2], x[1], x[2])
  <2>1. PICK tile : tile = <<pm, pn>>
    OBVIOUS
  <2>2. tile[1] = pm /\ tile = get_pid_mn(p[1], nm, nn, GroupTile[4])
    BY <1>12, <2>1
  <2>3. w \in Stored(l, p, 0, mem) <=>
          /\ ~ (tile[1] * bm >= GroupSize(mem, p[2]))
          /\ \E x \in GroupLanes(tile, GroupSize(mem, p[2]), l.N) : w = V(p[2], x[1], x[2])
    <3>1. l.kernel = "gemm_nk"
      BY <1>2
    <3>2. tile = get_pid_mn(p[1], Cdiv(l.max_M, GroupTile[1]), Cdiv(l.N, GroupTile[2]), GroupTile[4])
      BY <2>2 DEF bm, bn, nm, nn
    <3> QED BY ONLY <3>1, <3>2, InGroupGemm DEF bm
  <2>4. \A x : x \in GroupLanes(tile, GroupSize(mem, p[2]), l.N) <=>
                 x \in Lanes(pm, bm) \X Lanes(pn, bn) /\ x[1] < GroupSize(mem, p[2]) /\ x[2] < l.N
    BY <2>1, InGroupLanes DEF bm, bn
  <2> HIDE DEF V
  <2> QED BY ONLY <2>2, <2>3, <2>4
<1> HIDE DEF V
<1>13. ASSUME NEW f \in 0 .. Pairs - 1, NEW n \in 0 .. l.N - 1
       PROVE  << <<l.c, Row[f], n>>, RowTerm(l.c, f, n) >> \in AllStores(l, mem)
  <2> DEFINE g == Ex[f]
  <2>1. g \in 0 .. Sh.E - 1
    BY <1>1, JobIsLayer DEF Routing
  <2>2. /\ GroupStart(mem, g) \in Nat /\ GroupSize(mem, g) \in Nat
        /\ GroupSize(mem, g) = Cardinality(Of(Pairs, Ex, g))
        /\ Load(mem, <<"cum", g>>) = GroupStart(mem, g) + GroupSize(mem, g)
    BY <1>1, <1>4, <2>1, GroupIs
  <2>3. GroupStart(mem, g) <= Row[f] /\ Row[f] < Load(mem, <<"cum", g>>) /\ Row[f] \in Nat
    <3>1. Row[f] \in 0 .. Pairs - 1
      BY <1>1, RowFacts
    <3> QED BY <1>1, <1>4, <2>1, <3>1, RowExpert
  <2> HIDE DEF g
  <2>4. PICK a : a = Row[f] - GroupStart(mem, g)
    OBVIOUS
  <2>5. a \in Nat /\ a < GroupSize(mem, g) /\ GroupStart(mem, g) + a = Row[f]
    BY ONLY <2>2, <2>3, <2>4
  <2>6. a < l.max_M
    <3>1. Cardinality(Of(Pairs, Ex, g)) <= Sh.T /\ Cardinality(Of(Pairs, Ex, g)) <= Pairs
      BY <1>1, OneRowPerToken
    <3>2. l.max_M = Pairs \/ l.max_M = Sh.T
      BY <1>3 DEF Pairs
    <3> QED BY <1>6, <2>2, <2>5, <3>1, <3>2
  <2>7. a \in 0 .. l.max_M - 1 /\ n \in Nat /\ n < l.N
    BY <1>6, <2>5, <2>6
  <2> DEFINE pm == a \div bm
             pn == n \div bn
  <2>8. pm \in 0 .. nm - 1 /\ pn \in 0 .. nn - 1
    BY <1>5, <1>6, <2>7, TileOf DEF nm, nn
  <2>9. a \in Lanes(pm, bm) /\ n \in Lanes(pn, bn) /\ pm * bm <= a /\ pm * bm \in Nat
    <3>1. pm \in Nat /\ pn \in Nat
      BY <1>7, <2>8
    <3>2. a \in Lanes(pm, bm) /\ n \in Lanes(pn, bn)
      BY <1>5, <2>5, <2>7, <3>1, LaneOf
    <3> HIDE DEF pm, pn
    <3>3. pm * bm \in Nat
      BY <1>5, <3>1
    <3> QED BY <2>5, <3>2, <3>3 DEF Lanes
  <2> HIDE DEF pm, pn
  <2>10. PICK pid \in 0 .. nm * nn - 1 : get_pid_mn(pid, nm, nn, GroupTile[4]) = <<pm, pn>>
    BY ONLY <1>15, <2>8
  <2>11. PICK p : p = <<pid, g>>
    OBVIOUS
  <2>12. p \in l.grid /\ p[1] = pid /\ p[2] = g
    BY <1>8, <2>1, <2>11
  <2>13. ~ (pm * bm >= GroupSize(mem, p[2]))
    BY <2>2, <2>5, <2>9, <2>12
  <2>14. PICK x \in Lanes(pm, bm) \X Lanes(pn, bn) : x = <<a, n>>
    BY <2>9
  <2>15. x[1] = a /\ x[2] = n
    BY <2>14
  <2>16. V(g, a, n) \in Stored(l, p, 0, mem)
    <3>1. x[1] < GroupSize(mem, p[2]) /\ x[2] < l.N /\ V(g, a, n) = V(p[2], x[1], x[2])
      BY <2>5, <2>7, <2>12, <2>15
    <3>2. get_pid_mn(p[1], nm, nn, GroupTile[4]) = <<pm, pn>>
      BY <2>10, <2>12
    <3> QED BY ONLY <1>12, <2>12, <2>13, <3>1, <3>2, x \in Lanes(pm, bm) \X Lanes(pn, bn)
  <2>17. V(g, a, n) = << <<l.c, Row[f], n>>, RowTerm(l.c, f, n) >>
    BY <1>11, <2>5, <2>7 DEF g
  <2> QED BY <2>12, <2>16, <2>17, InAllStores
<1>14. ASSUME NEW f \in 0 .. Pairs - 1, NEW n, NEW w \in AllStores(l, mem), w[1] = <<l.c, Row[f], n>>
       PROVE  w[2] = RowTerm(l.c, f, n)
  <2>1. PICK p \in l.grid : w \in Stored(l, p, 0, mem)
    BY InAllStores
  <2>2. p[1] \in 0 .. nm * nn - 1 /\ p[2] \in 0 .. Sh.E - 1
    BY <1>8
  <2>3. PICK pm \in 0 .. nm - 1, pn \in 0 .. nn - 1 : get_pid_mn(p[1], nm, nn, GroupTile[4]) = <<pm, pn>>
    BY ONLY <1>15, <2>2
  <2>4. PICK x \in Lanes(pm, bm) \X Lanes(pn, bn) :
          x[1] < GroupSize(mem, p[2]) /\ x[2] < l.N /\ w = V(p[2], x[1], x[2])
    BY ONLY <1>12, <2>1, <2>3, p \in l.grid
  <2>5. x[1] \in Nat /\ x[2] \in Nat
    <3>1. x[1] \in Lanes(pm, bm) /\ x[2] \in Lanes(pn, bn) /\ pm \in Nat /\ pn \in Nat
      BY <1>7
    <3>2. pm * bm \in Nat /\ pn * bn \in Nat
      BY <1>5, <3>1
    <3> QED BY <1>5, <3>1, <3>2 DEF Lanes
  <2>6. GroupStart(mem, p[2]) + x[1] = Row[f] /\ x[2] = n
    BY <1>14, <2>4 DEF V
  <2>7. /\ GroupStart(mem, p[2]) \in Nat /\ GroupSize(mem, p[2]) \in Nat
        /\ Load(mem, <<"cum", p[2]>>) = GroupStart(mem, p[2]) + GroupSize(mem, p[2])
    BY <1>1, <1>4, <2>2, GroupIs
  <2>8. GroupStart(mem, p[2]) <= Row[f] /\ Row[f] < Load(mem, <<"cum", p[2]>>)
    BY <2>4, <2>5, <2>6, <2>7
  <2>9. p[2] = Ex[f]
    BY <1>1, <1>4, <2>2, <2>8, RowExpert
  <2>10. V(p[2], x[1], x[2]) = << <<l.c, Row[f], x[2]>>, RowTerm(l.c, f, x[2]) >>
    BY <1>11, <2>4, <2>5, <2>6, <2>9
  <2> QED BY <2>4, <2>6, <2>10
<1> QED BY <1>0, <1>3, <1>13, <1>14 DEF RowStores

-----------------------------------------------------------------------------
\* A prefix of what a loop visits, and what follows.
LEMMA VisitConcat ==
  ASSUME NEW p \in Nat, NEW e \in Nat, p <= e, NEW v
  PROVE  [j \in 1 .. p |-> v[j - 1]] \o [j \in 1 .. e - p |-> v[p + j - 1]] = [j \in 1 .. e |-> v[j - 1]]
OBVIOUS

\* What a loop over n lanes in tiles of w visits, tile by tile.
Visits(s, n, w, v) ==
  s = [t \in DOMAIN Chunks(n, w) |-> [i \in DOMAIN Chunks(n, w)[t] |-> v[Chunks(n, w)[t][i]]]]

\* Tile after tile, that is what it visits in ascending order of the lanes.
LEMMA FlatVisits ==
  ASSUME NEW n \in Nat, NEW w \in Nat \ {0}, NEW v, NEW s, Visits(s, n, w, v)
  PROVE  FlattenSeq(s) = [i \in 1 .. n |-> v[i - 1]]
<1> DEFINE c == Cdiv(n, w)
           End(i) == IF i * w <= n THEN i * w ELSE n
           Visit(e) == [j \in 1 .. e |-> v[j - 1]]
           g == [i \in 1 .. c |-> Visit(End(i))]
<1>1. c \in Nat /\ n <= c * w /\ c * w < n + w
  BY CdivFacts
<1>2. DOMAIN Chunks(n, w) = 1 .. c /\ DOMAIN s = 1 .. c
  BY DEF Chunks, Visits
<1>3. CASE c = 0
  <2>1. n = 0
    BY <1>1, <1>3
  <2>2. s = << >>
    BY <1>2, <1>3
  <2>3. FlattenSeq(s) = << >>
    BY <2>2 DEF FlattenSeq
  <2> QED BY <2>1, <2>3
<1>4. CASE c # 0
  <2>1. \A i \in 1 .. c : /\ i * w \in Nat /\ (i - 1) * w \in Nat /\ i * w = (i - 1) * w + w
                          /\ (i - 1) * w < n
    <3> TAKE i \in 1 .. c
    <3> HIDE DEF c
    <3>1. (i - 1) * w \in Nat /\ i * w \in Nat /\ i * w = (i - 1) * w + w
      OBVIOUS
    <3>2. i * w <= c * w /\ c * w \in Nat
      BY <1>1, MulMono
    <3> QED BY <1>1, <3>1, <3>2
  <2>2. ASSUME NEW i \in 1 .. c PROVE s[i] = [j \in 1 .. End(i) - (i - 1) * w |-> v[(i - 1) * w + j - 1]]
    <3>1. Chunks(n, w)[i] = [j \in 1 .. (IF i * w <= n THEN w ELSE n - (i - 1) * w) |-> (i - 1) * w + j - 1]
      BY DEF Chunks
    <3>2. s[i] = [j \in DOMAIN Chunks(n, w)[i] |-> v[Chunks(n, w)[i][j]]]
      BY <1>2 DEF Visits
    <3> HIDE DEF c
    <3>3. (IF i * w <= n THEN w ELSE n - (i - 1) * w) = End(i) - (i - 1) * w
      BY <2>1
    <3>4. PICK d : d = Chunks(n, w)[i]
      OBVIOUS
    <3>5. d = [j \in 1 .. End(i) - (i - 1) * w |-> (i - 1) * w + j - 1]
      BY <3>1, <3>3, <3>4
    <3>6. s[i] = [j \in DOMAIN d |-> v[d[j]]]
      BY <3>2, <3>4
    <3> HIDE DEF End
    <3> QED BY ONLY <3>5, <3>6
  <2> HIDE DEF c
  <2>3. \A i \in 1 .. c : g[i] = Visit(End(i))
    OBVIOUS
  <2>4. 1 \in 1 .. c /\ c \in 1 .. c /\ Len(s) = c
    BY <1>1, <1>2, <1>4
  <2>5. g[1] = s[1]
    <3>1. (1 - 1) * w = 0 /\ End(1) \in Nat
      BY <2>1, <2>4
    <3>2. s[1] = [j \in 1 .. End(1) - 0 |-> v[0 + j - 1]]
      BY <2>2, <2>4, <3>1
    <3> HIDE DEF End, g
    <3>3. s[1] = Visit(End(1))
      BY <3>1, <3>2
    <3> QED BY <2>3, <2>4, <3>3
  <2>6. ASSUME NEW i \in 2 .. c PROVE g[i] = g[i - 1] \o s[i]
    <3> DEFINE p == (i - 1) * w
               e == End(i)
    <3>0. i \in 1 .. c /\ i - 1 \in 1 .. c
      BY <1>1
    <3>1. End(i - 1) = p /\ p \in Nat /\ e \in Nat /\ p <= e
      BY <2>1, <3>0
    <3>2. s[i] = [j \in 1 .. e - p |-> v[p + j - 1]]
      BY <2>2, <3>0
    <3>3. g[i - 1] = [j \in 1 .. p |-> v[j - 1]] /\ g[i] = [j \in 1 .. e |-> v[j - 1]]
      <4>1. g[i - 1] = Visit(p) /\ g[i] = Visit(e)
        <5> HIDE DEF g, End, Visit
        <5> QED BY <2>3, <3>0, <3>1
      <4> HIDE DEF g, p, e
      <4> QED BY <4>1
    <3> HIDE DEF p, e, g
    <3>4. [j \in 1 .. p |-> v[j - 1]] \o [j \in 1 .. e - p |-> v[p + j - 1]] = [j \in 1 .. e |-> v[j - 1]]
      BY ONLY <3>1, VisitConcat
    <3> QED BY ONLY <3>2, <3>3, <3>4
  <2>7. FlattenSeq(s) = g[c]
    <3>1. c \in Nat \ {0}
      BY <1>1, <1>4
    <3> HIDE DEF g
    <3>2. Len(s) = c /\ g[1] = s[1] /\ \A i \in 2 .. c : g[i] = g[i - 1] \o s[i]
      BY <2>4, <2>5, <2>6
    <3> QED BY ONLY <3>1, <3>2, FlattenIs, ZenonT(60)
  <2>8. End(c) = n
    BY <1>1, <2>1, <2>4
  <2>9. g[c] = Visit(n)
    <3> HIDE DEF g, End, Visit
    <3> QED BY <2>3, <2>4, <2>8
  <2> QED BY <2>7, <2>9
<1> QED BY <1>3, <1>4

\* A single tile.
LEMMA FlatOne ==
  ASSUME NEW q
  PROVE  FlattenSeq(<<q>>) = q
<1>1. PICK s : s = <<q>>
  OBVIOUS
<1>2. Len(s) = 1 /\ s[1] = q
  BY <1>1
<1>3. \A i \in 2 .. 1 : s[i] = s[i - 1] \o s[i]
  OBVIOUS
<1>4. 1 \in Nat \ {0}
  OBVIOUS
<1>5. FlattenSeq(s) = s[1]
  BY ONLY <1>2, <1>3, <1>4, FlattenIs
<1> QED BY <1>1, <1>2, <1>5

\* The blocked reduction over the rows of an expert visits them in the order of the
\* unblocked one.
LEMMA ReducedFlat ==
  ASSUME NEW l, NEW m, NEW g, NEW a, NEW b, GroupSize(m, g) \in Nat, GroupStart(m, g) \in Nat
  PROVE  FlattenSeq(GroupReduced(l, m, g, a, b)) = quack_reduced(l, m, g, a, b)
<1> DEFINE k == GroupSize(m, g)
           z == GroupStart(m, g)
           w == GroupTile[3]
           v == [r \in Int |-> << Load(m, <<l.a, z + r, a>>), Load(m, <<l.b, z + r, b>>) >>]
           rs == Chunks(k, w)
           s == [t \in DOMAIN rs |-> [i \in DOMAIN rs[t] |-> v[rs[t][i]]]]
<1>1. w \in Nat \ {0} /\ k \in Nat /\ z \in Nat
  BY MoEAssumption
<1> HIDE DEF k, z, w
<1>2. Cdiv(k, w) \in Nat
  BY <1>1, CdivFacts
<1>3. ASSUME NEW t \in DOMAIN rs, NEW i \in DOMAIN rs[t] PROVE rs[t][i] \in Int
  <2>1. t \in 1 .. Cdiv(k, w)
    BY DEF Chunks
  <2>2. rs[t] = [j \in 1 .. (IF t * w <= k THEN w ELSE k - (t - 1) * w) |-> (t - 1) * w + j - 1]
    BY <2>1 DEF Chunks
  <2>3. (t - 1) * w \in Int /\ t \in Int
    BY <1>1, <1>2, <2>1
  <2>4. PICK x : x = IF t * w <= k THEN w ELSE k - (t - 1) * w
    OBVIOUS
  <2>5. rs[t] = [j \in 1 .. x |-> (t - 1) * w + j - 1]
    BY <2>2, <2>4
  <2> HIDE DEF rs
  <2>6. i \in 1 .. x /\ rs[t][i] = (t - 1) * w + i - 1
    BY ONLY <1>3, <2>5
  <2> QED BY <2>3, <2>6
<1>4. CASE k # 0
  <2>1. GroupReduced(l, m, g, a, b) =
          [t \in DOMAIN rs |-> [i \in DOMAIN rs[t] |-> << Load(m, <<l.a, z + rs[t][i], a>>), Load(m, <<l.b, z + rs[t][i], b>>) >>]]
    BY <1>4 DEF GroupReduced, k, z, w
  <2>2. ASSUME NEW t \in DOMAIN rs, NEW i \in DOMAIN rs[t]
        PROVE  v[rs[t][i]] = << Load(m, <<l.a, z + rs[t][i], a>>), Load(m, <<l.b, z + rs[t][i], b>>) >>
    <3> HIDE DEF rs
    <3> QED BY <1>3
  <2>3. GroupReduced(l, m, g, a, b) = s
    <3> HIDE DEF rs, v
    <3> QED BY ONLY <2>1, <2>2
  <2>4. FlattenSeq(s) = [i \in 1 .. k |-> v[i - 1]]
    <3>1. PICK y : y = s
      OBVIOUS
    <3>2. PICK u : u = v
      OBVIOUS
    <3>3. Visits(y, k, w, u)
      BY ONLY <3>1, <3>2 DEF Visits
    <3> HIDE DEF s, v
    <3>4. FlattenSeq(y) = [i \in 1 .. k |-> u[i - 1]]
      BY ONLY <1>1, <3>3, FlatVisits
    <3> QED BY ONLY <3>1, <3>2, <3>4
  <2>5. [i \in 1 .. k |-> v[i - 1]] = quack_reduced(l, m, g, a, b)
    <3>1. \A i \in 1 .. k : z + (i - 1) = z + i - 1 /\ i - 1 \in Int
      BY <1>1
    <3>2. \A i \in 1 .. k : v[i - 1] = << Load(m, <<l.a, z + i - 1, a>>), Load(m, <<l.b, z + i - 1, b>>) >>
      BY <3>1
    <3>3. quack_reduced(l, m, g, a, b) = [i \in 1 .. k |-> << Load(m, <<l.a, z + i - 1, a>>), Load(m, <<l.b, z + i - 1, b>>) >>]
      BY DEF quack_reduced, k, z
    <3> HIDE DEF v
    <3> QED BY ONLY <3>2, <3>3
  <2> HIDE DEF s, v
  <2> QED BY <2>3, <2>4, <2>5
<1>5. CASE k = 0
  <2>1. GroupReduced(l, m, g, a, b) = << >>
    BY <1>5 DEF GroupReduced, k
  <2>2. FlattenSeq(<< >>) = << >>
    BY DEF FlattenSeq
  <2>3. quack_reduced(l, m, g, a, b) = << >>
    BY <1>5 DEF quack_reduced, k
  <2> QED BY <2>1, <2>2, <2>3
<1> QED BY <1>4, <1>5

\* The reduction over the rows of an expert is one over the pairs routed to it.
LEMMA ReducedTerms ==
  ASSUME Computing, Ready("sidx"), Ready("cum"), NEW c \in WeightProducts,
         Ready(GradOf(c)), Ready(InputOf(c)), NEW l, l.a = GradOf(c), l.b = InputOf(c),
         NEW e \in 0 .. Sh.E - 1, NEW n \in 0 .. Width(GradOf(c)) - 1, NEW j \in 0 .. Width(InputOf(c)) - 1
  PROVE  /\ Len(quack_reduced(l, mem, e, n, j)) = Cardinality(Of(Pairs, Ex, e))
         /\ ToSet(quack_reduced(l, mem, e, n, j)) = GradTerms(c, e, n, j)
<1> DEFINE k == GroupSize(mem, e)
           z == GroupStart(mem, e)
           V(f) == << RowTerm(GradOf(c), f, n), RowTerm(InputOf(c), f, j) >>
<1>1. MoEJob(job) /\ Rows /\ Cumulative /\ RowMade(GradOf(c)) /\ RowMade(InputOf(c))
  BY DEF Computing, Values, RowTensors, WeightProducts, GradOf, InputOf
<1>2. /\ k = Cardinality(Of(Pairs, Ex, e)) /\ k \in Nat /\ z \in Nat
      /\ Load(mem, <<"cum", e>>) = z + k
  BY <1>1, GroupIs
<1>3. z + k <= Pairs /\ Pairs \in Nat
  <2>1. Pairs \in Nat
    BY <1>1, JobIsLayer
  <2>2. UpTo(Pairs, Ex, e) \in SUBSET (0 .. Pairs - 1)
    BY DEF UpTo
  <2>3. Cardinality(UpTo(Pairs, Ex, e)) \in 0 .. Pairs
    BY <2>1, <2>2, Count
  <2>4. Load(mem, <<"cum", e>>) = Cardinality(UpTo(Pairs, Ex, e))
    BY <1>1, GroupIs
  <2> QED BY <1>2, <2>1, <2>3, <2>4
<1>4. PICK q : q = quack_reduced(l, mem, e, n, j)
  OBVIOUS
<1>5. q = [i \in 1 .. k |-> << Load(mem, <<GradOf(c), z + i - 1, n>>), Load(mem, <<InputOf(c), z + i - 1, j>>) >>]
  BY <1>4 DEF quack_reduced
<1>6. ASSUME NEW f \in 0 .. Pairs - 1, NEW i \in 1 .. k, Row[f] = z + i - 1
      PROVE  q[i] = V(f)
  <2>1. /\ Load(mem, <<GradOf(c), Row[f], n>>) = RowTerm(GradOf(c), f, n)
        /\ Load(mem, <<InputOf(c), Row[f], j>>) = RowTerm(InputOf(c), f, j)
    BY <1>1 DEF RowMade
  <2> HIDE DEF k, z
  <2>2. q[i] = << Load(mem, <<GradOf(c), z + i - 1, n>>), Load(mem, <<InputOf(c), z + i - 1, j>>) >>
    BY ONLY <1>5, i \in 1 .. k
  <2> QED BY <1>6, <2>1, <2>2
<1>7. \A f \in 0 .. Pairs - 1 : (z <= Row[f] /\ Row[f] < z + k) <=> f \in Of(Pairs, Ex, e)
  <2> TAKE f \in 0 .. Pairs - 1
  <2>1. (z <= Row[f] /\ Row[f] < Load(mem, <<"cum", e>>)) <=> e = Ex[f]
    BY <1>1, RowExpert
  <2> HIDE DEF z, k
  <2> QED BY <1>2, <2>1 DEF Of
<1>8. /\ \A f \in 0 .. Pairs - 1 : Row[f] \in 0 .. Pairs - 1
      /\ \A r \in 0 .. Pairs - 1 : \E f \in 0 .. Pairs - 1 : Row[f] = r
  BY <1>1, RowFacts
<1>9. GradTerms(c, e, n, j) = {V(f) : f \in Of(Pairs, Ex, e)} /\ Of(Pairs, Ex, e) \subseteq 0 .. Pairs - 1
  BY DEF GradTerms, Of
<1>10. DOMAIN q = 1 .. k /\ Len(q) = k
  BY <1>2, <1>5
<1> HIDE DEF k, z, V
<1>11. ASSUME NEW i \in 1 .. k PROVE \E f \in Of(Pairs, Ex, e) : q[i] = V(f)
  <2>1. z + i - 1 \in 0 .. Pairs - 1 /\ z <= z + i - 1 /\ z + i - 1 < z + k
    BY <1>2, <1>3
  <2>2. PICK f \in 0 .. Pairs - 1 : Row[f] = z + i - 1
    BY <1>8, <2>1
  <2>3. f \in Of(Pairs, Ex, e)
    BY <1>7, <2>1, <2>2
  <2> QED BY <1>6, <2>2, <2>3
<1>12. ASSUME NEW f \in Of(Pairs, Ex, e) PROVE \E i \in 1 .. k : q[i] = V(f)
  <2>1. f \in 0 .. Pairs - 1 /\ z <= Row[f] /\ Row[f] < z + k /\ Row[f] \in Int
    BY <1>3, <1>7, <1>8, <1>9
  <2>2. PICK i : i = Row[f] - z + 1
    OBVIOUS
  <2>3. i \in 1 .. k /\ Row[f] = z + i - 1
    BY <1>2, <2>1, <2>2
  <2> QED BY <1>6, <2>1, <2>3
<1>13. ToSet(q) = {q[i] : i \in 1 .. k}
  BY <1>10 DEF ToSet
<1>14. ToSet(q) = {V(f) : f \in Of(Pairs, Ex, e)}
  BY ONLY <1>11, <1>12, <1>13
<1> QED BY <1>2, <1>4, <1>9, <1>10, <1>14

\* Stores of a launch that give every weight of an expert its gradient.
WeightStored(c, S, e, n, j) ==
  \E v : /\ Reduces(v, c, e, n, j)
         /\ << <<c, e, n, j>>, v >> \in S
         /\ \A w \in S : w[1] = <<c, e, n, j>> => w[2] = v
WeightStores(c, S) ==
  \A e \in 0 .. Sh.E - 1, n \in 0 .. Width(GradOf(c)) - 1, j \in 0 .. Width(InputOf(c)) - 1 : WeightStored(c, S, e, n, j)

\* When the launch ends, the gradients are there.
LEMMA WeightWritten ==
  ASSUME Computing, FinishLaunch, Launch(at).kernel \notin Atomic, NEW c,
         WeightStores(c, AllStores(Launch(at), mem))
  PROVE  WeightMade(c)'
<1>1. job' = job
  BY DEF FinishLaunch
<1>2. Stream /\ MoEJob(job) /\ at <= Len(job.launches) /\ StoresNamed
  BY DEF Computing
<1>3. Sh' = Sh
  BY <1>1, JobKept
<1>4. PICK S : S = AllStores(Launch(at), mem)
  OBVIOUS
<1>5. mem' = Write(S, mem)
  BY <1>2, <1>4, StreamFinish
<1>6. \A v, e, n, j : Reduces(v, c, e, n, j)' <=> Reduces(v, c, e, n, j)
  BY <1>1, TermsKept
<1>7. ASSUME NEW e \in 0 .. Sh.E - 1, NEW n \in 0 .. Width(GradOf(c)) - 1, NEW j \in 0 .. Width(InputOf(c)) - 1
      PROVE  Reduces(Load(mem, <<c, e, n, j>>), c, e, n, j)'
  <2>1. PICK v : /\ Reduces(v, c, e, n, j)
                 /\ << <<c, e, n, j>>, v >> \in S
                 /\ \A w \in S : w[1] = <<c, e, n, j>> => w[2] = v
    <3>1. WeightStored(c, S, e, n, j)
      BY <1>4 DEF WeightStores
    <3> QED BY ONLY <3>1 DEF WeightStored
  <2>2. Load(Write(S, mem), <<c, e, n, j>>) = v
    BY ONLY <2>1, WriteStored
  <2>3. Reduces(v, c, e, n, j)' /\ v = Load(mem, <<c, e, n, j>>)'
    BY <1>5, <1>6, <2>1, <2>2
  <2> QED BY <2>3 DEF Reduces
<1> QED BY <1>3, <1>7 DEF WeightMade

\* The grouped reduction, in blocks.
LEMMA InGroupReduce ==
  ASSUME NEW l, NEW p, NEW m, NEW w, NEW tile, l.kernel = "gemm_mn",
         tile = get_pid_mn(p[1], Cdiv(l.M, GroupTile[1]), Cdiv(l.N, GroupTile[2]), GroupTile[4])
  PROVE  w \in Stored(l, p, 0, m) <=>
           \E x \in GroupLanes(tile, l.M, l.N) :
             w = << <<l.c, p[2], x[1], x[2]>>, GroupReduced(l, m, p[2], x[1], x[2]) >>
<1>1. Stored(l, p, 0, m) = group_gemm_same_mn_kernel(l, p, m)
  BY DEF Stored
<1>2. group_gemm_same_mn_kernel(l, p, m) =
        { << <<l.c, p[2], x[1], x[2]>>, GroupReduced(l, m, p[2], x[1], x[2]) >> : x \in GroupLanes(tile, l.M, l.N) }
  BY DEF group_gemm_same_mn_kernel
<1> QED BY ONLY <1>1, <1>2, SMT

\* The weight gradients of the grouped product.
LEMMA GemmWeights ==
  ASSUME Computing, Launch(at).kernel = "gemm_mn", NEW c \in WeightProducts, Launch(at).c = c
  PROVE  WeightStores(c, AllStores(Launch(at), mem))
<1> DEFINE MW == Width(GradOf(c))
           NW == Width(InputOf(c))
<1>0. PICK l : l = Launch(at)
  OBVIOUS
<1>1. Stream /\ MoEJob(job) /\ at <= Len(job.launches) /\ Cumulative
  BY DEF Computing
<1>2. LayerLaunch(Sh, l) /\ l.kernel = "gemm_mn" /\ l.c = c /\ \A x \in Needs(l) : Ready(x)
  BY <1>0, <1>1, LaunchOfLayer
<1>3. l.a = GradOf(c) /\ l.b = InputOf(c) /\ l.M = MW /\ l.N = NW /\ l.grid = TileGrid(Sh, l.M, l.N)
  BY <1>2 DEF LayerLaunch, LaunchForm, TorchOps
<1>4. Ready("sidx") /\ Ready("cum") /\ Ready(GradOf(c)) /\ Ready(InputOf(c))
  BY <1>2, <1>3 DEF Needs
<1> DEFINE bm == GroupTile[1]
           bn == GroupTile[2]
           nm == Cdiv(MW, bm)
           nn == Cdiv(NW, bn)
<1>5. bm \in Nat \ {0} /\ bn \in Nat \ {0} /\ GroupTile[4] \in Nat \ {0} /\ MW \in Nat /\ NW \in Nat
  BY MoEAssumption DEF Width
<1>6. nm \in Nat /\ nn \in Nat
  BY <1>5, CdivFacts
<1>7. l.grid = (0 .. nm * nn - 1) \X (0 .. Sh.E - 1)
  BY <1>3 DEF TileGrid
<1> HIDE DEF bm, bn, nm, nn, MW, NW
<1>8. /\ \A q \in 0 .. nm - 1, r \in 0 .. nn - 1 : \E t \in 0 .. nm * nn - 1 : get_pid_mn(t, nm, nn, GroupTile[4]) = <<q, r>>
      /\ \A t \in 0 .. nm * nn - 1 : \E q \in 0 .. nm - 1, r \in 0 .. nn - 1 : get_pid_mn(t, nm, nn, GroupTile[4]) = <<q, r>>
  <2>1. GroupTile[4] \in Nat \ {0}
    BY <1>5
  <2>2. \A q \in 0 .. nm - 1, r \in 0 .. nn - 1 : \E t \in 0 .. nm * nn - 1 : get_pid_mn(t, nm, nn, GroupTile[4]) = <<q, r>>
    BY ONLY <1>6, <2>1, TileIsTaken
  <2>3. ASSUME NEW t \in 0 .. nm * nn - 1
        PROVE  \E q \in 0 .. nm - 1, r \in 0 .. nn - 1 : get_pid_mn(t, nm, nn, GroupTile[4]) = <<q, r>>
    BY ONLY <1>6, <2>1, t \in 0 .. nm * nn - 1, TileInRange
  <2> QED BY <2>2, <2>3
<1>9. ASSUME NEW p \in l.grid, NEW w, NEW pm, NEW pn, get_pid_mn(p[1], nm, nn, GroupTile[4]) = <<pm, pn>>
      PROVE  w \in Stored(l, p, 0, mem) <=>
               \E x \in Lanes(pm, bm) \X Lanes(pn, bn) :
                 x[1] < MW /\ x[2] < NW /\ w = << <<c, p[2], x[1], x[2]>>, GroupReduced(l, mem, p[2], x[1], x[2]) >>
  <2>1. PICK tile : tile = <<pm, pn>>
    OBVIOUS
  <2>2. tile = get_pid_mn(p[1], Cdiv(l.M, GroupTile[1]), Cdiv(l.N, GroupTile[2]), GroupTile[4])
    BY <1>3, <1>9, <2>1 DEF bm, bn, nm, nn
  <2>3. w \in Stored(l, p, 0, mem) <=>
          \E x \in GroupLanes(tile, l.M, l.N) : w = << <<l.c, p[2], x[1], x[2]>>, GroupReduced(l, mem, p[2], x[1], x[2]) >>
    <3>1. l.kernel = "gemm_mn"
      BY <1>2
    <3> QED BY ONLY <3>1, <2>2, InGroupReduce
  <2>4. \A x : x \in GroupLanes(tile, MW, NW) <=> x \in Lanes(pm, bm) \X Lanes(pn, bn) /\ x[1] < MW /\ x[2] < NW
    BY <2>1, InGroupLanes DEF bm, bn
  <2>5. l.M = MW /\ l.N = NW /\ l.c = c
    BY <1>2, <1>3
  <2> QED BY ONLY <2>3, <2>4, <2>5
<1>10. ASSUME NEW e \in 0 .. Sh.E - 1, NEW n \in 0 .. MW - 1, NEW j \in 0 .. NW - 1
       PROVE  WeightStored(c, AllStores(l, mem), e, n, j)
  <2>1. PICK v : v = GroupReduced(l, mem, e, n, j)
    OBVIOUS
  <2>2. Reduces(v, c, e, n, j)
    <3>1. GroupSize(mem, e) \in Nat /\ GroupStart(mem, e) \in Nat
      BY <1>1, <1>4, GroupIs
    <3>2. FlattenSeq(v) = quack_reduced(l, mem, e, n, j)
      BY <2>1, <3>1, ReducedFlat
    <3>3. /\ Len(quack_reduced(l, mem, e, n, j)) = Cardinality(Of(Pairs, Ex, e))
          /\ ToSet(quack_reduced(l, mem, e, n, j)) = GradTerms(c, e, n, j)
      BY <1>3, <1>4, ReducedTerms DEF MW, NW
    <3> QED BY ONLY <3>2, <3>3 DEF Reduces
  <2>3. << <<c, e, n, j>>, v >> \in AllStores(l, mem)
    <3> DEFINE pm == n \div bm
               pn == j \div bn
    <3>1. pm \in 0 .. nm - 1 /\ pn \in 0 .. nn - 1
      BY <1>5, TileOf DEF nm, nn
    <3>2. n \in Lanes(pm, bm) /\ j \in Lanes(pn, bn)
      <4>1. pm \in Nat /\ pn \in Nat /\ n \in Nat /\ j \in Nat
        BY <1>5, <1>6, <3>1
      <4> QED BY <1>5, <4>1, LaneOf
    <3> HIDE DEF pm, pn
    <3>3. PICK pid \in 0 .. nm * nn - 1 : get_pid_mn(pid, nm, nn, GroupTile[4]) = <<pm, pn>>
      BY ONLY <1>8, <3>1
    <3>4. PICK p : p = <<pid, e>>
      OBVIOUS
    <3>5. p \in l.grid /\ p[1] = pid /\ p[2] = e
      BY <1>7, <3>4
    <3>6. PICK x \in Lanes(pm, bm) \X Lanes(pn, bn) : x = <<n, j>>
      BY <3>2
    <3>7. x[1] = n /\ x[2] = j /\ n < MW /\ j < NW
      BY <1>5, <3>6
    <3>8. get_pid_mn(p[1], nm, nn, GroupTile[4]) = <<pm, pn>>
      BY <3>3, <3>5
    <3>9. << <<c, e, n, j>>, v >> = << <<c, p[2], x[1], x[2]>>, GroupReduced(l, mem, p[2], x[1], x[2]) >>
      BY <2>1, <3>5, <3>7
    <3>10. << <<c, e, n, j>>, v >> \in Stored(l, p, 0, mem)
      BY ONLY <1>9, <3>5, <3>7, <3>8, <3>9, x \in Lanes(pm, bm) \X Lanes(pn, bn)
    <3> QED BY <3>5, <3>10, InAllStores
  <2>4. ASSUME NEW w \in AllStores(l, mem), w[1] = <<c, e, n, j>> PROVE w[2] = v
    <3>1. PICK p \in l.grid : w \in Stored(l, p, 0, mem)
      BY InAllStores
    <3>2. p[1] \in 0 .. nm * nn - 1
      BY <1>7
    <3>3. PICK pm \in 0 .. nm - 1, pn \in 0 .. nn - 1 : get_pid_mn(p[1], nm, nn, GroupTile[4]) = <<pm, pn>>
      BY ONLY <1>8, <3>2
    <3>4. PICK x \in Lanes(pm, bm) \X Lanes(pn, bn) :
            w = << <<c, p[2], x[1], x[2]>>, GroupReduced(l, mem, p[2], x[1], x[2]) >>
      BY ONLY <1>9, <3>1, <3>3, p \in l.grid
    <3>5. p[2] = e /\ x[1] = n /\ x[2] = j
      BY ONLY <2>4, <3>4
    <3> QED BY ONLY <2>1, <3>4, <3>5
  <2> QED BY <2>2, <2>3, <2>4 DEF WeightStored
<1>11. PICK S : S = AllStores(l, mem)
  OBVIOUS
<1>12. WeightStores(c, S)
  BY ONLY <1>10, <1>11, Zenon DEF WeightStores, MW, NW
<1> QED BY <1>0, <1>11, <1>12

\* The weight gradients of the external library's product.
LEMMA QuackWeights ==
  ASSUME Computing, Launch(at).kernel = "quack_k", NEW c \in WeightProducts, Launch(at).c = c
  PROVE  WeightStores(c, AllStores(Launch(at), mem))
<1> DEFINE MW == Width(GradOf(c))
           NW == Width(InputOf(c))
<1>0. PICK l : l = Launch(at)
  OBVIOUS
<1>1. Stream /\ MoEJob(job) /\ at <= Len(job.launches) /\ Cumulative
  BY DEF Computing
<1>2. LayerLaunch(Sh, l) /\ l.kernel = "quack_k" /\ l.c = c /\ \A x \in Needs(l) : Ready(x)
  BY <1>0, <1>1, LaunchOfLayer
<1>3. l.a = GradOf(c) /\ l.b = InputOf(c) /\ l.M = MW /\ l.N = NW /\ l.grid = {<<0>>} /\ l.E = Sh.E
  BY <1>2 DEF LayerLaunch, LaunchForm, TorchOps
<1>4. Ready("sidx") /\ Ready("cum") /\ Ready(GradOf(c)) /\ Ready(InputOf(c))
  BY <1>2, <1>3 DEF Needs
<1>5. AllStores(l, mem) = quack_gemm_k(l, mem)
  BY <1>2, <1>3, OneProgram DEF Stored
<1>6. ASSUME NEW w
      PROVE  w \in quack_gemm_k(l, mem) <=>
               \E g \in 0 .. l.E - 1, m \in 0 .. l.M - 1, n \in 0 .. l.N - 1 :
                 w = << <<l.c, g, m, n>>, << quack_reduced(l, mem, g, m, n) >> >>
  BY ONLY SMT DEF quack_gemm_k
<1>7. ASSUME NEW e \in 0 .. Sh.E - 1, NEW n \in 0 .. MW - 1, NEW j \in 0 .. NW - 1
      PROVE  WeightStored(c, AllStores(l, mem), e, n, j)
  <2>1. PICK q : q = quack_reduced(l, mem, e, n, j)
    OBVIOUS
  <2>2. Reduces(<<q>>, c, e, n, j)
    <3>1. FlattenSeq(<<q>>) = q
      BY ONLY FlatOne
    <3>2. /\ Len(quack_reduced(l, mem, e, n, j)) = Cardinality(Of(Pairs, Ex, e))
          /\ ToSet(quack_reduced(l, mem, e, n, j)) = GradTerms(c, e, n, j)
      BY <1>3, <1>4, ReducedTerms
    <3> QED BY ONLY <2>1, <3>1, <3>2 DEF Reduces
  <2>3. << <<c, e, n, j>>, <<q>> >> \in AllStores(l, mem)
    <3>1. PICK w : w = << <<c, e, n, j>>, <<q>> >>
      OBVIOUS
    <3>2. w = << <<l.c, e, n, j>>, << quack_reduced(l, mem, e, n, j) >> >>
      BY <1>2, <2>1, <3>1
    <3>3. e \in 0 .. l.E - 1 /\ n \in 0 .. l.M - 1 /\ j \in 0 .. l.N - 1
      BY <1>3
    <3>4. w \in quack_gemm_k(l, mem)
      BY ONLY <1>6, <3>2, <3>3
    <3> QED BY <1>5, <3>1, <3>4
  <2>4. ASSUME NEW w \in AllStores(l, mem), w[1] = <<c, e, n, j>> PROVE w[2] = <<q>>
    <3>1. w \in quack_gemm_k(l, mem)
      BY <1>5
    <3>2. PICK g \in 0 .. l.E - 1, m \in 0 .. l.M - 1, b \in 0 .. l.N - 1 :
            w = << <<l.c, g, m, b>>, << quack_reduced(l, mem, g, m, b) >> >>
      BY ONLY <1>6, <3>1
    <3>3. g = e /\ m = n /\ b = j
      BY ONLY <2>4, <3>2
    <3> QED BY ONLY <2>1, <3>2, <3>3
  <2> QED BY <2>2, <2>3, <2>4 DEF WeightStored
<1>8. PICK S : S = AllStores(l, mem)
  OBVIOUS
<1>9. WeightStores(c, S)
  BY ONLY <1>7, <1>8, Zenon DEF WeightStores
<1> QED BY <1>0, <1>8, <1>9

-----------------------------------------------------------------------------
\* Which launch of a layer makes which value.
LEMMA MakersOfValues ==
  ASSUME NEW s, NEW l, LayerLaunch(s, l)
  PROVE  /\ \A x \in RowTensors : x \in Makes(l) =>
              /\ "sidx" \in Needs(l) /\ l.kernel \notin Atomic
              /\ \/ l.kernel = "scatter" /\ x = l.o
                 \/ l.kernel = "gemm_nk" /\ x = l.c
                 \/ l.kernel = "quack" /\ x = l.c
                 \/ l.kernel = "activation" /\ x = "wact"
                 \/ l.kernel = "activation_grad" /\ x \in {"g_fc1_1", "g_fc1_2"}
                 \/ l.kernel = "grad_sum" /\ x = "g_scat"
         /\ "moe" \in Makes(l) => l.kernel = "gather" /\ l.y = "moe" /\ l.x = "fc2" /\ "sidx" \in Needs(l)
         /\ "g_x" \in Makes(l) => l.kernel = "gather" /\ l.y = "g_x" /\ l.x = "g_scat" /\ "sidx" \in Needs(l)
         /\ "g_gate" \in Makes(l) => l.kernel = "activation_grad" /\ "sidx" \in Needs(l)
         /\ "aidx" \in Makes(l) => l.kernel = "build_indices"
         /\ \A c \in WeightProducts : c \in Makes(l) => l.kernel \in {"gemm_mn", "quack_k"} /\ l.c = c
<1>0. \/ l.kernel = "histogram" \/ l.kernel = "index" \/ l.kernel = "argsort" \/ l.kernel = "build_indices"
      \/ l.kernel = "cumsum" \/ l.kernel = "clone" \/ l.kernel = "scatter" \/ l.kernel = "gather"
      \/ l.kernel = "gemm_nk" \/ l.kernel = "gemm_mn" \/ l.kernel = "quack" \/ l.kernel = "quack_k"
      \/ l.kernel = "activation" \/ l.kernel = "activation_grad" \/ l.kernel = "grad_sum"
  BY DEF LayerLaunch, LaunchForm, TorchOps
<1>1. CASE l.kernel \in {"histogram", "index", "argsort", "build_indices", "cumsum", "clone"}
  <2>1. Makes(l) \subseteq {"hist", "sidx", "aidx", "cum", "cumcopy"} /\ ("aidx" \in Makes(l) => l.kernel = "build_indices")
    BY <1>1 DEF Makes
  <2> QED BY <2>1 DEF RowTensors, WeightProducts
<1>2. CASE l.kernel = "scatter"
  <2>1. Makes(l) = {l.o} /\ Needs(l) = {"sidx"} /\ l.o \in {"scat", "g_fc2"}
    BY <1>2 DEF Makes, Needs, LayerLaunch, LaunchForm, TorchOps
  <2> QED BY <1>2, <2>1 DEF RowTensors, WeightProducts, Atomic
<1>3. CASE l.kernel = "gather"
  <2>1. /\ Makes(l) = {l.y} /\ "sidx" \in Needs(l)
        /\ (l.x = "fc2" /\ l.y = "moe") \/ (l.x = "g_scat" /\ l.y = "g_x")
    BY <1>3 DEF Makes, Needs, LayerLaunch, LaunchForm, TorchOps
  <2> QED BY <1>3, <2>1 DEF RowTensors, WeightProducts
<1>4. CASE l.kernel \in {"gemm_nk", "quack"}
  <2>1. Makes(l) = {l.c} /\ "sidx" \in Needs(l) /\ l.c \in RowProducts
    BY <1>4 DEF Makes, Needs, LayerLaunch, LaunchForm, TorchOps
  <2> QED BY <1>4, <2>1 DEF RowTensors, RowProducts, WeightProducts, Atomic
<1>5. CASE l.kernel \in {"gemm_mn", "quack_k"}
  <2>1. Makes(l) = {l.c} /\ l.c \in WeightProducts
    BY <1>5 DEF Makes, LayerLaunch, LaunchForm, TorchOps
  <2> QED BY <1>5, <2>1 DEF RowTensors, WeightProducts
<1>6. CASE l.kernel \in {"activation", "activation_grad", "grad_sum"}
  <2>1. "sidx" \in Needs(l)
    BY <1>6 DEF Needs
  <2> QED BY <1>6, <2>1 DEF RowTensors, WeightProducts, Makes, Atomic
<1> QED BY <1>0, <1>1, <1>2, <1>3, <1>4, <1>5, <1>6

\* The end of a launch keeps the values that were ready and makes its own.
LEMMA FinishValues ==
  ASSUME Computing, FinishLaunch
  PROVE  Values'
<1>0. PICK l : l = Launch(at)
  OBVIOUS
<1>1. Stream /\ MoEJob(job) /\ at <= Len(job.launches) /\ StoresNamed /\ Values
  BY DEF Computing
<1>2. job' = job
  BY DEF FinishLaunch
<1>3. /\ \A x \in RowTensors : RowMade(x)
      /\ TokenMade("moe", "fc2") /\ TokenMade("g_x", "g_scat") /\ GateMade /\ IndexMade /\ \A c \in WeightProducts : WeightMade(c)
  BY <1>1 DEF Values
<1>4. \A x : Ready(x)' <=> Ready(x) \/ x \in Makes(l)
  BY <1>0, <1>1, ReadyFinish
<1>5. \A x : Ready(x) => Leaves(x) /\ Ready(x)'
  BY <1>1, FinishLeaves
<1>6. LayerLaunch(Sh, l) /\ \A x \in Needs(l) : Ready(x)
  BY <1>0, <1>1, LaunchOfLayer
<1>7. ASSUME NEW x \in RowTensors PROVE RowMade(x)'
  <2>1. CASE Ready(x)
    <3>1. RowMade(x) /\ Ready("sidx")
      BY <1>3, <2>1 DEF RowMade
    <3>2. Leaves(x) /\ Leaves("sidx") /\ Ready("sidx")'
      BY <1>5, <2>1, <3>1
    <3> QED BY <1>2, <2>1, <3>1, <3>2, RowsMadeKept
  <2>2. CASE x \in Makes(l)
    <3>1. /\ "sidx" \in Needs(l) /\ l.kernel \notin Atomic
          /\ \/ l.kernel = "scatter" /\ x = l.o
             \/ l.kernel = "gemm_nk" /\ x = l.c
             \/ l.kernel = "quack" /\ x = l.c
             \/ l.kernel = "activation" /\ x = "wact"
             \/ l.kernel = "activation_grad" /\ x \in {"g_fc1_1", "g_fc1_2"}
             \/ l.kernel = "grad_sum" /\ x = "g_scat"
      BY <1>6, <2>2, MakersOfValues
    <3>2. Ready("sidx")
      BY <1>6, <3>1
    <3>3. RowStores(x, AllStores(Launch(at), mem))
      BY <1>0, <3>1, <3>2, ScatterRows, GemmRows, QuackRows, ActivationRows, RowGradRows, GradSumRows
    <3> QED BY <1>0, <3>1, <3>2, <3>3, RowWritten
  <2>3. CASE ~ Ready(x) /\ x \notin Makes(l)
    BY <1>4, <2>3 DEF RowMade
  <2> QED BY <2>1, <2>2, <2>3
<1>8. ASSUME NEW y, NEW x, (y = "moe" /\ x = "fc2") \/ (y = "g_x" /\ x = "g_scat")
      PROVE  TokenMade(y, x)'
  <2>1. CASE Ready(y)
    BY <1>2, <1>3, <1>5, <1>8, <2>1, TokenMadeKept
  <2>2. CASE y \in Makes(l)
    <3>1. l.kernel = "gather" /\ l.y = y /\ l.x = x /\ "sidx" \in Needs(l)
      BY <1>6, <1>8, <2>2, MakersOfValues
    <3> QED BY <1>0, <1>6, <3>1, GatherMade
  <2>3. CASE ~ Ready(y) /\ y \notin Makes(l)
    BY <1>4, <2>3 DEF TokenMade
  <2> QED BY <2>1, <2>2, <2>3
<1>9. GateMade'
  <2>1. CASE Ready("g_gate")
    BY <1>2, <1>3, <1>5, <2>1, GateMadeKept
  <2>2. CASE "g_gate" \in Makes(l)
    <3>1. l.kernel = "activation_grad" /\ "sidx" \in Needs(l)
      BY <1>6, <2>2, MakersOfValues
    <3> QED BY <1>0, <1>6, <3>1, GateGradMade
  <2>3. CASE ~ Ready("g_gate") /\ "g_gate" \notin Makes(l)
    BY <1>4, <2>3 DEF GateMade
  <2> QED BY <2>1, <2>2, <2>3
<1>10. IndexMade'
  <2>1. CASE Ready("aidx")
    <3>1. Ready("sidx")
      BY <1>3, <2>1 DEF IndexMade
    <3> QED BY <1>2, <1>3, <1>5, <2>1, <3>1, IndexMadeKept
  <2>2. CASE "aidx" \in Makes(l)
    <3>1. l.kernel = "build_indices"
      BY <1>6, <2>2, MakersOfValues
    <3> QED BY <1>0, <3>1, IndicesMade
  <2>3. CASE ~ Ready("aidx") /\ "aidx" \notin Makes(l)
    BY <1>4, <2>3 DEF IndexMade
  <2> QED BY <2>1, <2>2, <2>3
<1>11. ASSUME NEW c \in WeightProducts PROVE WeightMade(c)'
  <2>1. CASE Ready(c)
    BY <1>2, <1>3, <1>5, <2>1, WeightMadeKept
  <2>2. CASE c \in Makes(l)
    <3>1. l.kernel \in {"gemm_mn", "quack_k"} /\ l.c = c
      BY <1>6, <2>2, MakersOfValues
    <3>2. WeightStores(c, AllStores(Launch(at), mem)) /\ Launch(at).kernel \notin Atomic
      BY <1>0, <3>1, GemmWeights, QuackWeights DEF Atomic
    <3> QED BY <3>2, WeightWritten
  <2>3. CASE ~ Ready(c) /\ c \notin Makes(l)
    BY <1>4, <2>3 DEF WeightMade
  <2> QED BY <2>1, <2>2, <2>3
<1>12. TokenMade("moe", "fc2")' /\ TokenMade("g_x", "g_scat")'
  BY <1>8
<1> QED BY <1>7, <1>9, <1>10, <1>11, <1>12 DEF Values

\* Before the first launch no value is ready.
LEMMA ValuesInit == Init => Values
<1> SUFFICES ASSUME Init PROVE Values
  OBVIOUS
<1>1. \A x : ~ Ready(x)
  BY DEF Init, Ready
<1> QED BY <1>1 DEF Values, RowMade, TokenMade, GateMade, IndexMade, WeightMade

\* No step breaks the values.
LEMMA ValuesStep == Stream /\ Dispatch /\ Values /\ [Next]_vars => Values'
<1> SUFFICES ASSUME Stream, Dispatch, Values, [Next]_vars PROVE Values'
  OBVIOUS
<1>1. job' = job
  BY DEF Next, RunProgram, FinishLaunch, vars
<1>2. (MoEJob(job))' = MoEJob(job)
  BY <1>1, JobKept
<1>3. CASE ~ MoEJob(job)
  BY <1>2, <1>3 DEF Values
<1>4. CASE MoEJob(job) /\ UNCHANGED vars
  <2>1. at' = at /\ mem' = mem /\ job' = job
    BY <1>4 DEF vars
  <2>2. \A x : Ready(x)' <=> Ready(x)
    BY <2>1 DEF Ready, Launch
  <2>3. \A x : Leaves(x)
    BY <2>1 DEF Leaves
  <2>4. /\ \A x \in RowTensors : RowMade(x)
        /\ TokenMade("moe", "fc2") /\ TokenMade("g_x", "g_scat") /\ GateMade /\ IndexMade /\ \A c \in WeightProducts : WeightMade(c)
    BY <1>4 DEF Values
  <2>5. ASSUME NEW x \in RowTensors PROVE RowMade(x)'
    <3>1. CASE Ready(x)
      <4>1. RowMade(x) /\ Ready("sidx")'
        BY <2>2, <2>4, <3>1 DEF RowMade
      <4> QED BY <1>1, <2>3, <3>1, <4>1, RowsMadeKept
    <3>2. CASE ~ Ready(x)
      BY <2>2, <3>2 DEF RowMade
    <3> QED BY <3>1, <3>2
  <2>6. TokenMade("moe", "fc2")' /\ TokenMade("g_x", "g_scat")'
    <3>1. ASSUME NEW y, NEW x, TokenMade(y, x) PROVE TokenMade(y, x)'
      <4>1. CASE Ready(y)
        BY <1>1, <2>3, <3>1, <4>1, TokenMadeKept
      <4>2. CASE ~ Ready(y)
        BY <2>2, <4>2 DEF TokenMade
      <4> QED BY <4>1, <4>2
    <3> QED BY <2>4, <3>1
  <2>7. GateMade'
    <3>1. CASE Ready("g_gate")
      BY <1>1, <2>3, <2>4, <3>1, GateMadeKept
    <3>2. CASE ~ Ready("g_gate")
      BY <2>2, <3>2 DEF GateMade
    <3> QED BY <3>1, <3>2
  <2>8. IndexMade'
    <3>1. CASE Ready("aidx")
      <4>1. Ready("sidx")'
        BY <2>2, <2>4, <3>1 DEF IndexMade
      <4> QED BY <1>1, <2>3, <2>4, <3>1, <4>1, IndexMadeKept
    <3>2. CASE ~ Ready("aidx")
      BY <2>2, <3>2 DEF IndexMade
    <3> QED BY <3>1, <3>2
  <2>9. ASSUME NEW c \in WeightProducts PROVE WeightMade(c)'
    <3>1. CASE Ready(c)
      BY <1>1, <2>3, <2>4, <3>1, WeightMadeKept
    <3>2. CASE ~ Ready(c)
      BY <2>2, <3>2 DEF WeightMade
    <3> QED BY <3>1, <3>2
  <2> QED BY <2>5, <2>6, <2>7, <2>8, <2>9 DEF Values
<1>5. CASE MoEJob(job) /\ Next
  <2>1. at <= Len(job.launches) /\ ((\E p \in Launch(at).grid : RunProgram(p)) \/ FinishLaunch)
    BY <1>5 DEF Next
  <2>2. ASSUME NEW p \in Launch(at).grid, RunProgram(p) PROVE Values'
    BY <1>5, <2>2, RunValues
  <2>3. ASSUME FinishLaunch PROVE Values'
    <3>1. Computing
      BY <1>5, <2>1 DEF Computing, Dispatch
    <3> QED BY <2>3, <3>1, FinishValues
  <2> QED BY <2>1, <2>2, <2>3
<1> QED BY <1>3, <1>4, <1>5

-----------------------------------------------------------------------------
\* The gather that ended last belongs to a layer, and what it made is ready.
LEMMA GatherDone ==
  ASSUME Stream, Dispatch, Just({"gather"})
  PROVE  /\ MoEJob(job) /\ InputsKept
         /\ Done.T = Sh.T /\ Done.topk = Sh.topk /\ Done.E = Sh.E
         /\ at - 1 \in 1 .. Len(job.launches) /\ Done = job.launches[at - 1] /\ at \in Nat
         /\ Makes(Done) = {Done.y} /\ Ready(Done.y)
<1>1. at - 1 \in 1 .. Len(job.launches) /\ Len(job.launches) \in Nat /\ job \in Jobs /\ at \in Nat
  BY JobsAssumption DEF Stream, Just
<1>2. Done = job.launches[at - 1] /\ Done.kernel = "gather"
  BY DEF Just, Done, Launch
<1>3. MoEJob(job)
  <2>1. DOMAIN job.launches = 1 .. Len(job.launches)
    BY <1>1, JobsAssumption
  <2>2. job.launches[at - 1].kernel \in MoEKernelNames
    BY <1>2 DEF MoEKernelNames
  <2> QED BY <1>1, <2>1, <2>2, JobsAssumption
<1>4. LayerLaunch(Sh, Done)
  BY <1>1, <1>2, <1>3, JobIsLayer DEF Layer
<1>5. Makes(Done) = {Done.y}
  BY <1>2 DEF Makes
<1>6. Ready(Done.y)
  BY <1>1, <1>2, <1>5 DEF Ready, Launch
<1>7. InputsKept
  BY <1>3 DEF Dispatch
<1> QED BY <1>1, <1>2, <1>3, <1>4, <1>5, <1>6, <1>7 DEF LayerLaunch

\* The pairs and their experts, as the properties name them.
LEMMA PairsNamed ==
  ASSUME MoEJob(job), InputsKept, Done.T = Sh.T, Done.topk = Sh.topk
  PROVE  /\ Flat(Done) = 0 .. Pairs - 1
         /\ \A f \in 0 .. Pairs - 1 : ExpertOf(Done, mem, f) = Ex[f]
         /\ \A t \in 0 .. Sh.T - 1, k \in 1 .. Sh.topk :
              LET f == t * Sh.topk + (k - 1)
              IN  /\ f \in 0 .. Pairs - 1 /\ f \div Sh.topk = t /\ f % Sh.topk = k - 1
                  /\ Expert(Done, t, k - 1) = Ex[f]
<1>1. Flat(Done) = 0 .. Pairs - 1 /\ \A f \in 0 .. Pairs - 1 : ExpertOf(Done, mem, f) = Ex[f]
  BY ExpertIs
<1>2. ASSUME NEW t \in 0 .. Sh.T - 1, NEW k \in 1 .. Sh.topk, NEW f, f = t * Sh.topk + (k - 1)
      PROVE  /\ f \in 0 .. Pairs - 1 /\ f \div Sh.topk = t /\ f % Sh.topk = k - 1
             /\ Expert(Done, t, k - 1) = Ex[f]
  <2>1. k - 1 \in 0 .. Sh.topk - 1
    BY JobIsLayer
  <2>2. f \in 0 .. Pairs - 1 /\ f \div Sh.topk = t /\ f % Sh.topk = k - 1
    BY <1>2, <2>1, PairAt
  <2>3. Expert(Done, t, k - 1) = ExpertOf(Done, mem, f)
    BY <1>2 DEF Expert
  <2> QED BY <1>1, <2>2, <2>3
<1> QED BY <1>1, <1>2

\* What the values say of the output.
LEMMA ValuesMeanMoE == Stream /\ Dispatch /\ Values => MoEExact
<1> SUFFICES ASSUME Stream, Dispatch, Values, Just({"gather"}), Done.y = "moe",
                    NEW t \in 0 .. Done.T - 1, NEW n \in 0 .. H - 1
             PROVE  Load(mem, <<"moe", t, n>>) =
                      [k \in 1 .. Done.topk |->
                         << "W2", Expert(Done, t, k - 1), n,
                            [j \in 1 .. I |-> Act(Expert(Done, t, k - 1), t, k - 1, j - 1)] >>]
  BY DEF MoEExact
<1>1. MoEJob(job) /\ InputsKept /\ Done.T = Sh.T /\ Done.topk = Sh.topk /\ Ready("moe")
  BY GatherDone
<1>2. Load(mem, <<"moe", t, n>>) = [k \in 1 .. Sh.topk |-> RowTerm("fc2", t * Sh.topk + (k - 1), n)]
  BY <1>1 DEF Values, TokenMade
<1>3. ASSUME NEW k \in 1 .. Sh.topk
      PROVE  RowTerm("fc2", t * Sh.topk + (k - 1), n) =
               << "W2", Expert(Done, t, k - 1), n, [j \in 1 .. I |-> Act(Expert(Done, t, k - 1), t, k - 1, j - 1)] >>
  <2>1. PICK f : f = t * Sh.topk + (k - 1)
    OBVIOUS
  <2>2. f \div Sh.topk = t /\ f % Sh.topk = k - 1 /\ Expert(Done, t, k - 1) = Ex[f]
    BY <1>1, <2>1, PairsNamed
  <2>3. RowTerm("fc2", f, n) = << "W2", Ex[f], n, [j \in 1 .. I |-> Act(Ex[f], f \div Sh.topk, f % Sh.topk, j - 1)] >>
    BY DEF RowTerm, TermOf
  <2> QED BY <2>1, <2>2, <2>3
<1> QED BY <1>1, <1>2, <1>3

\* The output of a mixture-of-experts layer, for any number of tokens, experts and
\* choices per token, any tile and block sizes and any order of the programs: the sum,
\* in the router's order, of the token's own experts applied to its own row with its
\* own gate, whatever the other tokens of the batch are, in FusedMoeExpertFunction and
\* in QuackFusedMoeExpertFunction alike.
THEOREM MoEIsExact == Spec => []MoEExact
<1>1. Init => Stream /\ Dispatch /\ Values
  BY StreamInit, DispatchInit, ValuesInit
<1>2. Stream /\ Dispatch /\ Values /\ [Next]_vars => (Stream /\ Dispatch /\ Values)'
  BY StreamStep, DispatchStep, ValuesStep
<1>3. Stream /\ Dispatch /\ Values => MoEExact
  BY ValuesMeanMoE
<1> QED BY <1>1, <1>2, <1>3, PTL DEF Spec

\* The gradient of the hidden rows is gathered last, after those of the gates and of
\* the weights.
LEMMA GradientsBefore ==
  ASSUME MoEJob(job), NEW i \in 1 .. Len(job.launches), "g_x" \in Makes(job.launches[i])
  PROVE  \A x \in WeightProducts \cup {"g_gate"} : \E a \in 1 .. i : x \in Makes(job.launches[a])
<1> DEFINE L == job.launches
<1>1. L \in { FusedForward(Sh) \o FusedBackward(Sh), QuackForward(Sh) \o QuackBackward(Sh), moe_index_compute(Sh) }
  BY DEF MoEJob, Sh
<1>2. \A h, k \in 1 .. Len(L) : h # k => Makes(L[h]) \cap Makes(L[k]) = {}
  BY JobIsLayer DEF Layer
<1> HIDE DEF L
<1>3. ASSUME Len(L) = 19, "g_x" \in Makes(L[19]),
             \A x \in WeightProducts \cup {"g_gate"} : \E a \in 1 .. 19 : x \in Makes(L[a])
      PROVE  \A x \in WeightProducts \cup {"g_gate"} : \E a \in 1 .. i : x \in Makes(L[a])
  <2>1. i = 19
    BY <1>2, <1>3 DEF L
  <2> QED BY <1>3, <2>1
<1>4. CASE L = FusedForward(Sh) \o FusedBackward(Sh)
  <2>1. /\ Len(L) = 19 /\ L[19] = moe_gather(Sh, "g_scat", "g_x") /\ L[13] = Torch(Sh, "activation_grad")
        /\ L[12] = group_gemm_same_mn(Sh, "g_fc2", "wact", "g_W2", H, I)
        /\ L[15] = group_gemm_same_mn(Sh, "g_fc1_2", "scat", "g_W1_2", I, H)
        /\ L[17] = group_gemm_same_mn(Sh, "g_fc1_1", "scat", "g_W1_1", I, H)
    BY <1>4, FusedLaunches
  <2>2. "g_x" \in Makes(L[19])
    BY <2>1 DEF Makes, moe_gather
  <2>3. "g_gate" \in Makes(L[13])
    BY <2>1 DEF Makes, Torch
  <2>4. "g_W2" \in Makes(L[12]) /\ "g_W1_2" \in Makes(L[15]) /\ "g_W1_1" \in Makes(L[17])
    BY <2>1 DEF Makes, group_gemm_same_mn
  <2>5. \A x \in WeightProducts \cup {"g_gate"} : \E a \in 1 .. 19 : x \in Makes(L[a])
    BY <2>3, <2>4 DEF WeightProducts
  <2> QED BY <1>3, <2>1, <2>2, <2>5 DEF L
<1>5. CASE L = QuackForward(Sh) \o QuackBackward(Sh)
  <2>1. /\ Len(L) = 19 /\ L[19] = moe_gather(Sh, "g_scat", "g_x") /\ L[12] = Torch(Sh, "activation_grad")
        /\ L[11] = gemm_k(Sh, "g_fc2", "wact", "g_W2", H, I)
        /\ L[16] = gemm_k(Sh, "g_fc1_2", "scat", "g_W1_2", I, H) /\ L[17] = gemm_k(Sh, "g_fc1_1", "scat", "g_W1_1", I, H)
    BY <1>5, QuackLaunches
  <2>2. "g_x" \in Makes(L[19])
    BY <2>1 DEF Makes, moe_gather
  <2>3. "g_gate" \in Makes(L[12])
    BY <2>1 DEF Makes, Torch
  <2>4. "g_W2" \in Makes(L[11]) /\ "g_W1_2" \in Makes(L[16]) /\ "g_W1_1" \in Makes(L[17])
    BY <2>1 DEF Makes, gemm_k
  <2>5. \A x \in WeightProducts \cup {"g_gate"} : \E a \in 1 .. 19 : x \in Makes(L[a])
    BY <2>3, <2>4 DEF WeightProducts
  <2> QED BY <1>3, <2>1, <2>2, <2>5 DEF L
<1>6. CASE L = moe_index_compute(Sh)
  <2>1. /\ Len(L) = 4 /\ L[1].kernel = "histogram" /\ L[2].kernel = "cumsum" /\ L[3].kernel = "clone" /\ L[4].kernel = "index"
    <3>1. /\ Len(L) = 4 /\ L[1] = expert_histogram(Sh) /\ L[2] = Torch(Sh, "cumsum") /\ L[3] = Torch(Sh, "clone")
          /\ L[4] = [kernel |-> "index", T |-> Sh.T, topk |-> Sh.topk, E |-> Sh.E,
                     grid |-> {<<p>> : p \in 0 .. Cdiv(Sh.T * Sh.topk, IndexBlock) - 1}]
      BY ONLY <1>6, IndexLaunches
    <3> QED BY ONLY <3>1 DEF expert_histogram, Torch
  <2>2. i = 1 \/ i = 2 \/ i = 3 \/ i = 4
    BY <2>1 DEF L
  <2>3. "g_x" \notin Makes(L[i])
    BY <2>1, <2>2 DEF Makes
  <2> QED BY <2>3 DEF L
<1> QED BY <1>1, <1>4, <1>5, <1>6

\* What the values say of the gradients.
LEMMA ValuesMeanMoEGrad == Stream /\ Dispatch /\ Values => MoEGradExact
<1> DEFINE Routed(e) == {f \in Flat(Done) : ExpertOf(Done, mem, f) = e}
<1> SUFFICES ASSUME Stream, Dispatch, Values, Just({"gather"}), Done.y = "g_x"
             PROVE  /\ \A t \in 0 .. Done.T - 1, n \in 0 .. H - 1 :
                         Load(mem, <<"g_x", t, n>>) =
                           [k \in 1 .. Done.topk |->
                              << BackTerm("W1_1t", "g_fc1_1", Expert(Done, t, k - 1), t, k - 1, n),
                                 BackTerm("W1_2t", "g_fc1_2", Expert(Done, t, k - 1), t, k - 1, n) >>]
                    /\ \A f \in Flat(Done) : \A j \in 1 .. I :
                         LET e == ExpertOf(Done, mem, f)
                             t == f \div Done.topk
                             g == Load(mem, <<"g_gate", t, f % Done.topk>>)[j]
                         IN  /\ g["g_wact"] = <<"W2t", e, j - 1, GRow(t)>>
                             /\ g["fc1_1"] = Fc1("W1_1", e, t, j - 1) /\ g["fc1_2"] = Fc1("W1_2", e, t, j - 1)
                    /\ \A c \in WeightProducts : \A e \in 0 .. Done.E - 1 :
                         \A m \in 0 .. WeightShape(c)[1] - 1, n \in 0 .. WeightShape(c)[2] - 1 :
                           LET v == FlattenSeq(Load(mem, <<c, e, m, n>>))
                           IN  /\ Len(v) = Cardinality(Routed(e))
                               /\ ToSet(v) = {GradPair(c, e, f \div Done.topk, f % Done.topk, m, n) : f \in Routed(e)}
  BY DEF MoEGradExact, WeightProducts
<1>1. /\ MoEJob(job) /\ InputsKept /\ Done.T = Sh.T /\ Done.topk = Sh.topk /\ Done.E = Sh.E /\ Ready("g_x")
      /\ at - 1 \in 1 .. Len(job.launches) /\ "g_x" \in Makes(job.launches[at - 1]) /\ at \in Nat
  BY GatherDone
<1>2. \A x \in WeightProducts \cup {"g_gate"} : Ready(x)
  <2>1. \A x \in WeightProducts \cup {"g_gate"} : \E a \in 1 .. at - 1 : x \in Makes(job.launches[a])
    BY <1>1, GradientsBefore
  <2> QED BY <1>1, <2>1 DEF Ready, Launch
<1>3. TokenMade("g_x", "g_scat") /\ GateMade /\ \A c \in WeightProducts : WeightMade(c)
  BY <1>1 DEF Values
<1>4. Flat(Done) = 0 .. Pairs - 1 /\ \A f \in 0 .. Pairs - 1 : ExpertOf(Done, mem, f) = Ex[f]
  BY <1>1, PairsNamed
<1>5. ASSUME NEW t \in 0 .. Done.T - 1, NEW n \in 0 .. H - 1
      PROVE  Load(mem, <<"g_x", t, n>>) =
               [k \in 1 .. Done.topk |->
                  << BackTerm("W1_1t", "g_fc1_1", Expert(Done, t, k - 1), t, k - 1, n),
                     BackTerm("W1_2t", "g_fc1_2", Expert(Done, t, k - 1), t, k - 1, n) >>]
  <2>1. Load(mem, <<"g_x", t, n>>) = [k \in 1 .. Sh.topk |-> RowTerm("g_scat", t * Sh.topk + (k - 1), n)]
    BY <1>1, <1>3 DEF TokenMade
  <2>2. ASSUME NEW k \in 1 .. Sh.topk
        PROVE  RowTerm("g_scat", t * Sh.topk + (k - 1), n) =
                 << BackTerm("W1_1t", "g_fc1_1", Expert(Done, t, k - 1), t, k - 1, n),
                    BackTerm("W1_2t", "g_fc1_2", Expert(Done, t, k - 1), t, k - 1, n) >>
    <3>1. PICK f : f = t * Sh.topk + (k - 1)
      OBVIOUS
    <3>2. f \div Sh.topk = t /\ f % Sh.topk = k - 1 /\ Expert(Done, t, k - 1) = Ex[f]
      BY <1>1, <3>1, PairsNamed
    <3>3. RowTerm("g_scat", f, n) = << BackTerm("W1_1t", "g_fc1_1", Ex[f], f \div Sh.topk, f % Sh.topk, n),
                                       BackTerm("W1_2t", "g_fc1_2", Ex[f], f \div Sh.topk, f % Sh.topk, n) >>
      BY DEF RowTerm, TermOf
    <3> QED BY ONLY <3>1, <3>2, <3>3
  <2> QED BY <1>1, <2>1, <2>2
<1>6. ASSUME NEW f \in Flat(Done), NEW j \in 1 .. I, NEW g,
             g = Load(mem, <<"g_gate", f \div Done.topk, f % Done.topk>>)[j]
      PROVE  /\ g["g_wact"] = <<"W2t", ExpertOf(Done, mem, f), j - 1, GRow(f \div Done.topk)>>
             /\ g["fc1_1"] = Fc1("W1_1", ExpertOf(Done, mem, f), f \div Done.topk, j - 1)
             /\ g["fc1_2"] = Fc1("W1_2", ExpertOf(Done, mem, f), f \div Done.topk, j - 1)
  <2>1. f \in 0 .. Pairs - 1 /\ ExpertOf(Done, mem, f) = Ex[f]
    BY <1>4
  <2>2. PICK u : u = [h \in 1 .. I |-> [x \in {"fc1_1", "fc1_2", "g_wact"} |-> RowTerm(x, f, h - 1)]]
    OBVIOUS
  <2>3. Load(mem, <<"g_gate", f \div Sh.topk, f % Sh.topk>>) = u
    BY <1>2, <1>3, <2>1, <2>2 DEF GateMade
  <2>4. /\ u[j]["g_wact"] = RowTerm("g_wact", f, j - 1)
        /\ u[j]["fc1_1"] = RowTerm("fc1_1", f, j - 1) /\ u[j]["fc1_2"] = RowTerm("fc1_2", f, j - 1)
    BY ONLY <2>2, j \in 1 .. I
  <2>5. /\ RowTerm("g_wact", f, j - 1) = <<"W2t", Ex[f], j - 1, GRow(f \div Sh.topk)>>
        /\ RowTerm("fc1_1", f, j - 1) = Fc1("W1_1", Ex[f], f \div Sh.topk, j - 1)
        /\ RowTerm("fc1_2", f, j - 1) = Fc1("W1_2", Ex[f], f \div Sh.topk, j - 1)
    BY DEF RowTerm, TermOf
  <2> QED BY <1>1, <1>6, <2>1, <2>3, <2>4, <2>5
<1>7. ASSUME NEW c \in WeightProducts, NEW e \in 0 .. Done.E - 1,
             NEW m \in 0 .. WeightShape(c)[1] - 1, NEW n \in 0 .. WeightShape(c)[2] - 1,
             NEW v, v = FlattenSeq(Load(mem, <<c, e, m, n>>))
      PROVE  /\ Len(v) = Cardinality(Routed(e))
             /\ ToSet(v) = {GradPair(c, e, f \div Done.topk, f % Done.topk, m, n) : f \in Routed(e)}
  <2>0. WeightShape(c)[1] = Width(GradOf(c)) /\ WeightShape(c)[2] = Width(InputOf(c))
    BY DEF WeightShape, WeightProducts, Width, GradOf, InputOf
  <2>1. Reduces(Load(mem, <<c, e, m, n>>), c, e, m, n)
    BY <1>1, <1>2, <1>3, <2>0 DEF WeightMade
  <2>2. Len(v) = Cardinality(Of(Pairs, Ex, e)) /\ ToSet(v) = GradTerms(c, e, m, n)
    BY <1>7, <2>1 DEF Reduces
  <2>3. Routed(e) = Of(Pairs, Ex, e)
    BY <1>4 DEF Of
  <2>4. ASSUME NEW f \in Of(Pairs, Ex, e)
        PROVE  << RowTerm(GradOf(c), f, m), RowTerm(InputOf(c), f, n) >> =
                 GradPair(c, e, f \div Done.topk, f % Done.topk, m, n)
    <3>1. Ex[f] = e
      BY DEF Of
    <3>2. CASE c = "g_W2"
      BY <1>1, <3>1, <3>2 DEF RowTerm, TermOf, GradPair, GradOf, InputOf
    <3>3. CASE c = "g_W1_1"
      BY <1>1, <3>1, <3>3 DEF RowTerm, TermOf, GradPair, GradOf, InputOf
    <3>4. CASE c = "g_W1_2"
      BY <1>1, <3>1, <3>4 DEF RowTerm, TermOf, GradPair, GradOf, InputOf
    <3> QED BY <3>2, <3>3, <3>4 DEF WeightProducts
  <2>5. GradTerms(c, e, m, n) = {GradPair(c, e, f \div Done.topk, f % Done.topk, m, n) : f \in Of(Pairs, Ex, e)}
    BY <2>4 DEF GradTerms
  <2> HIDE DEF Routed
  <2> QED BY ONLY <2>2, <2>3, <2>5
<1> HIDE DEF Routed
<1>8. \A f \in Flat(Done) : \A j \in 1 .. I :
        LET e == ExpertOf(Done, mem, f)
            t == f \div Done.topk
            g == Load(mem, <<"g_gate", t, f % Done.topk>>)[j]
        IN  /\ g["g_wact"] = <<"W2t", e, j - 1, GRow(t)>>
            /\ g["fc1_1"] = Fc1("W1_1", e, t, j - 1) /\ g["fc1_2"] = Fc1("W1_2", e, t, j - 1)
  BY ONLY <1>6, Zenon
<1> DEFINE Exact(c, e, m, n) ==
             LET v == FlattenSeq(Load(mem, <<c, e, m, n>>))
             IN  /\ Len(v) = Cardinality(Routed(e))
                 /\ ToSet(v) = {GradPair(c, e, f \div Done.topk, f % Done.topk, m, n) : f \in Routed(e)}
<1>9. ASSUME NEW c \in WeightProducts, NEW e \in 0 .. Done.E - 1,
             NEW m \in 0 .. WeightShape(c)[1] - 1, NEW n \in 0 .. WeightShape(c)[2] - 1
      PROVE  Exact(c, e, m, n)
  BY <1>7
<1> HIDE DEF Exact
<1>10. \A c \in WeightProducts : \A e \in 0 .. Done.E - 1 :
         \A m \in 0 .. WeightShape(c)[1] - 1, n \in 0 .. WeightShape(c)[2] - 1 : Exact(c, e, m, n)
  BY ONLY <1>9
<1> QED BY ONLY <1>5, <1>8, <1>10, Zenon DEF Exact

\* The gradients of a mixture-of-experts layer, for any sizes and any order of the
\* programs: of a token, over its own experts, although the data-gradient products are
\* launched for one row per token and expert only; of a gate, from its own row; of each of
\* an expert's three weights, over exactly the tokens routed to it, zero if none.
THEOREM MoEGradIsExact == Spec => []MoEGradExact
<1>1. Init => Stream /\ Dispatch /\ Values
  BY StreamInit, DispatchInit, ValuesInit
<1>2. Stream /\ Dispatch /\ Values /\ [Next]_vars => (Stream /\ Dispatch /\ Values)'
  BY StreamStep, DispatchStep, ValuesStep
<1>3. Stream /\ Dispatch /\ Values => MoEGradExact
  BY ValuesMeanMoEGrad
<1> QED BY <1>1, <1>2, <1>3, PTL DEF Spec

==============================================================================
