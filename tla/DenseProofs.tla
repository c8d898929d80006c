------------------------------ MODULE DenseProofs ------------------------------
(***************************************************************************)
(* Proofs about the device stream and the dense kernels: whatever the      *)
(* tile shape, the number of programs, the order in which they run and the *)
(* shape of the input, every element of a product, of a log-softmax, of an *)
(* RMS norm and of a mean is stored, and holds the term of its own row and *)
(* column, its reduction ascending and complete.                           *)
(*                                                                         *)
(* The invariant of the stream (Stream) says that a launch without atomics *)
(* reads one and the same memory until it ends, that only what its         *)
(* programs compute is stored, and that a program that is through has      *)
(* stored all of it.  Each kernel then needs two facts about one launch:   *)
(* what a program stores is right (Sound), and every cell has a program    *)
(* that stores it (Complete); the second rests on get_pid_mn being onto    *)
(* the tiles also when the last group is smaller than the others.          *)
(***************************************************************************)
EXTENDS KernelStream, SequenceTheorems, WellFoundedInduction, TLAPS

\* Division with remainder.
LEMMA DivMod ==
  ASSUME NEW a \in Nat, NEW b \in Nat \ {0}
  PROVE  /\ a \div b \in Nat /\ a % b \in Nat /\ a % b < b
         /\ a = (a \div b) * b + (a % b)
OBVIOUS

\* Quotient and remainder are unique.
LEMMA DivUnique ==
  ASSUME NEW a \in Nat, NEW b \in Nat \ {0}, NEW q \in Nat, NEW r \in Nat, r < b, a = q * b + r
  PROVE  a \div b = q /\ a % b = r
<1> DEFINE d == a \div b
           m == a % b
<1>1. d \in Nat /\ m \in Nat /\ m < b /\ a = d * b + m
  BY DivMod
<1> HIDE DEF d, m
<1>2. CASE d < q
  <2>1. (d + 1) * b <= q * b
    BY <1>1, <1>2
  <2>2. (d + 1) * b = d * b + b
    BY <1>1
  <2> QED BY <1>1, <2>1, <2>2
<1>3. CASE q < d
  <2>1. (q + 1) * b <= d * b
    BY <1>1, <1>3
  <2>2. (q + 1) * b = q * b + b
    BY <1>1
  <2> QED BY <1>1, <2>1, <2>2
<1>4. q = d
  BY <1>1, <1>2, <1>3
<1> QED BY <1>1, <1>4 DEF d, m

\* Multiplication is monotonic.
LEMMA MulMono ==
  ASSUME NEW a \in Nat, NEW b \in Nat, NEW c \in Nat, a <= b
  PROVE  a * c \in Nat /\ b * c \in Nat /\ a * c <= b * c /\ c * a <= c * b
OBVIOUS

\* One more multiple.
LEMMA MulSucc ==
  ASSUME NEW a \in Nat, NEW b \in Nat
  PROVE  a * b \in Nat /\ (a + 1) * b = a * b + b
OBVIOUS

\* cdiv(n, w) tiles of width w cover n, and the last is not empty.
LEMMA CdivFacts ==
  ASSUME NEW n \in Nat, NEW w \in Nat \ {0}
  PROVE  /\ Cdiv(n, w) \in Nat
         /\ n <= Cdiv(n, w) * w
         /\ Cdiv(n, w) * w < n + w
<1> DEFINE c == Cdiv(n, w)
           m == (n + w - 1) % w
<1>1. c \in Nat /\ m \in Nat /\ m < w /\ n + w - 1 = c * w + m
  <2>1. n + w - 1 \in Nat
    OBVIOUS
  <2> QED BY <2>1, DivMod DEF Cdiv
<1> HIDE DEF c, m
<1>2. c * w \in Nat
  BY <1>1
<1>3. n <= c * w /\ c * w < n + w
  BY <1>1, <1>2
<1> QED BY <1>1, <1>3 DEF c

\* The tile of index m.
LEMMA TileOf ==
  ASSUME NEW n \in Nat, NEW w \in Nat \ {0}, NEW m \in 0 .. n - 1
  PROVE  /\ m \div w \in 0 .. Cdiv(n, w) - 1
         /\ m % w \in 0 .. w - 1
         /\ (m \div w) * w + (m % w) = m
<1> DEFINE q == m \div w
           r == m % w
           c == Cdiv(n, w)
<1>1. q \in Nat /\ r \in Nat /\ r < w /\ m = q * w + r
  BY DivMod
<1>2. c \in Nat /\ n <= c * w
  BY CdivFacts
<1> HIDE DEF q, r, c
<1>3. q < c
  <2> SUFFICES ASSUME c <= q PROVE FALSE
    BY <1>1, <1>2
  <2>1. c * w <= q * w
    BY <1>1, <1>2, MulMono
  <2>2. q * w \in Nat /\ c * w \in Nat
    BY <1>1, <1>2
  <2> QED BY <1>1, <1>2, <2>1, <2>2
<1>4. q \in 0 .. c - 1 /\ r \in 0 .. w - 1 /\ q * w + r = m
  BY <1>1, <1>2, <1>3
<1> QED BY <1>4 DEF q, r, c

\* Every tile has a program, also in a last group that is smaller than the
\* others, although its rows are then not taken in ascending order.
LEMMA TileIsTaken ==
  ASSUME NEW num_m \in Nat, NEW num_n \in Nat, NEW group \in Nat \ {0}
  PROVE  \A pm \in 0 .. num_m - 1, pn \in 0 .. num_n - 1 :
           \E pid \in 0 .. num_m * num_n - 1 : get_pid_mn(pid, num_m, num_n, group) = <<pm, pn>>
<1> SUFFICES ASSUME NEW pm \in 0 .. num_m - 1, NEW pn \in 0 .. num_n - 1
             PROVE  \E pid \in 0 .. num_m * num_n - 1 : get_pid_mn(pid, num_m, num_n, group) = <<pm, pn>>
  OBVIOUS
<1> DEFINE g     == pm \div group
           x     == pm % group
           first == g * group
           size  == IF num_m - first < group THEN num_m - first ELSE group
           per   == group * num_n
           base  == g * per
           c     == base % size
           b     == base \div size
           r     == IF x >= c THEN x - c ELSE x - c + size
           loc   == pn * size + r
           pid   == base + loc
<1>1. g \in Nat /\ x \in Nat /\ x < group /\ pm = first + x /\ first \in Nat
  BY DivMod
<1>2. size \in Nat \ {0} /\ size <= group /\ first + size <= num_m /\ x < size
  BY <1>1
<1>3. per \in Nat \ {0} /\ base \in Nat
  <2>1. num_n \in Nat \ {0}
    OBVIOUS
  <2>2. per \in Nat \ {0}
    BY <2>1
  <2> HIDE DEF per, g
  <2> QED BY <1>1, <2>2
<1> HIDE DEF g, x, size, per
<1>4. c \in Nat /\ c < size /\ b \in Nat /\ base = b * size + c
  BY <1>2, <1>3, DivMod
<1>5. r \in Nat /\ r < size /\ (c + r = x \/ c + r = x + size)
  BY <1>1, <1>2, <1>4
<1> HIDE DEF c, b, r
<1>6. loc \in Nat /\ pn * size \in Nat /\ loc < num_n * size
  <2>1. (pn + 1) * size <= num_n * size
    BY <1>2, MulMono
  <2>2. (pn + 1) * size = pn * size + size /\ pn * size \in Nat /\ num_n * size \in Nat
    BY <1>2
  <2> QED BY <1>2, <1>5, <2>1, <2>2
<1>7. loc < per
  <2>1. num_n * size <= num_n * group
    BY <1>2, MulMono
  <2>2. num_n * group = per /\ num_n * size \in Nat
    BY <1>2 DEF per
  <2> QED BY <1>3, <1>6, <2>1, <2>2
<1> HIDE DEF loc
<1>8. pid \div per = g /\ pid % per = loc
  BY <1>1, <1>3, <1>6, <1>7, DivUnique
<1>9. loc \div size = pn
  <2>1. loc = pn * size + r /\ pn \in Nat
    BY DEF loc
  <2> QED BY ONLY <1>2, <1>5, <1>6, <2>1, DivUnique
<1>10. pid % size = x
  <2>1. (b + pn) * size = b * size + pn * size /\ b * size \in Nat
    BY <1>2, <1>4
  <2>2. (b + pn + 1) * size = b * size + pn * size + size
    BY <1>2, <1>4
  <2>3. pid = b * size + c + pn * size + r
    BY <1>2, <1>4, <1>5, <1>6 DEF loc
  <2>4. pid \in Nat
    BY <1>3, <1>6
  <2>5. CASE c + r = x
    <3>1. pid = (b + pn) * size + x
      BY <1>1, <1>4, <1>5, <1>6, <2>1, <2>3, <2>5
    <3>2. b + pn \in Nat
      BY <1>4
    <3> QED BY <1>1, <1>2, <2>4, <3>1, <3>2, DivUnique
  <2>6. CASE c + r = x + size
    <3>1. pid = (b + pn + 1) * size + x
      BY <1>1, <1>2, <1>4, <1>5, <1>6, <2>1, <2>2, <2>3, <2>6
    <3>2. b + pn + 1 \in Nat
      BY <1>4
    <3> QED BY <1>1, <1>2, <2>4, <3>1, <3>2, DivUnique
  <2> QED BY <1>5, <2>5, <2>6
<1>11. pid \in 0 .. num_m * num_n - 1
  <2>1. (first + size) * num_n <= num_m * num_n
    BY <1>1, <1>2, MulMono
  <2>2. (first + size) * num_n = first * num_n + num_n * size
    BY <1>1, <1>2
  <2>3. first * num_n = base
    BY <1>1 DEF per
  <2>4. num_n * size \in Nat /\ num_m * num_n \in Nat
    BY <1>2
  <2> QED BY <1>3, <1>6, <2>1, <2>2, <2>3, <2>4
<1>12. get_pid_mn(pid, num_m, num_n, group) = <<first + (pid % size), (pid % per) \div size>>
  BY <1>8 DEF get_pid_mn, per, size
<1> QED BY <1>1, <1>8, <1>9, <1>10, <1>11, <1>12

\* A program is given a tile of the problem.
LEMMA TileInRange ==
  ASSUME NEW num_m \in Nat, NEW num_n \in Nat, NEW group \in Nat \ {0},
         NEW pid \in 0 .. num_m * num_n - 1
  PROVE  \E pm \in 0 .. num_m - 1, pn \in 0 .. num_n - 1 :
           get_pid_mn(pid, num_m, num_n, group) = <<pm, pn>>
<1> DEFINE per   == group * num_n
           g     == pid \div per
           loc   == pid % per
           first == g * group
           size  == IF num_m - first < group THEN num_m - first ELSE group
<1>0. num_n \in Nat \ {0} /\ num_m \in Nat \ {0} /\ num_m * num_n \in Nat /\ pid \in Nat /\ pid < num_m * num_n
  <2>1. num_m * num_n \in Nat
    OBVIOUS
  <2>2. CASE num_n = 0
    BY <2>2
  <2>3. CASE num_m = 0
    BY <2>3
  <2> QED BY <2>1, <2>2, <2>3
<1>1. per \in Nat \ {0}
  BY <1>0
<1> HIDE DEF per
<1>2. g \in Nat /\ loc \in Nat /\ loc < per /\ pid = g * per + loc
  BY <1>0, <1>1, DivMod
<1> HIDE DEF g, loc
<1>3. first \in Nat /\ g * per \in Nat
  BY <1>1, <1>2
<1>4. first < num_m
  <2> SUFFICES ASSUME num_m <= first PROVE FALSE
    BY <1>3
  <2>1. num_m * num_n <= first * num_n
    BY <1>0, <1>3, MulMono
  <2>2. first * num_n = g * per
    BY <1>0, <1>2 DEF per
  <2> QED BY <1>0, <1>2, <1>3, <2>1, <2>2
<1>5. size \in Nat \ {0} /\ size <= group /\ first + size <= num_m
      /\ (size = num_m - first \/ size = group)
  BY <1>3, <1>4
<1> HIDE DEF size
<1>6. pid % size \in Nat /\ pid % size < size
  BY <1>0, <1>5, DivMod
<1>7. loc < num_n * size
  <2>1. CASE size = group
    BY <1>2, <2>1 DEF per
  <2>2. CASE size = num_m - first
    <3>1. num_m * num_n = (first + size) * num_n
      BY <1>3, <1>5, <2>2
    <3>2. (first + size) * num_n = first * num_n + num_n * size
      BY <1>0, <1>3, <1>5
    <3>3. first * num_n = g * per
      BY <1>0, <1>2 DEF per
    <3>4. num_n * size \in Nat
      BY <1>0, <1>5
    <3> QED BY <1>0, <1>2, <1>3, <3>1, <3>2, <3>3, <3>4
  <2> QED BY <1>5, <2>1, <2>2
<1>8. loc \div size \in 0 .. num_n - 1
  <2> DEFINE d == loc \div size
  <2>1. d \in Nat /\ loc % size \in Nat /\ loc = d * size + (loc % size)
    BY <1>2, <1>5, DivMod
  <2> HIDE DEF d
  <2>2. ASSUME num_n <= d PROVE FALSE
    <3>1. num_n * size <= d * size /\ d * size \in Nat /\ num_n * size \in Nat
      BY <1>0, <1>5, <2>1, <2>2, MulMono
    <3> QED BY <1>2, <1>7, <2>1, <3>1
  <2>3. d \in 0 .. num_n - 1
    BY <1>0, <2>1, <2>2
  <2> QED BY <2>3 DEF d
<1>9. get_pid_mn(pid, num_m, num_n, group) = <<first + (pid % size), loc \div size>>
  BY DEF get_pid_mn, per, size, loc, g
<1>10. first + (pid % size) \in 0 .. num_m - 1
  BY <1>3, <1>5, <1>6
<1> QED BY <1>8, <1>9, <1>10

\* A set of natural numbers has a least element.
LEMMA LeastNat ==
  ASSUME NEW T \in SUBSET Nat, T # {}
  PROVE  \E x \in T : \A y \in T : x <= y
<1> DEFINE R == {p \in Nat \X Nat : p[1] < p[2]}
<1>1. R = OpToRel(<, Nat)
  BY DEF OpToRel
<1>2. IsWellFoundedOn(R, Nat)
  BY <1>1, NatLessThanWellFounded
<1>3. \E x \in T : \A y \in T : ~ (<<y, x>> \in R)
  BY <1>2, WFMin
<1>4. PICK x \in T : \A y \in T : ~ (<<y, x>> \in R)
  BY <1>3
<1>5. \A y \in T : x <= y
  <2> SUFFICES ASSUME NEW y \in T PROVE x <= y
    OBVIOUS
  <2>1. <<y, x>> \in Nat \X Nat /\ <<y, x>>[1] = y /\ <<y, x>>[2] = x
    OBVIOUS
  <2>2. ~ (y < x)
    BY <1>4, <2>1
  <2> QED BY <2>2
<1> QED BY <1>5

\* FlattenSeq is what its recursion says.
LEMMA FlattenIs ==
  ASSUME NEW s, NEW c \in Nat \ {0}, Len(s) = c, NEW g,
         g[1] = s[1], \A i \in 2 .. c : g[i] = g[i - 1] \o s[i]
  PROVE  FlattenSeq(s) = g[c]
<1> DEFINE F(f) == [i \in 1 .. c |-> IF i = 1 THEN s[i] ELSE f[i - 1] \o s[i]]
           h == CHOOSE f : f = F(f)
           k == [i \in 1 .. c |-> g[i]]
<1>1. FlattenSeq(s) = h[c]
  BY DEF FlattenSeq
<1>2. k = F(k)
  <2>1. \A i \in 1 .. c : g[i] = IF i = 1 THEN s[i] ELSE k[i - 1] \o s[i]
    <3> TAKE i \in 1 .. c
    <3>1. CASE i = 1
      BY <3>1
    <3>2. CASE i # 1
      <4>1. i \in 2 .. c /\ i - 1 \in 1 .. c
        BY <3>2
      <4>2. k[i - 1] = g[i - 1]
        BY <4>1
      <4> QED BY <3>2, <4>1, <4>2
    <3> QED BY <3>1, <3>2
  <2> QED BY <2>1
<1>3. h = F(h)
  <2>1. \E f : f = F(f)
    BY <1>2
  <2> QED BY <2>1, Zenon
<1> HIDE DEF h
<1>4. \A i \in 1 .. c : h[i] = g[i]
  <2> DEFINE T == {i \in 1 .. c : h[i] # g[i]}
  <2>0. SUFFICES ASSUME T # {} PROVE FALSE
    OBVIOUS
  <2>1. T \in SUBSET Nat
    OBVIOUS
  <2> HIDE DEF T
  <2>2. PICK i \in T : \A j \in T : i <= j
    BY <2>0, <2>1, LeastNat
  <2>3. i \in 1 .. c /\ h[i] # g[i]
    BY DEF T
  <2>4. h[i] = (IF i = 1 THEN s[i] ELSE h[i - 1] \o s[i])
    BY <1>3, <2>3
  <2>5. i # 1
    BY <2>3, <2>4
  <2>6. i - 1 \in 1 .. c /\ i \in 2 .. c /\ i - 1 \notin T
    BY <2>2, <2>3, <2>5
  <2>7. h[i - 1] = g[i - 1]
    BY <2>6 DEF T
  <2> QED BY <2>3, <2>4, <2>5, <2>6, <2>7
<1>5. c \in 1 .. c
  OBVIOUS
<1> QED BY <1>1, <1>4, <1>5

\* A prefix of the lanes and the lanes that follow.
LEMMA UptoConcat ==
  ASSUME NEW p \in Nat, NEW e \in Nat, p <= e
  PROVE  Upto(p) \o [j \in 1 .. e - p |-> p + j - 1] = Upto(e)
BY DEF Upto

\* The tiles of a loop over n lanes hold 0, 1, ..., n - 1.
LEMMA FlatChunks ==
  ASSUME NEW n \in Nat, NEW w \in Nat \ {0}
  PROVE  FlattenSeq(Chunks(n, w)) = Upto(n)
<1> DEFINE c == Cdiv(n, w)
           s == Chunks(n, w)
           End(i) == IF i * w <= n THEN i * w ELSE n
           g == [i \in 1 .. c |-> Upto(End(i))]
<1>1. c \in Nat /\ n <= c * w /\ c * w < n + w
  BY CdivFacts
<1>2. Len(s) = c
  BY <1>1 DEF Chunks
<1>3. CASE c = 0
  <2>1. n = 0
    BY <1>1, <1>3
  <2>2. s = << >>
    BY <1>3 DEF Chunks
  <2>3. FlattenSeq(s) = << >>
    BY <2>2 DEF FlattenSeq
  <2> QED BY <2>1, <2>3 DEF Upto
<1>4. CASE c # 0
  <2>1. \A i \in 1 .. c : /\ i * w \in Nat /\ (i - 1) * w \in Nat /\ i * w = (i - 1) * w + w
                          /\ (i - 1) * w < n
    <3> TAKE i \in 1 .. c
    <3> HIDE DEF c
    <3>1. (i - 1) * w \in Nat /\ i * w \in Nat /\ i * w = (i - 1) * w + w
      OBVIOUS
    <3>2. i * w <= c * w /\ c * w \in Nat
      BY <1>1, MulMono
    <3> QED BY <1>1, <3>1, <3>2
  <2>2. \A i \in 1 .. c : s[i] = [j \in 1 .. End(i) - (i - 1) * w |-> (i - 1) * w + j - 1]
    <3> TAKE i \in 1 .. c
    <3>1. s[i] = [j \in 1 .. (IF i * w <= n THEN w ELSE n - (i - 1) * w) |-> (i - 1) * w + j - 1]
      BY DEF Chunks
    <3> HIDE DEF c
    <3>2. (IF i * w <= n THEN w ELSE n - (i - 1) * w) = End(i) - (i - 1) * w
      BY <2>1
    <3> QED BY <3>1, <3>2
  <2> HIDE DEF c, s
  <2>3. \A i \in 1 .. c : g[i] = Upto(End(i))
    OBVIOUS
  <2>4. 1 \in 1 .. c /\ c \in 1 .. c
    BY <1>1, <1>4
  <2>5. g[1] = s[1]
    <3>1. (1 - 1) * w = 0 /\ End(1) \in Nat
      BY <2>1, <2>4
    <3>2. s[1] = [j \in 1 .. End(1) - 0 |-> 0 + j - 1]
      BY <2>2, <2>4, <3>1
    <3> HIDE DEF End, g
    <3>3. s[1] = Upto(End(1))
      BY <3>1, <3>2 DEF Upto
    <3> QED BY <2>3, <2>4, <3>3
  <2>6. \A i \in 2 .. c : g[i] = g[i - 1] \o s[i]
    <3> TAKE i \in 2 .. c
    <3> DEFINE p == (i - 1) * w
               e == End(i)
    <3>0. i \in 1 .. c /\ i - 1 \in 1 .. c
      BY <1>1
    <3>1. End(i - 1) = p /\ p \in Nat /\ e \in Nat /\ p <= e
      BY <2>1, <3>0
    <3>2. s[i] = [j \in 1 .. e - p |-> p + j - 1]
      BY <2>2, <3>0
    <3>3. g[i - 1] = Upto(p) /\ g[i] = Upto(e)
      <4> HIDE DEF g, End
      <4> QED BY <2>3, <3>0, <3>1
    <3> HIDE DEF p, e, g
    <3> QED BY <3>1, <3>2, <3>3, UptoConcat
  <2>7. FlattenSeq(s) = g[c]
    <3>1. c \in Nat \ {0}
      BY <1>1, <1>4
    <3> HIDE DEF g
    <3> QED BY ONLY <1>2, <2>5, <2>6, <3>1, FlattenIs
  <2>8. End(c) = n
    BY <1>1, <2>1, <2>4
  <2>9. g[c] = Upto(n)
    <3> HIDE DEF g, End
    <3> QED BY <2>3, <2>4, <2>8
  <2> QED BY <2>7, <2>9 DEF s
<1> QED BY <1>3, <1>4

\* A cell that is stored holds what was stored in it.
LEMMA WriteStored ==
  ASSUME NEW S, NEW m, NEW c, NEW v, <<c, v>> \in S, \A t \in S : t[1] = c => t[2] = v
  PROVE  Load(Write(S, m), c) = v /\ c \in DOMAIN Write(S, m)
<1>1. c \in {s[1] : s \in S}
  <2>1. <<c, v>>[1] = c
    OBVIOUS
  <2> QED BY <2>1
<1>2. (CHOOSE s \in S : s[1] = c)[2] = v
  <2>1. \E s \in S : s[1] = c
    BY <1>1
  <2> DEFINE s == CHOOSE t \in S : t[1] = c
  <2>2. s \in S /\ s[1] = c
    BY <2>1
  <2> QED BY <2>2
<1>3. c \in DOMAIN Write(S, m) /\ Write(S, m)[c] = v
  BY <1>1, <1>2 DEF Write
<1> QED BY <1>3 DEF Load

\* A cell that is not stored keeps its value.
LEMMA WriteKept ==
  ASSUME NEW S, NEW m, NEW c, \A t \in S : t[1] # c
  PROVE  /\ Load(Write(S, m), c) = Load(m, c)
         /\ c \in DOMAIN Write(S, m) <=> c \in DOMAIN m
<1>1. c \notin {s[1] : s \in S}
  OBVIOUS
<1>2. /\ c \in DOMAIN Write(S, m) <=> c \in DOMAIN m
      /\ c \in DOMAIN m => Write(S, m)[c] = m[c]
  BY <1>1 DEF Write
<1> QED BY <1>2 DEF Load

\* The kernels that add atomically.
Atomic == {"histogram", "index"}

\* What all programs of a launch store.
AllStores(l, m) == UNION {Stored(l, p, 0, m) : p \in l.grid}

\* The types of the stream, and what is stored by the programs that have run: a
\* launch without atomics reads the memory that was there when it began.
Stream ==
  /\ job \in Jobs
  /\ at \in 1 .. Len(job.launches) + 1
  /\ mem = [c \in DOMAIN mem |-> mem[c]]
  /\ at <= Len(job.launches) =>
       /\ pc \in [Launch(at).grid -> Nat]
       /\ Launch(at).kernel # "index" => \A p \in Launch(at).grid : pc[p] \in {0, 1}
       /\ Launch(at).kernel \notin Atomic =>
            stores = UNION {Stored(Launch(at), p, 0, mem) : p \in {q \in Launch(at).grid : pc[q] = 1}}
  /\ at > Len(job.launches) => stores = {}

\* Nothing is added by a kernel without atomics.
LEMMA NothingAdded ==
  ASSUME NEW l, NEW p, NEW k, l.kernel \notin Atomic
  PROVE  Added(l, p, k, mem) = {}
BY DEF Added, Atomic

\* Additions keep memory a function of the same cells.
LEMMA AddKeeps ==
  ASSUME NEW A, NEW m
  PROVE  /\ DOMAIN AtomicAdd(A, m) = DOMAIN m
         /\ AtomicAdd(A, m) = [c \in DOMAIN AtomicAdd(A, m) |-> AtomicAdd(A, m)[c]]
         /\ A = {} /\ m = [c \in DOMAIN m |-> m[c]] => AtomicAdd(A, m) = m
BY DEF AtomicAdd

\* Stores keep memory a function.
LEMMA WriteIsMemory ==
  ASSUME NEW S, NEW m
  PROVE  Write(S, m) = [c \in DOMAIN Write(S, m) |-> Write(S, m)[c]]
BY DEF Write

\* While a launch without atomics runs, memory does not change.
LEMMA RunKeeps ==
  ASSUME Stream, at <= Len(job.launches), NEW p \in Launch(at).grid, RunProgram(p),
         Launch(at).kernel \notin Atomic
  PROVE  mem' = mem
<1>1. Added(Launch(at), p, pc[p], mem) = {}
  BY NothingAdded
<1> QED BY <1>1, AddKeeps DEF RunProgram, Stream

\* The first launch begins with nothing stored.
LEMMA StreamInit == Init => Stream
<1> SUFFICES ASSUME Init PROVE Stream
  OBVIOUS
<1>1. job \in Jobs /\ at = 1 /\ stores = {} /\ mem = job.mem /\ pc = Idle(job, 1)
  BY DEF Init
<1>2. Len(job.launches) \in Nat /\ mem = [c \in DOMAIN mem |-> mem[c]]
  BY <1>1, JobsAssumption
<1>3. ASSUME at <= Len(job.launches) PROVE pc = [p \in Launch(at).grid |-> 0]
  BY <1>1, <1>2, <1>3 DEF Idle, Launch
<1>4. ASSUME at <= Len(job.launches)
      PROVE  /\ pc \in [Launch(at).grid -> Nat] /\ \A p \in Launch(at).grid : pc[p] \in {0, 1}
             /\ {q \in Launch(at).grid : pc[q] = 1} = {}
  BY <1>3, <1>4
<1>5. ASSUME at <= Len(job.launches)
      PROVE  stores = UNION {Stored(Launch(at), p, 0, mem) : p \in {q \in Launch(at).grid : pc[q] = 1}}
  BY <1>1, <1>4, <1>5
<1> QED BY <1>1, <1>2, <1>4, <1>5 DEF Stream

\* One more program has run.
LEMMA StreamRun ==
  ASSUME Stream, at <= Len(job.launches), NEW p \in Launch(at).grid, RunProgram(p)
  PROVE  Stream'
<1> DEFINE l == Launch(at)
<1>1. /\ pc[p] < Steps(l) /\ pc' = [pc EXCEPT ![p] = @ + 1]
      /\ stores' = stores \cup Stored(l, p, pc[p], mem)
      /\ mem' = AtomicAdd(Added(l, p, pc[p], mem), mem)
      /\ job' = job /\ at' = at
  BY DEF RunProgram
<1>2. Launch(at)' = l
  BY <1>1 DEF Launch
<1>3. mem' = [c \in DOMAIN mem' |-> mem'[c]]
  BY <1>1, AddKeeps
<1>4. pc \in [l.grid -> Nat] /\ (l.kernel # "index" => \A q \in l.grid : pc[q] \in {0, 1})
  BY DEF Stream
<1>5. pc' \in [l.grid -> Nat]
  BY <1>1, <1>4
<1>6. ASSUME l.kernel # "index"
      PROVE  pc[p] = 0 /\ pc'[p] = 1 /\ \A q \in l.grid : q # p => pc'[q] = pc[q]
  <2>1. pc[p] < 1
    BY <1>1, <1>6 DEF Steps
  <2> QED BY <1>1, <1>4, <1>6, <2>1
<1>7. l.kernel # "index" => \A q \in l.grid : pc'[q] \in {0, 1}
  BY <1>4, <1>6
<1>8. ASSUME l.kernel \notin Atomic
      PROVE  stores' = UNION {Stored(l, q, 0, mem') : q \in {x \in l.grid : pc'[x] = 1}}
  <2>1. l.kernel # "index"
    BY <1>8 DEF Atomic
  <2>2. mem' = mem
    BY <1>8, RunKeeps
  <2>3. stores = UNION {Stored(l, q, 0, mem) : q \in {x \in l.grid : pc[x] = 1}}
    BY <1>8 DEF Stream
  <2>4. {x \in l.grid : pc'[x] = 1} = {x \in l.grid : pc[x] = 1} \cup {p}
    BY <1>6, <2>1
  <2>5. stores' = stores \cup Stored(l, p, 0, mem)
    BY <1>1, <1>6, <2>1
  <2> HIDE DEF l
  <2> QED BY <2>2, <2>3, <2>4, <2>5
<1>9. job' \in Jobs /\ at' \in 1 .. Len(job'.launches) + 1
  BY <1>1 DEF Stream
<1>10. ~ (at' > Len(job'.launches))
  <2>1. Len(job.launches) \in Nat /\ at \in Nat
    BY JobsAssumption DEF Stream
  <2> QED BY <1>1, <2>1
<1> HIDE DEF l
<1> QED BY <1>2, <1>3, <1>5, <1>7, <1>8, <1>9, <1>10 DEF Stream

\* The next launch begins.
LEMMA StreamFinish ==
  ASSUME Stream, at <= Len(job.launches), FinishLaunch
  PROVE  /\ Stream'
         /\ Launch(at).kernel \notin Atomic => mem' = Write(AllStores(Launch(at), mem), mem)
<1> DEFINE l == Launch(at)
<1>1. /\ \A p \in l.grid : pc[p] = Steps(l)
      /\ mem' = Write(stores, mem) /\ stores' = {}
      /\ at' = at + 1 /\ pc' = Idle(job, at + 1) /\ job' = job
  BY DEF FinishLaunch
<1>2. Len(job.launches) \in Nat /\ at \in 1 .. Len(job.launches) /\ job \in Jobs
  BY JobsAssumption DEF Stream
<1>3. mem' = [c \in DOMAIN mem' |-> mem'[c]]
  BY <1>1, WriteIsMemory
<1>4. ASSUME at' <= Len(job'.launches) PROVE pc' = [p \in Launch(at)'.grid |-> 0]
  BY <1>1, <1>2, <1>4 DEF Idle, Launch
<1>5. ASSUME at' <= Len(job'.launches)
      PROVE  /\ pc' \in [Launch(at)'.grid -> Nat] /\ \A p \in Launch(at)'.grid : pc'[p] \in {0, 1}
             /\ stores' = UNION {Stored(Launch(at)', p, 0, mem') : p \in {q \in Launch(at)'.grid : pc'[q] = 1}}
  <2>1. {q \in Launch(at)'.grid : pc'[q] = 1} = {}
    BY <1>4, <1>5
  <2> QED BY <1>1, <1>4, <1>5, <2>1
<1>6. Stream'
  BY <1>1, <1>2, <1>3, <1>5 DEF Stream
<1>7. ASSUME l.kernel \notin Atomic PROVE stores = AllStores(l, mem)
  <2>1. \A p \in l.grid : pc[p] = 1
    BY <1>1, <1>7 DEF Steps, Atomic
  <2>2. {q \in l.grid : pc[q] = 1} = l.grid
    BY <2>1
  <2>3. stores = UNION {Stored(l, p, 0, mem) : p \in {q \in l.grid : pc[q] = 1}}
    BY <1>2, <1>7 DEF Stream
  <2> QED BY <2>2, <2>3 DEF AllStores
<1> QED BY <1>1, <1>6, <1>7

\* The stream keeps its types.
LEMMA StreamStep == Stream /\ [Next]_vars => Stream'
<1> SUFFICES ASSUME Stream, [Next]_vars PROVE Stream'
  OBVIOUS
<1>1. CASE UNCHANGED vars
  BY <1>1 DEF vars, Stream, Launch
<1>2. CASE Next
  BY <1>2, StreamRun, StreamFinish DEF Next
<1> QED BY <1>1, <1>2
-----------------------------------------------------------------------------
\* What a matrix product leaves in cell (m, n).
MatmulTerm(l, m, n) == <<m, n, Upto(l.K)>> \o (IF l.bias THEN <<n>> ELSE <<>>)

\* A program of the persistent grid stores only cells of the result, each with
\* the term of that cell: the tile it stores is the tile it computed.
LEMMA MatmulSound ==
  ASSUME NEW l, l.kernel = "matmul", DenseLaunch(l), NEW m0, NEW s \in AllStores(l, m0)
  PROVE  \E m \in 0 .. l.M - 1, n \in 0 .. l.N - 1 : s = << <<"c", m, n>>, MatmulTerm(l, m, n) >>
<1>1. {l.M, l.N, l.K} \subseteq Nat /\ l \in matmul_persistent(l.M, l.N, l.K, l.bias)
  BY DEF DenseLaunch
<1>2. PICK cfg \in MatmulTiles :
        l = [kernel |-> "matmul", M |-> l.M, N |-> l.N, K |-> l.K, bias |-> l.bias, cfg |-> cfg,
             grid |-> {<<p>> : p \in {q \in 0 .. NUM_SMS - 1 :
                                        q < Cdiv(l.M, cfg[1]) * Cdiv(l.N, cfg[2])}}]
  BY <1>1 DEF matmul_persistent, Bf16MatmulConfigs
<1>3. l.cfg = cfg /\ cfg[1] \in Nat \ {0} /\ cfg[2] \in Nat \ {0} /\ cfg[3] \in Nat \ {0}
  BY <1>2, DenseAssumption
<1> DEFINE nm == Cdiv(l.M, l.cfg[1])
           nn == Cdiv(l.N, l.cfg[2])
           S  == NUM_SMS
<1>4. nm \in Nat /\ nn \in Nat /\ S \in Nat \ {0} /\ GROUP_SIZE_M \in Nat \ {0}
  BY <1>1, <1>3, CdivFacts, DenseAssumption
<1>5. PICK p \in 0 .. S - 1 : s \in matmul_kernel_persistent(l, p)
  <2>1. PICK q \in l.grid : s \in Stored(l, q, 0, m0)
    BY DEF AllStores
  <2>2. PICK p \in 0 .. S - 1 : q = <<p>>
    BY <1>2, <2>1
  <2>3. Stored(l, q, 0, m0) = matmul_kernel_persistent(l, q[1])
    BY DEF Stored
  <2> QED BY <2>1, <2>2, <2>3
<1> DEFINE Tile(t) == get_pid_mn(t, nm, nn, GROUP_SIZE_M)
           Iters == {i \in 0 .. nm * nn : p + i * S < nm * nn}
           tile_id(i)   == p + i * S
           tile_id_c(i) == (p - S) + (i + 1) * S
           Col(n) == IF n < l.N THEN n ELSE 0
           Acc(i, a, b) == << Tile(tile_id(i))[1] * l.cfg[1] + a,
                              Col(Tile(tile_id(i))[2] * l.cfg[2] + b),
                              FlattenSeq(Chunks(l.K, l.cfg[3])) >>
           Cm(i, a) == Tile(tile_id_c(i))[1] * l.cfg[1] + a
           Cn(i, b) == Tile(tile_id_c(i))[2] * l.cfg[2] + b
           Bias(n) == IF l.bias THEN <<n>> ELSE <<>>
<1>6. PICK i \in Iters, a \in 0 .. l.cfg[1] - 1, b \in 0 .. l.cfg[2] - 1 :
        /\ Cm(i, a) < l.M /\ Cn(i, b) < l.N
        /\ s = << <<"c", Cm(i, a), Cn(i, b)>>, Acc(i, a, b) \o Bias(Cn(i, b)) >>
  BY <1>5, Zenon DEF matmul_kernel_persistent
<1> HIDE DEF nm, nn
<1>7. tile_id_c(i) = tile_id(i) /\ tile_id(i) \in 0 .. nm * nn - 1
  <2>1. i * S \in Nat /\ (i + 1) * S = i * S + S /\ nm * nn \in Nat
    BY <1>4
  <2> QED BY <1>4, <2>1
<1>8. PICK pm \in 0 .. nm - 1, pn \in 0 .. nn - 1 : Tile(tile_id(i)) = <<pm, pn>>
  BY <1>4, <1>7, TileInRange
<1> DEFINE m == pm * l.cfg[1] + a
           n == pn * l.cfg[2] + b
<1>9. Cm(i, a) = m /\ Cn(i, b) = n /\ Acc(i, a, b) = <<m, Col(n), FlattenSeq(Chunks(l.K, l.cfg[3]))>>
  BY <1>7, <1>8
<1>10. m \in Nat /\ n \in Nat
  BY <1>3, <1>4
<1>11. FlattenSeq(Chunks(l.K, l.cfg[3])) = Upto(l.K)
  BY <1>1, <1>3, FlatChunks
<1> HIDE DEF Acc, Cm, Cn, m, n
<1>12. m \in 0 .. l.M - 1 /\ n \in 0 .. l.N - 1 /\ Col(n) = n
  BY <1>1, <1>6, <1>9, <1>10
<1>13. s = << <<"c", m, n>>, MatmulTerm(l, m, n) >>
  BY <1>6, <1>9, <1>11, <1>12 DEF MatmulTerm
<1> QED BY <1>12, <1>13

\* Every cell of the result is stored.
LEMMA MatmulComplete ==
  ASSUME NEW l, l.kernel = "matmul", DenseLaunch(l), NEW m0, NEW m \in 0 .. l.M - 1, NEW n \in 0 .. l.N - 1
  PROVE  << <<"c", m, n>>, MatmulTerm(l, m, n) >> \in AllStores(l, m0)
<1>1. {l.M, l.N, l.K} \subseteq Nat /\ l \in matmul_persistent(l.M, l.N, l.K, l.bias)
  BY DEF DenseLaunch
<1>2. PICK cfg \in MatmulTiles :
        l = [kernel |-> "matmul", M |-> l.M, N |-> l.N, K |-> l.K, bias |-> l.bias, cfg |-> cfg,
             grid |-> {<<p>> : p \in {q \in 0 .. NUM_SMS - 1 :
                                        q < Cdiv(l.M, cfg[1]) * Cdiv(l.N, cfg[2])}}]
  BY <1>1 DEF matmul_persistent, Bf16MatmulConfigs
<1>3. l.cfg = cfg /\ cfg[1] \in Nat \ {0} /\ cfg[2] \in Nat \ {0} /\ cfg[3] \in Nat \ {0}
  BY <1>2, DenseAssumption
<1> DEFINE nm == Cdiv(l.M, l.cfg[1])
           nn == Cdiv(l.N, l.cfg[2])
           S  == NUM_SMS
           pm == m \div l.cfg[1]
           a  == m % l.cfg[1]
           pn == n \div l.cfg[2]
           b  == n % l.cfg[2]
<1>4. nm \in Nat /\ nn \in Nat /\ S \in Nat \ {0} /\ GROUP_SIZE_M \in Nat \ {0}
  BY <1>1, <1>3, CdivFacts, DenseAssumption
<1>5. /\ pm \in 0 .. nm - 1 /\ a \in 0 .. l.cfg[1] - 1 /\ pm * l.cfg[1] + a = m
      /\ pn \in 0 .. nn - 1 /\ b \in 0 .. l.cfg[2] - 1 /\ pn * l.cfg[2] + b = n
  <2>1. l.M \in Nat /\ l.N \in Nat /\ l.cfg[1] \in Nat \ {0} /\ l.cfg[2] \in Nat \ {0}
    BY <1>1, <1>3
  <2>2. pm \in 0 .. nm - 1 /\ a \in 0 .. l.cfg[1] - 1 /\ pm * l.cfg[1] + a = m
    BY ONLY <2>1, m \in 0 .. l.M - 1, TileOf
  <2>3. pn \in 0 .. nn - 1 /\ b \in 0 .. l.cfg[2] - 1 /\ pn * l.cfg[2] + b = n
    BY ONLY <2>1, n \in 0 .. l.N - 1, TileOf
  <2> QED BY <2>2, <2>3
<1>6. l.grid = {<<p>> : p \in {q \in 0 .. S - 1 : q < nm * nn}}
  BY <1>2, <1>3
<1> HIDE DEF nm, nn, pm, pn, a, b
<1>7. PICK t \in 0 .. nm * nn - 1 : get_pid_mn(t, nm, nn, GROUP_SIZE_M) = <<pm, pn>>
  <2>1. nm \in Nat /\ nn \in Nat /\ GROUP_SIZE_M \in Nat \ {0} /\ pm \in 0 .. nm - 1 /\ pn \in 0 .. nn - 1
    BY <1>4, <1>5
  <2>2. \A q \in 0 .. nm - 1, r \in 0 .. nn - 1 :
          \E t \in 0 .. nm * nn - 1 : get_pid_mn(t, nm, nn, GROUP_SIZE_M) = <<q, r>>
    BY ONLY <2>1, TileIsTaken
  <2> QED BY ONLY <2>1, <2>2
<1> DEFINE p == t % S
           i == t \div S
<1>8. nm * nn \in Nat
  BY <1>4
<1>9. t \in Nat /\ i \in Nat /\ p \in Nat /\ p < S /\ t = i * S + p
  BY <1>4, <1>8, DivMod
<1> HIDE DEF p, i
<1>10. p + i * S = t /\ (p - S) + (i + 1) * S = t /\ i <= t /\ p <= t
  <2>1. i * S \in Nat /\ (i + 1) * S = i * S + S /\ i * 1 <= i * S
    BY <1>4, <1>9
  <2> QED BY <1>4, <1>9, <2>1
<1> DEFINE Tile(k) == get_pid_mn(k, nm, nn, GROUP_SIZE_M)
           Iters == {k \in 0 .. nm * nn : p + k * S < nm * nn}
           tile_id(k)   == p + k * S
           tile_id_c(k) == (p - S) + (k + 1) * S
           Col(x) == IF x < l.N THEN x ELSE 0
           Acc(k, x, y) == << Tile(tile_id(k))[1] * l.cfg[1] + x,
                              Col(Tile(tile_id(k))[2] * l.cfg[2] + y),
                              FlattenSeq(Chunks(l.K, l.cfg[3])) >>
           Cm(k, x) == Tile(tile_id_c(k))[1] * l.cfg[1] + x
           Cn(k, y) == Tile(tile_id_c(k))[2] * l.cfg[2] + y
           Bias(x) == IF l.bias THEN <<x>> ELSE <<>>
           Valid == {y \in Iters \X (0 .. l.cfg[1] - 1) \X (0 .. l.cfg[2] - 1) :
                       Cm(y[1], y[2]) < l.M /\ Cn(y[1], y[3]) < l.N}
           Out == { << <<"c", Cm(x[1], x[2]), Cn(x[1], x[3])>>,
                       Acc(x[1], x[2], x[3]) \o Bias(Cn(x[1], x[3])) >> : x \in Valid }
<1>11. matmul_kernel_persistent(l, p) = Out
  BY DEF matmul_kernel_persistent, nm, nn
<1>12. i \in Iters
  BY <1>7, <1>8, <1>9, <1>10
<1>13. Cm(i, a) = m /\ Cn(i, b) = n
  BY <1>5, <1>7, <1>10
<1>14. FlattenSeq(Chunks(l.K, l.cfg[3])) = Upto(l.K)
  BY <1>1, <1>3, FlatChunks
<1>15. Acc(i, a, b) = <<m, n, Upto(l.K)>>
  BY <1>1, <1>5, <1>7, <1>10, <1>14
<1> DEFINE y == <<i, a, b>>
<1> HIDE DEF Acc, Cm, Cn, Iters
<1>16. y \in Valid
  <2>1. y[1] = i /\ y[2] = a /\ y[3] = b
    OBVIOUS
  <2>2. y \in Iters \X (0 .. l.cfg[1] - 1) \X (0 .. l.cfg[2] - 1)
    BY <1>5, <1>12
  <2>3. m < l.M /\ n < l.N
    BY <1>1
  <2> HIDE DEF y
  <2> QED BY <1>13, <2>1, <2>2, <2>3
<1>17. << <<"c", Cm(i, a), Cn(i, b)>>, Acc(i, a, b) \o Bias(Cn(i, b)) >> \in Out
  <2>1. y[1] = i /\ y[2] = a /\ y[3] = b
    OBVIOUS
  <2> HIDE DEF y, Valid, Bias
  <2> QED BY <1>16, <2>1
<1>18. << <<"c", m, n>>, MatmulTerm(l, m, n) >> \in matmul_kernel_persistent(l, p)
  BY <1>11, <1>13, <1>15, <1>17, Zenon DEF MatmulTerm
<1>19. <<p>> \in l.grid
  BY <1>4, <1>6, <1>8, <1>9, <1>10
<1>20. Stored(l, <<p>>, 0, m0) = matmul_kernel_persistent(l, p)
  BY DEF Stored
<1> QED BY <1>18, <1>19, <1>20 DEF AllStores

-----------------------------------------------------------------------------
\* What a batched product leaves in a cell.
BmmTerm(l, b, m, n) == <<b, m, n, Upto(l.K)>>

\* The block sizes triton_bmm takes are those of its ladder.
LEMMA BmmBlocks ==
  ASSUME NEW ladder \in Seq(Nat \ {0}), ladder # << >>, NEW n \in Nat
  PROVE  BmmBlock(ladder, n) \in Nat \ {0}
<1> DEFINE i == SelectInSeq(ladder, LAMBDA b : n <= b)
<1>1. ladder \in Seq(Nat \ {0}) /\ ladder # << >>
  OBVIOUS
<1>2. i = 0 \/ i \in 1 .. Len(ladder)
  <2> DEFINE J == {j \in 1 .. Len(ladder) : n <= ladder[j]}
  <2>1. i = IF J = {} THEN 0 ELSE Min(J)
    BY DEF SelectInSeq
  <2>2. CASE J = {}
    BY <2>1, <2>2
  <2>3. CASE J # {}
    <3>1. J \in SUBSET Nat
      OBVIOUS
    <3>2. \E x \in J : \A y \in J : x <= y
      BY <2>3, <3>1, LeastNat
    <3> HIDE DEF J
    <3>3. Min(J) \in J
      BY <3>2 DEF Min
    <3> QED BY <2>1, <2>3, <3>3 DEF J
  <2> QED BY <2>2, <2>3
<1>3. Last(ladder) \in Nat \ {0}
  BY <1>1 DEF Last
<1>4. CASE i = 0
  BY <1>3, <1>4 DEF BmmBlock
<1>5. CASE i # 0
  <2>1. i \in 1 .. Len(ladder)
    BY <1>2, <1>5
  <2>2. BmmBlock(ladder, n) = ladder[i]
    BY <1>5 DEF BmmBlock
  <2> HIDE DEF i
  <2> QED BY <1>1, <2>1, <2>2
<1> QED BY <1>4, <1>5

\* The shape of a batched launch.
LEMMA BmmShape ==
  ASSUME NEW l, l.kernel = "bmm", DenseLaunch(l)
  PROVE  /\ l.B \in Nat /\ l.M \in Nat /\ l.N \in Nat /\ l.K \in Nat
         /\ l.bm \in Nat \ {0} /\ l.bn \in Nat \ {0} /\ l.bk \in Nat \ {0}
         /\ l.grid = (0 .. l.B - 1) \X (0 .. Cdiv(l.M, l.bm) * Cdiv(l.N, l.bn) - 1)
<1>1. {l.B, l.M, l.N, l.K} \subseteq Nat /\ l = triton_bmm(l.B, l.M, l.N, l.K)
  BY DEF DenseLaunch
<1>2. /\ l.bm = BmmBlock(BmmLadder, l.M) /\ l.bn = BmmBlock(BmmLadder, l.N) /\ l.bk = BmmBlock(BmmLadderK, l.K)
      /\ l.grid = (0 .. l.B - 1) \X (0 .. Cdiv(l.M, BmmBlock(BmmLadder, l.M)) * Cdiv(l.N, BmmBlock(BmmLadder, l.N)) - 1)
  BY <1>1 DEF triton_bmm
<1>3. l.M \in Nat /\ l.N \in Nat /\ l.K \in Nat
  BY <1>1
<1>4. BmmBlock(BmmLadder, l.M) \in Nat \ {0} /\ BmmBlock(BmmLadder, l.N) \in Nat \ {0} /\ BmmBlock(BmmLadderK, l.K) \in Nat \ {0}
  BY <1>3, BmmBlocks, DenseAssumption
<1> QED BY <1>1, <1>2, <1>4

\* A program stores cells of the result, each with the term of that cell.
LEMMA BmmSound ==
  ASSUME NEW l, l.kernel = "bmm", DenseLaunch(l), NEW m0, NEW s \in AllStores(l, m0)
  PROVE  \E b \in 0 .. l.B - 1, m \in 0 .. l.M - 1, n \in 0 .. l.N - 1 :
           s = << <<"bmm", b, m, n>>, BmmTerm(l, b, m, n) >>
<1>1. /\ l.B \in Nat /\ l.M \in Nat /\ l.N \in Nat /\ l.K \in Nat
      /\ l.bm \in Nat \ {0} /\ l.bn \in Nat \ {0} /\ l.bk \in Nat \ {0}
      /\ l.grid = (0 .. l.B - 1) \X (0 .. Cdiv(l.M, l.bm) * Cdiv(l.N, l.bn) - 1)
  BY BmmShape
<1> DEFINE nm == Cdiv(l.M, l.bm)
           nn == Cdiv(l.N, l.bn)
<1>2. nm \in Nat /\ nn \in Nat
  BY <1>1, CdivFacts
<1>3. PICK q \in l.grid : s \in _bmm_kernel(l, q)
  <2>1. PICK q \in l.grid : s \in Stored(l, q, 0, m0)
    BY DEF AllStores
  <2>2. Stored(l, q, 0, m0) = _bmm_kernel(l, q)
    BY DEF Stored
  <2> QED BY <2>1, <2>2
<1> DEFINE M(a) == (q[2] \div nn) * l.bm + a
           N(b) == (q[2] % nn) * l.bn + b
           Clamp(x, k) == IF x < k THEN x ELSE 0
<1>4. PICK a \in 0 .. l.bm - 1, c \in 0 .. l.bn - 1 :
        /\ M(a) < l.M /\ N(c) < l.N
        /\ s = << <<"bmm", q[1], Clamp(M(a), l.M), Clamp(N(c), l.N)>>,
                  << q[1], M(a), N(c), FlattenSeq(Chunks(l.K, l.bk)) >> >>
  BY <1>3 DEF _bmm_kernel
<1>5. q[1] \in 0 .. l.B - 1 /\ q[2] \in 0 .. nm * nn - 1
  BY <1>1
<1> HIDE DEF nm, nn
<1>6. M(a) \in Nat /\ N(c) \in Nat
  <2>1. nn # 0 /\ q[2] \in Nat
    <3>1. CASE nn = 0
      BY <1>2, <1>5, <3>1
    <3> QED BY <1>2, <1>5, <3>1
  <2>2. q[2] \div nn \in Nat /\ q[2] % nn \in Nat
    BY <1>2, <2>1, DivMod
  <2> QED BY <1>1, <2>2
<1>7. FlattenSeq(Chunks(l.K, l.bk)) = Upto(l.K)
  BY <1>1, FlatChunks
<1> HIDE DEF M, N
<1>8. M(a) \in 0 .. l.M - 1 /\ N(c) \in 0 .. l.N - 1 /\ Clamp(M(a), l.M) = M(a) /\ Clamp(N(c), l.N) = N(c)
  BY <1>1, <1>4, <1>6
<1> QED BY <1>4, <1>5, <1>7, <1>8 DEF BmmTerm

\* Every cell of every batch is stored.
LEMMA BmmComplete ==
  ASSUME NEW l, l.kernel = "bmm", DenseLaunch(l), NEW m0,
         NEW b \in 0 .. l.B - 1, NEW m \in 0 .. l.M - 1, NEW n \in 0 .. l.N - 1
  PROVE  << <<"bmm", b, m, n>>, BmmTerm(l, b, m, n) >> \in AllStores(l, m0)
<1>1. /\ l.B \in Nat /\ l.M \in Nat /\ l.N \in Nat /\ l.K \in Nat
      /\ l.bm \in Nat \ {0} /\ l.bn \in Nat \ {0} /\ l.bk \in Nat \ {0}
      /\ l.grid = (0 .. l.B - 1) \X (0 .. Cdiv(l.M, l.bm) * Cdiv(l.N, l.bn) - 1)
  BY BmmShape
<1> DEFINE nm == Cdiv(l.M, l.bm)
           nn == Cdiv(l.N, l.bn)
           pm == m \div l.bm
           a  == m % l.bm
           pn == n \div l.bn
           c  == n % l.bn
           t  == pm * nn + pn
           q  == <<b, t>>
<1>2. nm \in Nat /\ nn \in Nat
  BY <1>1, CdivFacts
<1>3. pm \in 0 .. nm - 1 /\ a \in 0 .. l.bm - 1 /\ pm * l.bm + a = m
  BY ONLY <1>1, m \in 0 .. l.M - 1, TileOf
<1>4. pn \in 0 .. nn - 1 /\ c \in 0 .. l.bn - 1 /\ pn * l.bn + c = n
  BY ONLY <1>1, n \in 0 .. l.N - 1, TileOf
<1>5. l.grid = (0 .. l.B - 1) \X (0 .. nm * nn - 1)
  BY <1>1
<1> HIDE DEF pm, a, pn, c
<1>6. _bmm_kernel(l, q) =
        LET M(x) == (t \div nn) * l.bm + x
            N(x) == (t % nn) * l.bn + x
            Clamp(x, k) == IF x < k THEN x ELSE 0
            Valid == {x \in (0 .. l.bm - 1) \X (0 .. l.bn - 1) : M(x[1]) < l.M /\ N(x[2]) < l.N}
        IN  IF b >= l.B \/ t \div nn >= nm THEN {}
            ELSE { << <<"bmm", b, Clamp(M(x[1]), l.M), Clamp(N(x[2]), l.N)>>,
                      << b, M(x[1]), N(x[2]), FlattenSeq(Chunks(l.K, l.bk)) >> >> : x \in Valid }
  BY DEF _bmm_kernel
<1> HIDE DEF nm, nn
<1>7. t \div nn = pm /\ t % nn = pn /\ t \in 0 .. nm * nn - 1
  <2>1. nn \in Nat \ {0} /\ pm \in Nat /\ pn \in Nat /\ pn < nn /\ t \in Nat
    BY <1>2, <1>3, <1>4
  <2>2. t \div nn = pm /\ t % nn = pn
    BY ONLY <2>1, DivUnique
  <2>3. (pm + 1) * nn <= nm * nn /\ (pm + 1) * nn = pm * nn + nn /\ nm * nn \in Nat /\ pm * nn \in Nat
    BY <1>2, <1>3, <2>1, MulMono
  <2> QED BY <2>1, <2>2, <2>3
<1>8. q \in l.grid
  BY <1>5, <1>7
<1> HIDE DEF t
<1>9. FlattenSeq(Chunks(l.K, l.bk)) = Upto(l.K)
  BY <1>1, FlatChunks
<1> DEFINE M(x) == pm * l.bm + x
           N(x) == pn * l.bn + x
           Clamp(x, k) == IF x < k THEN x ELSE 0
           Valid == {x \in (0 .. l.bm - 1) \X (0 .. l.bn - 1) : M(x[1]) < l.M /\ N(x[2]) < l.N}
           Out == { << <<"bmm", b, Clamp(M(x[1]), l.M), Clamp(N(x[2]), l.N)>>,
                       << b, M(x[1]), N(x[2]), Upto(l.K) >> >> : x \in Valid }
<1>10. _bmm_kernel(l, q) = Out
  <2>1. ~ (b >= l.B \/ pm >= nm)
    BY <1>1, <1>2, <1>3
  <2> HIDE DEF q
  <2> QED BY <1>6, <1>7, <1>9, <2>1
<1>11. M(a) = m /\ N(c) = n /\ Clamp(m, l.M) = m /\ Clamp(n, l.N) = n /\ m < l.M /\ n < l.N
  BY <1>1, <1>3, <1>4
<1> DEFINE y == <<a, c>>
<1>12. y[1] = a /\ y[2] = c /\ y \in (0 .. l.bm - 1) \X (0 .. l.bn - 1)
  BY <1>3, <1>4
<1> HIDE DEF y, M, N, Clamp, q
<1>13. y \in Valid
  BY <1>11, <1>12
<1>14. << <<"bmm", b, Clamp(M(y[1]), l.M), Clamp(N(y[2]), l.N)>>,
          << b, M(y[1]), N(y[2]), Upto(l.K) >> >> \in Out
  <2> HIDE DEF Valid
  <2> QED BY <1>13
<1> HIDE DEF Out
<1>15. << <<"bmm", b, m, n>>, BmmTerm(l, b, m, n) >> \in _bmm_kernel(l, q)
  BY <1>10, <1>11, <1>12, <1>14 DEF BmmTerm
<1>16. Stored(l, q, 0, m0) = _bmm_kernel(l, q)
  BY DEF Stored
<1> QED BY <1>8, <1>15, <1>16 DEF AllStores

-----------------------------------------------------------------------------
\* The lanes below n of the tiles of a row are the columns of the row.
LEMMA RowColumns ==
  ASSUME NEW n \in Nat, NEW w \in Nat \ {0}
  PROVE  UNION {{j \in Lanes(i, w) : j < n} : i \in 0 .. Cdiv(n, w) - 1} = 0 .. n - 1
<1> DEFINE U == UNION {{j \in Lanes(i, w) : j < n} : i \in 0 .. Cdiv(n, w) - 1}
<1>1. ASSUME NEW j \in U PROVE j \in 0 .. n - 1
  <2>1. PICK i \in 0 .. Cdiv(n, w) - 1 : j \in Lanes(i, w) /\ j < n
    OBVIOUS
  <2>2. i * w \in Nat
    BY CdivFacts
  <2> QED BY <2>1, <2>2 DEF Lanes
<1>2. ASSUME NEW j \in 0 .. n - 1 PROVE j \in U
  <2> DEFINE i == j \div w
             r == j % w
  <2>1. i \in 0 .. Cdiv(n, w) - 1 /\ r \in 0 .. w - 1 /\ i * w + r = j
    BY ONLY n \in Nat, w \in Nat \ {0}, j \in 0 .. n - 1, TileOf
  <2>2. i * w \in Nat /\ Cdiv(n, w) \in Nat
    <3>1. i \in Nat
      BY DivMod
    <3> HIDE DEF i
    <3> QED BY <3>1, CdivFacts
  <2> HIDE DEF i, r
  <2>3. j \in Lanes(i, w) /\ j < n
    BY <2>1, <2>2 DEF Lanes
  <2> QED BY <2>1, <2>3
<1> QED BY <1>1, <1>2

\* What a row of log-softmax, of the RMS norm and of a mean hold.
LogpTerm(l, r, c) ==
  <<r, c, << "max", Chunks(l.n_cols, RowBlock) >>,
    << "sum", << "max", Chunks(l.n_cols, RowBlock) >>, Chunks(l.n_cols, RowBlock) >> >>
RmsTerm(l, r, c) == <<r, c, Chunks(l.n_cols, RowBlock)>>
MeanTerm(l, m, k) == <<m, k, Chunks(l.N, RowBlock)>>

\* log_softmax stores every column of every row.
LEMMA LogpStores ==
  ASSUME NEW l, l.kernel = "log_softmax", DenseLaunch(l), NEW m0
  PROVE  AllStores(l, m0) = {<< <<"logp", x[1], x[2]>>, LogpTerm(l, x[1], x[2]) >> :
                               x \in (0 .. l.n_rows - 1) \X (0 .. l.n_cols - 1)}
<1>1. {l.n_rows, l.n_cols} \subseteq Nat /\ l = log_softmax(l.n_rows, l.n_cols)
  BY DEF DenseLaunch
<1>2. l.grid = {<<r>> : r \in 0 .. l.n_rows - 1}
  BY <1>1 DEF log_softmax
<1>3. UNION {{j \in Lanes(i, RowBlock) : j < l.n_cols} : i \in 0 .. Cdiv(l.n_cols, RowBlock) - 1}
        = 0 .. l.n_cols - 1
  BY <1>1, DenseAssumption, RowColumns
<1>4. \A q : Stored(l, q, 0, m0) = {<< <<"logp", q[1], c>>, LogpTerm(l, q[1], c) >> : c \in 0 .. l.n_cols - 1}
  <2> TAKE q
  <2>1. Stored(l, q, 0, m0) = _log_softmax_kernel(l, q)
    BY DEF Stored
  <2>2. _log_softmax_kernel(l, q) =
          {<< <<"logp", q[1], c>>, LogpTerm(l, q[1], c) >> :
             c \in UNION {{j \in Lanes(i, RowBlock) : j < l.n_cols} :
                            i \in 0 .. Cdiv(l.n_cols, RowBlock) - 1}}
    BY DEF _log_softmax_kernel, LogpTerm
  <2> QED BY <1>3, <2>1, <2>2
<1> DEFINE Cells == {<< <<"logp", x[1], x[2]>>, LogpTerm(l, x[1], x[2]) >> :
                       x \in (0 .. l.n_rows - 1) \X (0 .. l.n_cols - 1)}
<1>5. ASSUME NEW s \in AllStores(l, m0) PROVE s \in Cells
  <2>1. PICK q \in l.grid : s \in Stored(l, q, 0, m0)
    BY DEF AllStores
  <2>2. PICK r \in 0 .. l.n_rows - 1 : q = <<r>>
    BY <1>2
  <2>3. PICK c \in 0 .. l.n_cols - 1 : s = << <<"logp", r, c>>, LogpTerm(l, r, c) >>
    BY <1>4, <2>1, <2>2
  <2> DEFINE x == <<r, c>>
  <2>4. x \in (0 .. l.n_rows - 1) \X (0 .. l.n_cols - 1) /\ x[1] = r /\ x[2] = c
    OBVIOUS
  <2> HIDE DEF x
  <2> QED BY <2>3, <2>4
<1>6. ASSUME NEW r \in 0 .. l.n_rows - 1, NEW c \in 0 .. l.n_cols - 1
      PROVE  << <<"logp", r, c>>, LogpTerm(l, r, c) >> \in AllStores(l, m0)
  <2>1. <<r>> \in l.grid /\ <<r>>[1] = r
    BY <1>2
  <2>2. << <<"logp", r, c>>, LogpTerm(l, r, c) >> \in Stored(l, <<r>>, 0, m0)
    BY <1>4, <2>1
  <2> QED BY <2>1, <2>2 DEF AllStores
<1>7. Cells \subseteq AllStores(l, m0)
  BY <1>6
<1> QED BY <1>5, <1>7

\* The RMS norm stores every column of every row.
LEMMA RmsStores ==
  ASSUME NEW l, l.kernel = "rms_norm", DenseLaunch(l), NEW m0
  PROVE  AllStores(l, m0) = {<< <<"rms", x[1], x[2]>>, RmsTerm(l, x[1], x[2]) >> :
                               x \in (0 .. l.n_rows - 1) \X (0 .. l.n_cols - 1)}
<1>1. {l.n_rows, l.n_cols} \subseteq Nat /\ l = _rms_norm_forward(l.n_rows, l.n_cols)
  BY DEF DenseLaunch
<1>2. l.grid = {<<r>> : r \in 0 .. l.n_rows - 1}
  BY <1>1 DEF _rms_norm_forward
<1>3. UNION {{j \in Lanes(i, RowBlock) : j < l.n_cols} : i \in 0 .. Cdiv(l.n_cols, RowBlock) - 1}
        = 0 .. l.n_cols - 1
  BY <1>1, DenseAssumption, RowColumns
<1>4. \A q : Stored(l, q, 0, m0) = {<< <<"rms", q[1], c>>, RmsTerm(l, q[1], c) >> : c \in 0 .. l.n_cols - 1}
  <2> TAKE q
  <2>1. Stored(l, q, 0, m0) = _rms_norm_kernel(l, q)
    BY DEF Stored
  <2>2. _rms_norm_kernel(l, q) =
          {<< <<"rms", q[1], c>>, RmsTerm(l, q[1], c) >> :
             c \in UNION {{j \in Lanes(i, RowBlock) : j < l.n_cols} :
                            i \in 0 .. Cdiv(l.n_cols, RowBlock) - 1}}
    BY DEF _rms_norm_kernel, RmsTerm
  <2> QED BY <1>3, <2>1, <2>2
<1> DEFINE Cells == {<< <<"rms", x[1], x[2]>>, RmsTerm(l, x[1], x[2]) >> :
                       x \in (0 .. l.n_rows - 1) \X (0 .. l.n_cols - 1)}
<1>5. ASSUME NEW s \in AllStores(l, m0) PROVE s \in Cells
  <2>1. PICK q \in l.grid : s \in Stored(l, q, 0, m0)
    BY DEF AllStores
  <2>2. PICK r \in 0 .. l.n_rows - 1 : q = <<r>>
    BY <1>2
  <2>3. PICK c \in 0 .. l.n_cols - 1 : s = << <<"rms", r, c>>, RmsTerm(l, r, c) >>
    BY <1>4, <2>1, <2>2
  <2> DEFINE x == <<r, c>>
  <2>4. x \in (0 .. l.n_rows - 1) \X (0 .. l.n_cols - 1) /\ x[1] = r /\ x[2] = c
    OBVIOUS
  <2> HIDE DEF x
  <2> QED BY <2>3, <2>4
<1>6. ASSUME NEW r \in 0 .. l.n_rows - 1, NEW c \in 0 .. l.n_cols - 1
      PROVE  << <<"rms", r, c>>, RmsTerm(l, r, c) >> \in AllStores(l, m0)
  <2>1. <<r>> \in l.grid /\ <<r>>[1] = r
    BY <1>2
  <2>2. << <<"rms", r, c>>, RmsTerm(l, r, c) >> \in Stored(l, <<r>>, 0, m0)
    BY <1>4, <2>1
  <2> QED BY <2>1, <2>2 DEF AllStores
<1>7. Cells \subseteq AllStores(l, m0)
  BY <1>6
<1> QED BY <1>5, <1>7

\* A mean stores every element of the reduced tensor.
LEMMA MeanStores ==
  ASSUME NEW l, l.kernel = "mean", DenseLaunch(l), NEW m0
  PROVE  AllStores(l, m0) = {<< <<"mean", x[1], x[2]>>, MeanTerm(l, x[1], x[2]) >> :
                               x \in (0 .. l.M - 1) \X (0 .. l.K - 1)}
<1>1. {l.M, l.N, l.K} \subseteq Nat /\ l = mean_launch(l.M, l.N, l.K)
  BY DEF DenseLaunch
<1>2. l.grid = {<<p>> : p \in 0 .. l.M * l.K - 1}
  BY <1>1 DEF mean_launch
<1> DEFINE Cells == {<< <<"mean", x[1], x[2]>>, MeanTerm(l, x[1], x[2]) >> :
                       x \in (0 .. l.M - 1) \X (0 .. l.K - 1)}
           mi(p) == p \div l.K
           ki(p) == p % l.K
<1>3. \A p : Stored(l, <<p>>, 0, m0) =
               IF mi(p) >= l.M \/ ki(p) >= l.K THEN {}
               ELSE {<< <<"mean", mi(p), ki(p)>>, MeanTerm(l, mi(p), ki(p)) >>}
  BY DEF Stored, mean_kernel, MeanTerm
<1>4. ASSUME NEW s \in AllStores(l, m0) PROVE s \in Cells
  <2>1. PICK p \in 0 .. l.M * l.K - 1 : s \in Stored(l, <<p>>, 0, m0)
    BY <1>2 DEF AllStores
  <2>2. mi(p) < l.M /\ ki(p) < l.K /\ s = << <<"mean", mi(p), ki(p)>>, MeanTerm(l, mi(p), ki(p)) >>
    <3>0. l.K # 0
      <4>1. CASE l.K = 0
        BY <1>1, <2>1, <4>1
      <4> QED BY <4>1
    <3>1. p \in Nat /\ l.K \in Nat \ {0} /\ l.M \in Nat
      BY <1>1, <3>0
    <3>2. mi(p) \in Nat /\ ki(p) \in Nat
      BY ONLY <3>1, DivMod
    <3> HIDE DEF mi, ki
    <3>3. ~ (mi(p) >= l.M \/ ki(p) >= l.K) /\ s = << <<"mean", mi(p), ki(p)>>, MeanTerm(l, mi(p), ki(p)) >>
      BY <1>3, <2>1
    <3> QED BY <3>1, <3>2, <3>3
  <2>3. mi(p) \in Nat /\ ki(p) \in Nat
    <3>0. l.K # 0
      <4>1. CASE l.K = 0
        BY <1>1, <2>1, <4>1
      <4> QED BY <4>1
    <3>1. p \in Nat /\ l.K \in Nat \ {0}
      BY <1>1, <3>0
    <3> QED BY ONLY <3>1, DivMod
  <2> HIDE DEF mi, ki
  <2>4. <<mi(p), ki(p)>> \in (0 .. l.M - 1) \X (0 .. l.K - 1)
    BY <1>1, <2>2, <2>3
  <2> QED BY <2>2, <2>4
<1>5. ASSUME NEW m \in 0 .. l.M - 1, NEW k \in 0 .. l.K - 1
      PROVE  << <<"mean", m, k>>, MeanTerm(l, m, k) >> \in AllStores(l, m0)
  <2> DEFINE p == m * l.K + k
  <2>1. l.M \in Nat /\ l.K \in Nat \ {0} /\ m \in Nat /\ k \in Nat /\ k < l.K /\ m < l.M
    BY <1>1
  <2>2. p \in Nat
    BY <2>1
  <2>3. mi(p) = m /\ ki(p) = k
    BY ONLY <2>1, <2>2, DivUnique
  <2>4. p \in 0 .. l.M * l.K - 1
    <3>1. m + 1 \in Nat /\ m + 1 <= l.M /\ l.K \in Nat
      BY <2>1
    <3>2. (m + 1) * l.K <= l.M * l.K /\ l.M * l.K \in Nat
      BY ONLY <2>1, <3>1, MulMono
    <3>3. (m + 1) * l.K = m * l.K + l.K /\ m * l.K \in Nat
      BY ONLY <2>1, <3>1, MulSucc
    <3> QED BY <2>1, <2>2, <3>2, <3>3
  <2> HIDE DEF p, mi, ki
  <2>5. Stored(l, <<p>>, 0, m0) = {<< <<"mean", m, k>>, MeanTerm(l, m, k) >>}
    <3>1. ~ (mi(p) >= l.M \/ ki(p) >= l.K)
      BY <2>1, <2>3
    <3> QED BY <1>3, <2>3, <3>1
  <2>6. <<p>> \in l.grid
    BY <1>2, <2>4
  <2> QED BY <2>5, <2>6 DEF AllStores
<1>6. Cells \subseteq AllStores(l, m0)
  BY <1>5
<1> QED BY <1>4, <1>6

-----------------------------------------------------------------------------
\* What the launch that has just finished left in memory, dense kernel by dense
\* kernel.
Computed ==
  at > 1 =>
    LET l == Launch(at - 1)
    IN  /\ l.kernel = "matmul" =>
             \A m \in 0 .. l.M - 1, n \in 0 .. l.N - 1 : Load(mem, <<"c", m, n>>) = MatmulTerm(l, m, n)
        /\ l.kernel = "bmm" =>
             \A b \in 0 .. l.B - 1, m \in 0 .. l.M - 1, n \in 0 .. l.N - 1 :
               Load(mem, <<"bmm", b, m, n>>) = BmmTerm(l, b, m, n)
        /\ l.kernel = "log_softmax" =>
             \A r \in 0 .. l.n_rows - 1, c \in 0 .. l.n_cols - 1 :
               Load(mem, <<"logp", r, c>>) = LogpTerm(l, r, c)
        /\ l.kernel = "rms_norm" =>
             \A r \in 0 .. l.n_rows - 1, c \in 0 .. l.n_cols - 1 :
               Load(mem, <<"rms", r, c>>) = RmsTerm(l, r, c)
        /\ l.kernel = "mean" =>
             \A m \in 0 .. l.M - 1, k \in 0 .. l.K - 1 :
               Load(mem, <<"mean", m, k>>) = MeanTerm(l, m, k)

\* The cells an atomic kernel adds to.
LEMMA AddedCells ==
  ASSUME NEW l, NEW p, NEW k, NEW m, NEW a \in Added(l, p, k, m)
  PROVE  \E e : a[1] = <<"hist", e>> \/ a[1] = <<"cumcopy", e>>
<1>1. CASE l.kernel = "histogram"
  <2>1. a \in _expert_histogram_kernel(l, p, m)
    BY <1>1 DEF Added
  <2>2. PICK e, v : a = << <<"hist", e>>, v >>
    BY <2>1 DEF _expert_histogram_kernel
  <2> QED BY <2>2
<1>2. CASE l.kernel = "index"
  <2>1. a = << <<"cumcopy", k>>, -Cardinality(IndexLanes(l, p, k, m)) >>
    BY <1>2 DEF Added, _moe_index_compute_add
  <2> QED BY <2>1
<1>3. CASE l.kernel \notin Atomic
  BY <1>3 DEF Added, Atomic
<1> QED BY <1>1, <1>2, <1>3 DEF Atomic

\* Additions leave the other cells alone.
LEMMA AddElsewhere ==
  ASSUME NEW A, NEW m, NEW c, \A a \in A : a[1] # c
  PROVE  Load(AtomicAdd(A, m), c) = Load(m, c)
<1>1. c \in DOMAIN m => AtomicAdd(A, m)[c] = m[c]
  BY DEF AtomicAdd
<1> QED BY <1>1, AddKeeps DEF Load

\* A cell of a dense result is not one that is added to.
LEMMA RunElsewhere ==
  ASSUME NEW p \in Launch(at).grid, RunProgram(p), NEW c,
         c[1] \notin {"hist", "cumcopy"}
  PROVE  Load(mem', c) = Load(mem, c)
<1>1. mem' = AtomicAdd(Added(Launch(at), p, pc[p], mem), mem)
  BY DEF RunProgram
<1>2. \A a \in Added(Launch(at), p, pc[p], mem) : a[1] # c
  BY AddedCells
<1> QED BY <1>1, <1>2, AddElsewhere

\* A program leaves the results of the launch before it as they are.
LEMMA ComputedRun ==
  ASSUME Stream, Computed, NEW p \in Launch(at).grid, RunProgram(p)
  PROVE  Computed'
<1>1. job' = job /\ at' = at
  BY DEF RunProgram
<1> DEFINE l == Launch(at - 1)
<1>2. Launch(at - 1)' = l
  BY <1>1 DEF Launch
<1> HIDE DEF l
<1>3. \A m, n : Load(mem', <<"c", m, n>>) = Load(mem, <<"c", m, n>>)
  <2> TAKE m, n
  <2>1. <<"c", m, n>>[1] \notin {"hist", "cumcopy"}
    OBVIOUS
  <2> QED BY <2>1, RunElsewhere
<1>4. \A b, m, n : Load(mem', <<"bmm", b, m, n>>) = Load(mem, <<"bmm", b, m, n>>)
  <2> TAKE b, m, n
  <2>1. <<"bmm", b, m, n>>[1] \notin {"hist", "cumcopy"}
    OBVIOUS
  <2> QED BY <2>1, RunElsewhere
<1>5. \A m, n : Load(mem', <<"logp", m, n>>) = Load(mem, <<"logp", m, n>>)
  <2> TAKE m, n
  <2>1. <<"logp", m, n>>[1] \notin {"hist", "cumcopy"}
    OBVIOUS
  <2> QED BY <2>1, RunElsewhere
<1>6. \A m, n : Load(mem', <<"rms", m, n>>) = Load(mem, <<"rms", m, n>>)
  <2> TAKE m, n
  <2>1. <<"rms", m, n>>[1] \notin {"hist", "cumcopy"}
    OBVIOUS
  <2> QED BY <2>1, RunElsewhere
<1>7. \A m, n : Load(mem', <<"mean", m, n>>) = Load(mem, <<"mean", m, n>>)
  <2> TAKE m, n
  <2>1. <<"mean", m, n>>[1] \notin {"hist", "cumcopy"}
    OBVIOUS
  <2> QED BY <2>1, RunElsewhere
<1> QED BY <1>1, <1>2, <1>3, <1>4, <1>5, <1>6, <1>7 DEF Computed, l

\* The end of a dense launch writes what its programs computed.
LEMMA ComputedFinish ==
  ASSUME Stream, at <= Len(job.launches), FinishLaunch
  PROVE  Computed'
<1> DEFINE l == Launch(at)
           S == AllStores(l, mem)
<1>1. at' = at + 1 /\ job' = job
  BY DEF FinishLaunch
<1>2. at \in Nat /\ at \in DOMAIN job.launches /\ job \in Jobs
  BY JobsAssumption DEF Stream
<1>3. Launch(at - 1)' = l
  BY <1>1, <1>2 DEF Launch
<1>4. DenseLaunch(l)
  BY <1>2, JobsAssumption DEF Launch
<1>5. l.kernel \notin Atomic => mem' = Write(S, mem)
  BY StreamFinish
<1> HIDE DEF l
<1>6. ASSUME l.kernel = "matmul"
      PROVE  \A m \in 0 .. l.M - 1, n \in 0 .. l.N - 1 : Load(mem', <<"c", m, n>>) = MatmulTerm(l, m, n)
  <2> TAKE m \in 0 .. l.M - 1, n \in 0 .. l.N - 1
  <2>1. << <<"c", m, n>>, MatmulTerm(l, m, n) >> \in S
    BY <1>4, <1>6, MatmulComplete
  <2>2. \A t \in S : t[1] = <<"c", m, n>> => t[2] = MatmulTerm(l, m, n)
    <3> SUFFICES ASSUME NEW t \in S, t[1] = <<"c", m, n>> PROVE t[2] = MatmulTerm(l, m, n)
      OBVIOUS
    <3>1. PICK a, b : t = << <<"c", a, b>>, MatmulTerm(l, a, b) >>
      BY <1>4, <1>6, MatmulSound
    <3> QED BY <3>1
  <2> HIDE DEF S
  <2> QED BY <1>5, <1>6, <2>1, <2>2, WriteStored DEF Atomic
<1>7. ASSUME l.kernel = "bmm"
      PROVE  \A b \in 0 .. l.B - 1, m \in 0 .. l.M - 1, n \in 0 .. l.N - 1 :
               Load(mem', <<"bmm", b, m, n>>) = BmmTerm(l, b, m, n)
  <2> TAKE b \in 0 .. l.B - 1, m \in 0 .. l.M - 1, n \in 0 .. l.N - 1
  <2>1. << <<"bmm", b, m, n>>, BmmTerm(l, b, m, n) >> \in S
    BY <1>4, <1>7, BmmComplete
  <2>2. \A t \in S : t[1] = <<"bmm", b, m, n>> => t[2] = BmmTerm(l, b, m, n)
    <3> SUFFICES ASSUME NEW t \in S, t[1] = <<"bmm", b, m, n>> PROVE t[2] = BmmTerm(l, b, m, n)
      OBVIOUS
    <3>1. PICK x, y, z : t = << <<"bmm", x, y, z>>, BmmTerm(l, x, y, z) >>
      BY <1>4, <1>7, BmmSound
    <3> QED BY <3>1
  <2> HIDE DEF S
  <2> QED BY <1>5, <1>7, <2>1, <2>2, WriteStored DEF Atomic
<1>8. ASSUME l.kernel = "log_softmax"
      PROVE  \A r \in 0 .. l.n_rows - 1, c \in 0 .. l.n_cols - 1 :
               Load(mem', <<"logp", r, c>>) = LogpTerm(l, r, c)
  <2> TAKE r \in 0 .. l.n_rows - 1, c \in 0 .. l.n_cols - 1
  <2>0. S = {<< <<"logp", x[1], x[2]>>, LogpTerm(l, x[1], x[2]) >> :
               x \in (0 .. l.n_rows - 1) \X (0 .. l.n_cols - 1)}
    BY <1>4, <1>8, LogpStores
  <2> DEFINE y == <<r, c>>
  <2>1. y \in (0 .. l.n_rows - 1) \X (0 .. l.n_cols - 1) /\ y[1] = r /\ y[2] = c
    OBVIOUS
  <2> HIDE DEF S, y
  <2>2. << <<"logp", r, c>>, LogpTerm(l, r, c) >> \in S
    BY <2>0, <2>1
  <2>3. \A t \in S : t[1] = <<"logp", r, c>> => t[2] = LogpTerm(l, r, c)
    BY <2>0
  <2> QED BY <1>5, <1>8, <2>2, <2>3, WriteStored DEF Atomic
<1>9. ASSUME l.kernel = "rms_norm"
      PROVE  \A r \in 0 .. l.n_rows - 1, c \in 0 .. l.n_cols - 1 :
               Load(mem', <<"rms", r, c>>) = RmsTerm(l, r, c)
  <2> TAKE r \in 0 .. l.n_rows - 1, c \in 0 .. l.n_cols - 1
  <2>0. S = {<< <<"rms", x[1], x[2]>>, RmsTerm(l, x[1], x[2]) >> :
               x \in (0 .. l.n_rows - 1) \X (0 .. l.n_cols - 1)}
    BY <1>4, <1>9, RmsStores
  <2> DEFINE y == <<r, c>>
  <2>1. y \in (0 .. l.n_rows - 1) \X (0 .. l.n_cols - 1) /\ y[1] = r /\ y[2] = c
    OBVIOUS
  <2> HIDE DEF S, y
  <2>2. << <<"rms", r, c>>, RmsTerm(l, r, c) >> \in S
    BY <2>0, <2>1
  <2>3. \A t \in S : t[1] = <<"rms", r, c>> => t[2] = RmsTerm(l, r, c)
    BY <2>0
  <2> QED BY <1>5, <1>9, <2>2, <2>3, WriteStored DEF Atomic
<1>10. ASSUME l.kernel = "mean"
       PROVE  \A m \in 0 .. l.M - 1, k \in 0 .. l.K - 1 :
                Load(mem', <<"mean", m, k>>) = MeanTerm(l, m, k)
  <2> TAKE m \in 0 .. l.M - 1, k \in 0 .. l.K - 1
  <2>0. S = {<< <<"mean", x[1], x[2]>>, MeanTerm(l, x[1], x[2]) >> :
               x \in (0 .. l.M - 1) \X (0 .. l.K - 1)}
    BY <1>4, <1>10, MeanStores
  <2> DEFINE y == <<m, k>>
  <2>1. y \in (0 .. l.M - 1) \X (0 .. l.K - 1) /\ y[1] = m /\ y[2] = k
    OBVIOUS
  <2> HIDE DEF S, y
  <2>2. << <<"mean", m, k>>, MeanTerm(l, m, k) >> \in S
    BY <2>0, <2>1
  <2>3. \A t \in S : t[1] = <<"mean", m, k>> => t[2] = MeanTerm(l, m, k)
    BY <2>0
  <2> QED BY <1>5, <1>10, <2>2, <2>3, WriteStored DEF Atomic
<1> QED BY <1>3, <1>6, <1>7, <1>8, <1>9, <1>10 DEF Computed

\* What a dense launch left stays until the next launch ends.
LEMMA ComputedStep == Stream /\ Computed /\ [Next]_vars => Computed'
<1> SUFFICES ASSUME Stream, Computed, [Next]_vars PROVE Computed'
  OBVIOUS
<1>1. CASE UNCHANGED vars
  BY <1>1 DEF vars, Computed, Launch
<1>2. CASE Next
  <2>1. at <= Len(job.launches)
    BY <1>2 DEF Next
  <2>2. CASE \E p \in Launch(at).grid : RunProgram(p)
    BY <2>2, ComputedRun
  <2>3. CASE FinishLaunch
    BY <2>1, <2>3, ComputedFinish
  <2> QED BY <1>2, <2>2, <2>3 DEF Next
<1> QED BY <1>1, <1>2

\* The terms are what DenseExact asks for.
LEMMA ComputedIsExact == Stream /\ Computed => DenseExact
<1> SUFFICES ASSUME Stream, Computed PROVE DenseExact
  OBVIOUS
<1> DEFINE l == Launch(at - 1)
<1>1. ASSUME at > 1 PROVE DenseLaunch(l)
  <2>1. at - 1 \in DOMAIN job.launches /\ job \in Jobs
    BY <1>1, JobsAssumption DEF Stream
  <2> QED BY <2>1, JobsAssumption DEF Launch
<1> HIDE DEF l
<1>2. \A n \in Nat : FlattenSeq(Chunks(n, RowBlock)) = Upto(n)
  BY FlatChunks, DenseAssumption
<1>3. ASSUME Just({"log_softmax"})
      PROVE  \A r \in 0 .. l.n_rows - 1, c \in 0 .. l.n_cols - 1 :
               LET v == Load(mem, <<"logp", r, c>>)
               IN  /\ v[1] = r /\ v[2] = c
                   /\ FlattenSeq(v[3][2]) = Upto(l.n_cols)
                   /\ v[4][2] = v[3] /\ FlattenSeq(v[4][3]) = Upto(l.n_cols)
  <2>1. at > 1 /\ l.kernel = "log_softmax"
    BY <1>3 DEF Just, l
  <2>2. l.n_cols \in Nat
    BY <1>1, <2>1 DEF DenseLaunch
  <2>3. \A r \in 0 .. l.n_rows - 1, c \in 0 .. l.n_cols - 1 : Load(mem, <<"logp", r, c>>) = LogpTerm(l, r, c)
    BY <2>1 DEF Computed, l
  <2>4. FlattenSeq(Chunks(l.n_cols, RowBlock)) = Upto(l.n_cols)
    BY <1>2, <2>2
  <2> TAKE r \in 0 .. l.n_rows - 1, c \in 0 .. l.n_cols - 1
  <2> DEFINE v == Load(mem, <<"logp", r, c>>)
  <2>5. v = LogpTerm(l, r, c)
    BY <2>3
  <2> HIDE DEF v
  <2> QED BY <2>4, <2>5 DEF LogpTerm, v
<1>4. ASSUME Just({"rms_norm"})
      PROVE  \A r \in 0 .. l.n_rows - 1, c \in 0 .. l.n_cols - 1 :
               LET v == Load(mem, <<"rms", r, c>>)
               IN  v[1] = r /\ v[2] = c /\ FlattenSeq(v[3]) = Upto(l.n_cols)
  <2>1. at > 1 /\ l.kernel = "rms_norm"
    BY <1>4 DEF Just, l
  <2>2. l.n_cols \in Nat
    BY <1>1, <2>1 DEF DenseLaunch
  <2>3. \A r \in 0 .. l.n_rows - 1, c \in 0 .. l.n_cols - 1 : Load(mem, <<"rms", r, c>>) = RmsTerm(l, r, c)
    BY <2>1 DEF Computed, l
  <2>4. FlattenSeq(Chunks(l.n_cols, RowBlock)) = Upto(l.n_cols)
    BY <1>2, <2>2
  <2> TAKE r \in 0 .. l.n_rows - 1, c \in 0 .. l.n_cols - 1
  <2> DEFINE v == Load(mem, <<"rms", r, c>>)
  <2>5. v = RmsTerm(l, r, c)
    BY <2>3
  <2> HIDE DEF v
  <2> QED BY <2>4, <2>5 DEF RmsTerm, v
<1>5. ASSUME Just({"mean"})
      PROVE  \A m \in 0 .. l.M - 1, k \in 0 .. l.K - 1 :
               LET v == Load(mem, <<"mean", m, k>>)
               IN  v[1] = m /\ v[2] = k /\ FlattenSeq(v[3]) = Upto(l.N)
  <2>1. at > 1 /\ l.kernel = "mean"
    BY <1>5 DEF Just, l
  <2>2. l.N \in Nat
    BY <1>1, <2>1 DEF DenseLaunch
  <2>3. \A m \in 0 .. l.M - 1, k \in 0 .. l.K - 1 : Load(mem, <<"mean", m, k>>) = MeanTerm(l, m, k)
    BY <2>1 DEF Computed, l
  <2>4. FlattenSeq(Chunks(l.N, RowBlock)) = Upto(l.N)
    BY <1>2, <2>2
  <2> TAKE m \in 0 .. l.M - 1, k \in 0 .. l.K - 1
  <2> DEFINE v == Load(mem, <<"mean", m, k>>)
  <2>5. v = MeanTerm(l, m, k)
    BY <2>3
  <2> HIDE DEF v
  <2> QED BY <2>4, <2>5 DEF MeanTerm, v
<1>6. ASSUME Just({"matmul"})
      PROVE  \A m \in 0 .. l.M - 1, n \in 0 .. l.N - 1 :
               Load(mem, <<"c", m, n>>) = <<m, n, Upto(l.K)>> \o (IF l.bias THEN <<n>> ELSE <<>>)
  <2>1. at > 1 /\ l.kernel = "matmul"
    BY <1>6 DEF Just, l
  <2> QED BY <2>1 DEF Computed, MatmulTerm, l
<1>7. ASSUME Just({"bmm"})
      PROVE  \A b \in 0 .. l.B - 1, m \in 0 .. l.M - 1, n \in 0 .. l.N - 1 :
               Load(mem, <<"bmm", b, m, n>>) = <<b, m, n, Upto(l.K)>>
  <2>1. at > 1 /\ l.kernel = "bmm"
    BY <1>7 DEF Just, l
  <2> QED BY <2>1 DEF Computed, BmmTerm, l
<1> QED BY <1>3, <1>4, <1>5, <1>6, <1>7 DEF DenseExact, Done, l

\* For every shape, tile shape, number of programs and order in which they run,
\* the dense kernels store every element of their result, and each element holds
\* the term of its own row and column: ascending k for a product, the whole row
\* once and in order for a reduction.
THEOREM DenseIsExact == Spec => []DenseExact
<1>1. Init => Stream /\ Computed
  <2>1. Init => Computed
    BY DEF Init, Computed
  <2> QED BY <2>1, StreamInit
<1>2. Stream /\ Computed /\ [Next]_vars => (Stream /\ Computed)'
  BY StreamStep, ComputedStep
<1>3. Stream /\ Computed => DenseExact
  BY ComputedIsExact
<1> QED BY <1>1, <1>2, <1>3, PTL DEF Spec

==============================================================================
