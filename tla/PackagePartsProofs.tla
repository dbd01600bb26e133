-------------------------- MODULE PackagePartsProofs --------------------------
(***************************************************************************)
(* The safety of PackageParts, for every set of packages and every limit   *)
(* of slots: what unbundle takes out of a package is payload, what         *)
(* reassemble builds can be read and holds the parts of the directory, and *)
(* parts that nobody has touched make the package they came from.          *)
(***************************************************************************)
EXTENDS PackageParts, SequenceTheorems, WellFoundedInduction, TLAPS

-----------------------------------------------------------------------------
(* Sequences put one after the other.                                      *)

\* A set of numbers has a least one.
LEMMA LeastOf ==
  ASSUME NEW S, S \subseteq Nat, S # {}
  PROVE  \E x \in S : \A y \in S : x <= y
  <1> DEFINE R == OpToRel(<, Nat)
  <1>1. IsWellFoundedOn(R, Nat)
    BY NatLessThanWellFounded
  <1>2. \A x, y \in Nat : x < y => <<x, y>> \in R
    BY DEF OpToRel
  <1> HIDE DEF R
  <1>3. PICK x \in S : \A y \in S : ~(<<y, x>> \in R)
    BY <1>1, WFMin
  <1>4. \A y \in S : ~(y < x)
    BY <1>2, <1>3
  <1>5. \A y \in S : x <= y
    BY <1>4
  <1> QED
    BY <1>5

\* Multiples of a width.
LEMMA Cells ==
  ASSUME NEW w \in Nat \ {0}, NEW n \in Nat, NEW i \in 1 .. n
  PROVE  /\ n * w \in Nat /\ (n * w) \div w = n
         /\ (i - 1) * w \in Nat /\ (i - 1) * w + 1 \in 1 .. n * w
         /\ ((i - 1) * w) \div w = i - 1 /\ ((i - 1) * w) % w = 0
  <1>1. \A k \in Nat : k * w \in Nat /\ (k * w) \div w = k /\ (k * w) % w = 0
    OBVIOUS
  <1>2. (i - 1) * w + w <= n * w
    OBVIOUS
  <1> QED
    BY <1>1, <1>2

\* f chains the sequences of s: f[i] is the first i of them, concatenated.
Joins(f, s, n) ==
  f = [i \in 1 .. n |-> IF i = 1 THEN s[i] ELSE f[i - 1] \o s[i]]

\* The i-th sequence of such a chain.
LEMMA JoinsAt ==
  ASSUME NEW s, NEW n, NEW f, Joins(f, s, n), NEW i \in 1 .. n
  PROVE  f[i] = IF i = 1 THEN s[i] ELSE f[i - 1] \o s[i]
  <1> DEFINE h == [j \in 1 .. n |-> IF j = 1 THEN s[j] ELSE f[j - 1] \o s[j]]
  <1>1. f = h
    BY DEF Joins
  <1>2. h[i] = IF i = 1 THEN s[i] ELSE f[i - 1] \o s[i]
    OBVIOUS
  <1> HIDE DEF h
  <1> QED
    BY <1>1, <1>2

\* There is such a chain of any length: none is the shortest that is missing.
LEMMA JoinsExists ==
  ASSUME NEW s, NEW n \in Nat
  PROVE  \E f : Joins(f, s, n)
  <1> DEFINE S == {m \in Nat : ~ \E f : Joins(f, s, m)}
  <1> SUFFICES ASSUME S # {} PROVE FALSE
    OBVIOUS
  <1>1. PICK m \in S : \A k \in S : m <= k
    BY LeastOf
  <1>2. m # 0
    <2> DEFINE f == [i \in 1 .. 0 |-> s[i]]
    <2>1. Joins(f, s, 0)
      BY DEF Joins
    <2> QED
      BY <2>1, <1>1
  <1>3. PICK f : Joins(f, s, m - 1)
    <2>1. m - 1 \in Nat /\ m - 1 < m
      BY <1>1, <1>2
    <2>2. m - 1 \notin S
      BY <1>1, <2>1
    <2> QED
      BY <2>1, <2>2
  <1> DEFINE g == [i \in 1 .. m |-> IF i = 1 THEN s[i] ELSE f[i - 1] \o s[i]]
  <1>4. ASSUME NEW i \in 1 .. m, i # 1
        PROVE  g[i - 1] = f[i - 1]
    <2>1. i - 1 \in 1 .. m - 1 /\ i - 1 \in 1 .. m
      BY <1>1, <1>4
    <2>2. f[i - 1] = IF i - 1 = 1 THEN s[i - 1] ELSE f[i - 1 - 1] \o s[i - 1]
      BY <1>3, <2>1, JoinsAt
    <2>3. g[i - 1] = IF i - 1 = 1 THEN s[i - 1] ELSE f[i - 1 - 1] \o s[i - 1]
      BY <2>1
    <2> QED
      BY <2>2, <2>3
  <1>5. \A i \in 1 .. m : i # 1 => g[i - 1] = f[i - 1]
    BY <1>4
  <1>6. g = [i \in 1 .. m |-> IF i = 1 THEN s[i] ELSE g[i - 1] \o s[i]]
    BY <1>5
  <1>7. Joins(g, s, m)
    BY <1>6 DEF Joins
  <1> QED
    BY <1>7, <1>1

\* Chains over the same sequences agree as far as both go.
LEMMA JoinsAgree ==
  ASSUME NEW s, NEW n \in Nat, NEW m \in Nat, m <= n,
         NEW f, Joins(f, s, n), NEW g, Joins(g, s, m)
  PROVE  \A i \in 1 .. m : f[i] = g[i]
  <1> DEFINE S == {i \in 1 .. m : f[i] # g[i]}
  <1> SUFFICES ASSUME S # {} PROVE FALSE
    OBVIOUS
  <1>0. S \subseteq Nat /\ S \subseteq 1 .. m /\ \A k \in S : f[k] # g[k]
    OBVIOUS
  <1>1. PICK i \in S : \A k \in S : i <= k
    BY <1>0, LeastOf
  <1>2. i \in 1 .. m /\ i \in 1 .. n /\ f[i] # g[i]
    <2>1. i \in 1 .. m /\ f[i] # g[i]
      BY <1>0, <1>1
    <2> QED
      BY <2>1
  <1>3. f[i] = (IF i = 1 THEN s[i] ELSE f[i - 1] \o s[i])
    BY <1>2, JoinsAt
  <1>4. g[i] = (IF i = 1 THEN s[i] ELSE g[i - 1] \o s[i])
    BY <1>2, JoinsAt
  <1>5. CASE i = 1
    BY <1>2, <1>3, <1>4, <1>5
  <1>6. CASE i # 1
    <2>1. i - 1 \in 1 .. m /\ ~(i <= i - 1)
      BY <1>2, <1>6
    <2>2. i - 1 \notin S
      BY <1>1, <2>1
    <2>3. f[i - 1] = g[i - 1]
      BY <2>1, <2>2
    <2> QED
      BY <1>2, <1>3, <1>4, <1>6, <2>3
  <1> QED
    BY <1>5, <1>6

\* FlattenSeq is the end of the chain.
LEMMA FlattenJoins ==
  ASSUME NEW s, NEW n \in Nat \ {0}, Len(s) = n
  PROVE  \E f : Joins(f, s, n) /\ FlattenSeq(s) = f[n]
  <1> DEFINE Body(f) == [i \in 1 .. Len(s) |-> IF i = 1 THEN s[i] ELSE f[i - 1] \o s[i]]
             f == CHOOSE f : f = Body(f)
  <1>1. FlattenSeq(s) = f[Len(s)]
    BY DEF FlattenSeq
  <1>2. \E g : g = Body(g)
    BY JoinsExists DEF Joins
  <1> HIDE DEF Body
  <1>3. f = Body(f)
    BY <1>2
  <1> HIDE DEF f
  <1>4. Joins(f, s, n)
    BY <1>3 DEF Joins, Body
  <1> QED
    BY <1>1, <1>4

\* Concatenation is associative.
Associates(a, b, c) == (a \o b) \o c = a \o (b \o c)

LEMMA ConcatsAssociate ==
  ASSUME NEW S, NEW a \in Seq(S), NEW b \in Seq(S), NEW c \in Seq(S)
  PROVE  Associates(a, b, c)
BY DEF Associates

\* What FlattenSeq makes of the first m of n sequences,
LEMMA FlattenGrows ==
  ASSUME NEW S, NEW n \in Nat, NEW s \in [1 .. n -> Seq(S)], NEW m \in 1 .. n
  PROVE  FlattenSeq([i \in 1 .. m |-> s[i]]) = FlattenSeq([i \in 1 .. m - 1 |-> s[i]]) \o s[m]
  <1> DEFINE t == [i \in 1 .. m |-> s[i]]
             r == [i \in 1 .. m - 1 |-> s[i]]
  <1>1. /\ Len(t) = m /\ Len(r) = m - 1
        /\ \A i \in 1 .. m : t[i] = s[i]
        /\ \A i \in 1 .. m - 1 : r[i] = s[i]
        /\ s[m] \in Seq(S)
    OBVIOUS
  <1> HIDE DEF t
  <1>2. PICK f : Joins(f, t, m) /\ FlattenSeq(t) = f[m]
    BY <1>1, FlattenJoins
  <1>3. f[m] = IF m = 1 THEN t[m] ELSE f[m - 1] \o t[m]
    BY <1>2, JoinsAt
  <1>4. CASE m = 1
    <2>1. FlattenSeq(r) = <<>>
      <3>1. r = <<>> /\ Len(r) = 0
        BY <1>1, <1>4
      <3> QED
        BY <3>1 DEF FlattenSeq
    <2>2. <<>> \o s[m] = s[m]
      BY <1>1
    <2>3. f[m] = t[m] /\ t[m] = s[m]
      BY <1>1, <1>3, <1>4
    <2> HIDE DEF r
    <2>4. FlattenSeq(t) = FlattenSeq(r) \o s[m]
      BY <1>2, <2>1, <2>2, <2>3
    <2> QED
      BY <2>4 DEF t, r
  <1>5. CASE m # 1
    <2> HIDE DEF r
    <2>1. m - 1 \in Nat \ {0}
      BY <1>5
    <2>2. PICK g : Joins(g, r, m - 1) /\ FlattenSeq(r) = g[m - 1]
      BY <1>1, <2>1, FlattenJoins
    <2>3. \A i \in 1 .. m - 1 : r[i] = t[i]
      <3>1. SUFFICES ASSUME NEW i \in 1 .. m - 1
                     PROVE  r[i] = t[i]
        OBVIOUS
      <3>2. i \in 1 .. m
        BY <2>1
      <3>3. r[i] = s[i]
        BY <1>1
      <3>4. t[i] = s[i]
        BY <1>1, <3>2
      <3> QED
        BY <3>3, <3>4
    <2> DEFINE l == m - 1
    <2>4. m \in Nat /\ l \in Nat /\ l <= m /\ l = m - 1
      BY <2>1
    <2> HIDE DEF l
    <2>5. Joins(g, t, l)
      BY <2>2, <2>3, <2>4 DEF Joins
    <2>6. \A i \in 1 .. l : f[i] = g[i]
      BY <1>2, <2>4, <2>5, JoinsAgree
    <2>7. f[m - 1] = g[m - 1]
      BY <2>1, <2>4, <2>6
    <2>8. FlattenSeq(t) = FlattenSeq(r) \o s[m]
      <3>1. f[m] = f[m - 1] \o t[m] /\ t[m] = s[m]
        BY <1>1, <1>3, <1>5
      <3> QED
        BY <1>2, <2>2, <2>7, <3>1
    <2> QED
      BY <2>8 DEF t, r
  <1> QED
    BY <1>4, <1>5

\* and of none of them.
LEMMA FlattenNone ==
  ASSUME NEW s
  PROVE  FlattenSeq([i \in 1 .. 0 |-> s[i]]) = <<>>
  <1> DEFINE r == [i \in 1 .. 0 |-> s[i]]
  <1>1. r = <<>> /\ Len(r) = 0
    OBVIOUS
  <1> QED
    BY <1>1 DEF FlattenSeq

\* A piece of a concatenation.
LEMMA Pieces ==
  ASSUME NEW S, NEW a \in Seq(S), NEW b \in Seq(S)
  PROVE  /\ a \o b \in Seq(S) /\ Len(a \o b) = Len(a) + Len(b)
         /\ SubSeq(a \o b, 1, Len(a)) = a
         /\ SubSeq(a \o b, Len(a) + 1, Len(a) + Len(b)) = b
  <1> DEFINE c == a \o b
             front == SubSeq(c, 1, Len(a))
             back == SubSeq(c, Len(a) + 1, Len(a) + Len(b))
  <1>1. /\ c \in Seq(S) /\ Len(c) = Len(a) + Len(b) /\ Len(a) \in Nat /\ Len(b) \in Nat
        /\ \A i \in 1 .. Len(a) : c[i] = a[i]
        /\ \A i \in 1 .. Len(b) : c[Len(a) + i] = b[i]
    OBVIOUS
  <1> HIDE DEF c
  <1>2. /\ front \in Seq(S) /\ Len(front) = Len(a)
        /\ \A i \in 1 .. Len(a) : front[i] = a[i]
    BY <1>1
  <1>3. /\ back \in Seq(S) /\ Len(back) = Len(b)
        /\ \A i \in 1 .. Len(b) : back[i] = c[Len(a) + i]
    BY <1>1
  <1> HIDE DEF front, back
  <1>4. front = a
    BY <1>2, SeqEqual
  <1>5. back = b
    BY <1>1, <1>3, SeqEqual
  <1> QED
    BY <1>1, <1>4, <1>5 DEF c, front, back

\* A piece of the front of a concatenation.
LEMMA FrontPiece ==
  ASSUME NEW S, NEW a \in Seq(S), NEW b \in Seq(S),
         NEW k \in Nat \ {0}, NEW l \in Nat, l <= Len(a)
  PROVE  SubSeq(a \o b, k, l) = SubSeq(a, k, l)
  <1> DEFINE c == a \o b
             one == SubSeq(c, k, l)
             other == SubSeq(a, k, l)
  <1>1. /\ c \in Seq(S) /\ Len(c) = Len(a) + Len(b) /\ Len(a) \in Nat /\ Len(b) \in Nat
        /\ \A i \in 1 .. Len(a) : c[i] = a[i]
    OBVIOUS
  <1> HIDE DEF c
  <1> DEFINE n == IF k <= l THEN l - k + 1 ELSE 0
  <1>2. /\ one \in Seq(S) /\ Len(one) = n
        /\ \A i \in 1 .. n : one[i] = c[k + i - 1]
    BY <1>1
  <1>3. /\ other \in Seq(S) /\ Len(other) = n
        /\ \A i \in 1 .. n : other[i] = a[k + i - 1]
    BY <1>1
  <1>4. \A i \in 1 .. n : k + i - 1 \in 1 .. Len(a)
    BY <1>1
  <1> HIDE DEF one, other, n
  <1>5. one = other
    BY <1>1, <1>2, <1>3, <1>4, SeqEqual
  <1> QED
    BY <1>5 DEF one, other, c

\* Sequences put one after the other, up to each of them, from u on.
Growing(S, u, s, n, U) ==
  /\ n \in Nat /\ s \in [1 .. n -> Seq(S)] /\ u \in Seq(S)
  /\ U[0] = u /\ \A m \in 1 .. n : U[m] = U[m - 1] \o s[m]

\* Each of them is a sequence,
LEMMA GrowingSeq ==
  ASSUME NEW S, NEW u, NEW s, NEW n, NEW U, Growing(S, u, s, n, U), NEW m \in 0 .. n
  PROVE  U[m] \in Seq(S)
  <1>t. n \in Nat /\ s \in [1 .. n -> Seq(S)] /\ u \in Seq(S)
    BY DEF Growing
  <1> DEFINE Bad == {k \in 0 .. n : U[k] \notin Seq(S)}
  <1> SUFFICES ASSUME Bad # {} PROVE FALSE
    OBVIOUS
  <1>1. Bad \subseteq Nat
    OBVIOUS
  <1>2. PICK k \in Bad : \A j \in Bad : k <= j
    BY <1>1, LeastOf
  <1>3. k \in 0 .. n /\ U[k] \notin Seq(S)
    BY <1>2
  <1>4. k # 0
    BY <1>3 DEF Growing
  <1>5. k \in 1 .. n /\ k - 1 \in 0 .. n /\ ~(k <= k - 1)
    BY <1>t, <1>3, <1>4
  <1>6. U[k - 1] \in Seq(S)
    BY <1>2, <1>5
  <1>7. U[k] = U[k - 1] \o s[k] /\ s[k] \in Seq(S)
    BY <1>t, <1>5 DEF Growing
  <1>8. U[k] \in Seq(S)
    BY <1>6, <1>7
  <1> QED
    BY <1>3, <1>8

\* none is longer than a later one,
LEMMA GrowingLonger ==
  ASSUME NEW S, NEW u, NEW s, NEW n, NEW U, Growing(S, u, s, n, U), NEW k \in 0 .. n
  PROVE  \A j \in k .. n : Len(U[k]) <= Len(U[j])
  <1>t. n \in Nat /\ s \in [1 .. n -> Seq(S)] /\ u \in Seq(S)
    BY DEF Growing
  <1> DEFINE Bad == {i \in k .. n : ~(Len(U[k]) <= Len(U[i]))}
  <1> SUFFICES ASSUME Bad # {} PROVE FALSE
    OBVIOUS
  <1>1. Bad \subseteq Nat
    OBVIOUS
  <1>2. PICK i \in Bad : \A l \in Bad : i <= l
    BY <1>1, LeastOf
  <1>3. i \in k .. n /\ ~(Len(U[k]) <= Len(U[i])) /\ U[k] \in Seq(S)
    BY <1>2, GrowingSeq
  <1>4. i # k
    BY <1>3
  <1>5. i \in 1 .. n /\ i - 1 \in k .. n /\ i - 1 \in 0 .. n /\ ~(i <= i - 1)
    BY <1>t, <1>3, <1>4
  <1>6. Len(U[k]) <= Len(U[i - 1])
    BY <1>2, <1>5
  <1> DEFINE p == U[i - 1]
             q == s[i]
  <1>7. U[i] = p \o q /\ q \in Seq(S)
    BY <1>t, <1>5 DEF Growing
  <1>8. p \in Seq(S)
    BY <1>5, GrowingSeq
  <1> HIDE DEF p, q
  <1>9. Len(U[i]) = Len(p) + Len(q) /\ Len(p) \in Nat /\ Len(q) \in Nat /\ Len(U[k]) \in Nat
    BY <1>3, <1>7, <1>8, Pieces, LenProperties
  <1>10. Len(U[k]) <= Len(p)
    BY <1>6 DEF p
  <1> QED
    BY <1>3, <1>9, <1>10

\* and what is in one of them stays where it is in the later ones.
KeptFrom(U, k, n) ==
  \A a \in Nat \ {0}, b \in 0 .. Len(U[k]), j \in k .. n :
    SubSeq(U[j], a, b) = SubSeq(U[k], a, b)

LEMMA GrowingKept ==
  ASSUME NEW S, NEW u, NEW s, NEW n, NEW U, Growing(S, u, s, n, U), NEW k \in 0 .. n
  PROVE  KeptFrom(U, k, n)
  <1>t. n \in Nat /\ s \in [1 .. n -> Seq(S)] /\ u \in Seq(S)
    BY DEF Growing
  <1> SUFFICES ASSUME NEW a \in Nat \ {0}, NEW b \in 0 .. Len(U[k])
               PROVE  \A j \in k .. n : SubSeq(U[j], a, b) = SubSeq(U[k], a, b)
    BY DEF KeptFrom
  <1> DEFINE Bad == {i \in k .. n : SubSeq(U[i], a, b) # SubSeq(U[k], a, b)}
  <1> SUFFICES ASSUME Bad # {} PROVE FALSE
    OBVIOUS
  <1>1. Bad \subseteq Nat
    OBVIOUS
  <1>2. PICK i \in Bad : \A l \in Bad : i <= l
    BY <1>1, LeastOf
  <1>3. i \in k .. n /\ SubSeq(U[i], a, b) # SubSeq(U[k], a, b)
    BY <1>2
  <1>4. i # k
    BY <1>3
  <1>5. i \in 1 .. n /\ i - 1 \in k .. n /\ i - 1 \in 0 .. n /\ ~(i <= i - 1)
    BY <1>t, <1>3, <1>4
  <1>6. SubSeq(U[i - 1], a, b) = SubSeq(U[k], a, b)
    BY <1>2, <1>5
  <1> DEFINE p == U[i - 1]
             q == s[i]
  <1>7. U[i] = p \o q /\ q \in Seq(S)
    BY <1>t, <1>5 DEF Growing
  <1>8. p \in Seq(S) /\ U[k] \in Seq(S)
    BY <1>5, GrowingSeq
  <1>9. Len(U[k]) <= Len(p)
    BY <1>5, GrowingLonger
  <1> HIDE DEF p, q
  <1>10. b \in Nat /\ b <= Len(p)
    BY <1>8, <1>9
  <1>11. SubSeq(U[i], a, b) = SubSeq(p, a, b)
    BY <1>7, <1>8, <1>10, FrontPiece
  <1> QED
    BY <1>3, <1>6, <1>11 DEF p

\* Each of them is found where it was put.
Placed(u, s, n, U, m) ==
  /\ Len(U[m]) <= Len(U[n])
  /\ SubSeq(U[n], 1, Len(u)) = u
  /\ m # 0 => /\ Len(U[m]) = Len(U[m - 1]) + Len(s[m])
              /\ SubSeq(U[n], Len(U[m - 1]) + 1, Len(U[m])) = s[m]

LEMMA GrowingPieces ==
  ASSUME NEW S, NEW u, NEW s, NEW n, NEW U, Growing(S, u, s, n, U), NEW m \in 0 .. n
  PROVE  Placed(u, s, n, U, m)
  <1>t. n \in Nat /\ s \in [1 .. n -> Seq(S)] /\ u \in Seq(S)
    BY DEF Growing
  <1>0. \A k \in 0 .. n : U[k] \in Seq(S) /\ Len(U[k]) \in Nat
    <2>1. ASSUME NEW k \in 0 .. n PROVE U[k] \in Seq(S)
      BY GrowingSeq
    <2> QED
      BY <2>1, LenProperties
  <1>1. n \in m .. n /\ n \in 0 .. n /\ 0 \in 0 .. n /\ U[0] = u /\ 1 \in Nat \ {0}
    BY DEF Growing
  <1>2. ASSUME NEW k \in 0 .. n
        PROVE  /\ Len(U[k]) <= Len(U[n])
               /\ \A a \in Nat \ {0}, b \in 0 .. Len(U[k]) : SubSeq(U[n], a, b) = SubSeq(U[k], a, b)
    <2>1. n \in k .. n
      BY <1>t
    <2>2. \A j \in k .. n : Len(U[k]) <= Len(U[j])
      BY GrowingLonger
    <2>3. \A a \in Nat \ {0}, b \in 0 .. Len(U[k]), j \in k .. n :
            SubSeq(U[j], a, b) = SubSeq(U[k], a, b)
      <3>1. KeptFrom(U, k, n)
        BY GrowingKept
      <3> QED
        BY <3>1 DEF KeptFrom
    <2> QED
      BY <2>1, <2>2, <2>3
  <1>3. Len(U[m]) <= Len(U[n])
    BY <1>2
  <1>4. SubSeq(U[n], 1, Len(u)) = u
    <2>1. Len(u) \in 0 .. Len(U[0]) /\ SubSeq(u, 1, Len(u)) = u
      BY <1>t, <1>1
    <2>2. SubSeq(U[n], 1, Len(u)) = SubSeq(U[0], 1, Len(u))
      BY <1>1, <1>2, <2>1
    <2> QED
      BY <1>1, <2>1, <2>2
  <1>5. ASSUME m # 0
        PROVE  /\ Len(U[m]) = Len(U[m - 1]) + Len(s[m])
               /\ SubSeq(U[n], Len(U[m - 1]) + 1, Len(U[m])) = s[m]
    <2> DEFINE p == U[m - 1]
               q == s[m]
               start == Len(p) + 1
    <2>1. m \in 1 .. n /\ m - 1 \in 0 .. n
      BY <1>t, <1>5
    <2>2. U[m] = p \o q /\ q \in Seq(S) /\ p \in Seq(S) /\ Len(p) \in Nat
      BY <1>t, <1>0, <2>1 DEF Growing
    <2> HIDE DEF p, q
    <2>3. Len(U[m]) = Len(p) + Len(q) /\ SubSeq(U[m], start, Len(U[m])) = q
      BY <2>2, Pieces
    <2>4. start \in Nat \ {0} /\ Len(U[m]) \in 0 .. Len(U[m])
      BY <1>0, <2>2
    <2> HIDE DEF start
    <2>5. SubSeq(U[n], start, Len(U[m])) = SubSeq(U[m], start, Len(U[m]))
      BY <1>2, <2>4
    <2> QED
      BY <2>3, <2>5 DEF start, p, q
  <1> QED
    BY <1>3, <1>4, <1>5 DEF Placed

-----------------------------------------------------------------------------
(* The trailer, written and read back.                                     *)

\* The first byte of every record of a slot table is where the reader looks.
LEMMA TableCells ==
  ASSUME NEW slots, Len(slots) \in Nat
  PROVE  LET n == Len(slots)
             m == n * SlotSize
         IN  /\ Table(slots) \in Seq({Table(slots)[k] : k \in 1 .. m})
             /\ Len(Table(slots)) = m /\ m \in Nat /\ m \div SlotSize = n
             /\ \A i \in 1 .. n :
                  /\ (i - 1) * SlotSize \in Nat /\ (i - 1) * SlotSize + 1 \in 1 .. m
                  /\ Table(slots)[(i - 1) * SlotSize + 1] = SlotBytes(slots[i])[1]
  <1> DEFINE n == Len(slots)
             m == n * SlotSize
             Cell(k) == SlotBytes(slots[1 + ((k - 1) \div SlotSize)])[1 + ((k - 1) % SlotSize)]
  <1>1. SlotSize \in Nat \ {0} /\ n \in Nat
    BY TpkgAssumption
  <1> HIDE DEF n
  <1>2. m \in Nat /\ m \div SlotSize = n
    BY <1>1
  <1>3. Table(slots) = [k \in 1 .. m |-> Cell(k)]
    BY DEF Table, n
  <1>4. ASSUME NEW i \in 1 .. n
        PROVE  /\ (i - 1) * SlotSize \in Nat /\ (i - 1) * SlotSize + 1 \in 1 .. m
               /\ Table(slots)[(i - 1) * SlotSize + 1] = SlotBytes(slots[i])[1]
    <2> DEFINE a == (i - 1) * SlotSize
    <2>1. a \in Nat /\ a + 1 \in 1 .. m /\ a \div SlotSize = i - 1 /\ a % SlotSize = 0
      BY <1>1, Cells
    <2>2. Table(slots)[a + 1] = Cell(a + 1)
      BY <1>3, <2>1
    <2> HIDE DEF a
    <2>3. a + 1 - 1 = a /\ 1 + (i - 1) = i /\ 1 + 0 = 1
      BY <2>1
    <2>4. Cell(a + 1) = SlotBytes(slots[i])[1]
      BY <2>1, <2>3
    <2> QED
      BY <2>1, <2>2, <2>4 DEF a
  <1> HIDE DEF m, Cell
  <1>5. Table(slots) \in Seq({Table(slots)[k] : k \in 1 .. m}) /\ Len(Table(slots)) = m
    BY <1>2, <1>3
  <1> QED
    BY <1>2, <1>4, <1>5 DEF m, n

\* Where the elements of a concatenation come from.
LEMMA ConcatParts ==
  ASSUME NEW S, NEW a \in Seq(S), NEW b \in Seq(S)
  PROVE  /\ a \o b \in Seq(S) /\ Len(a \o b) = Len(a) + Len(b)
         /\ \A k \in 1 .. Len(a) : (a \o b)[k] = a[k]
         /\ \A k \in 1 .. Len(b) : (a \o b)[Len(a) + k] = b[k]
  OBVIOUS

\* A file of three pieces, as tpkg_write_fd lays it out.
LEMMA Laid ==
  ASSUME NEW S, NEW body \in Seq(S), NEW tab \in Seq(S), NEW hdr \in Seq(S)
  PROVE  LET out == body \o tab \o hdr
         IN  /\ out \in Seq(S) /\ Len(out) = Len(body) + Len(tab) + Len(hdr)
             /\ \A k \in 1 .. Len(body) : out[k] = body[k]
             /\ \A k \in 1 .. Len(tab) : out[Len(body) + k] = tab[k]
             /\ \A k \in 1 .. Len(hdr) : out[Len(body) + Len(tab) + k] = hdr[k]
             /\ \A a \in Nat \ {0}, b \in 0 .. Len(body) : SubSeq(out, a, b) = SubSeq(body, a, b)
  <1> DEFINE most == body \o tab
             out == most \o hdr
  <1>1. /\ Len(body) \in Nat /\ Len(tab) \in Nat /\ Len(hdr) \in Nat
        /\ most \in Seq(S) /\ Len(most) = Len(body) + Len(tab)
        /\ \A k \in 1 .. Len(body) : most[k] = body[k]
        /\ \A k \in 1 .. Len(tab) : most[Len(body) + k] = tab[k]
    OBVIOUS
  <1>2. ASSUME NEW a \in Nat \ {0}, NEW b \in 0 .. Len(body)
        PROVE  SubSeq(most, a, b) = SubSeq(body, a, b)
    BY <1>1, FrontPiece
  <1> HIDE DEF most
  <1>3. /\ out \in Seq(S) /\ Len(out) = Len(most) + Len(hdr)
        /\ \A k \in 1 .. Len(most) : out[k] = most[k]
        /\ \A k \in 1 .. Len(hdr) : out[Len(most) + k] = hdr[k]
    <2>1. most \in Seq(S)
      BY <1>1
    <2> QED
      BY <2>1, ConcatParts
  <1>4. ASSUME NEW a \in Nat \ {0}, NEW b \in 0 .. Len(body)
        PROVE  SubSeq(out, a, b) = SubSeq(body, a, b)
    <2>1. b \in Nat /\ b <= Len(most)
      BY <1>1
    <2>2. SubSeq(out, a, b) = SubSeq(most, a, b)
      BY <1>1, <2>1, FrontPiece
    <2> QED
      BY <1>2, <2>2
  <1> HIDE DEF out
  <1>5. /\ \A k \in 1 .. Len(body) : out[k] = body[k]
        /\ \A k \in 1 .. Len(tab) : out[Len(body) + k] = tab[k]
        /\ \A k \in 1 .. Len(hdr) : out[Len(body) + Len(tab) + k] = hdr[k]
    <2>1. ASSUME NEW k \in 1 .. Len(body) PROVE out[k] = body[k]
      <3>1. k \in 1 .. Len(most)
        BY <1>1
      <3> QED
        BY <1>1, <1>3, <3>1
    <2>2. ASSUME NEW k \in 1 .. Len(tab) PROVE out[Len(body) + k] = tab[k]
      <3>1. Len(body) + k \in 1 .. Len(most)
        BY <1>1
      <3> QED
        BY <1>1, <1>3, <3>1
    <2>3. \A k \in 1 .. Len(hdr) : out[Len(body) + Len(tab) + k] = hdr[k]
      BY <1>1, <1>3
    <2> QED
      BY <2>1, <2>2, <2>3
  <1>6. /\ out \in Seq(S) /\ Len(out) = Len(body) + Len(tab) + Len(hdr)
    BY <1>1, <1>3
  <1>7. \A a \in Nat \ {0}, b \in 0 .. Len(body) : SubSeq(out, a, b) = SubSeq(body, a, b)
    BY <1>4
  <1> QED
    BY <1>5, <1>6, <1>7 DEF out, most

\* A function on the first numbers is a sequence.
LEMMA FunctionIsSeq ==
  ASSUME NEW n \in Nat, NEW f, f = [k \in 1 .. n |-> f[k]]
  PROVE  f \in Seq({f[k] : k \in 1 .. n}) /\ Len(f) = n
  <1> DEFINE S == {f[k] : k \in 1 .. n}
  <1>1. \A k \in 1 .. n : f[k] \in S
    OBVIOUS
  <1> HIDE DEF S
  <1>2. f \in [1 .. n -> S]
    BY <1>1
  <1>3. f \in Seq(S) /\ Len(f) = n
    BY <1>2
  <1> QED
    BY <1>3 DEF S

\* A sequence over a set is one over a larger set.
LEMMA Widen ==
  ASSUME NEW A, NEW B, A \subseteq B, NEW s \in Seq(A)
  PROVE  s \in Seq(B)
  OBVIOUS

\* What tpkg_validate has seen to.
LEMMA ValidManifest ==
  ASSUME NEW slots, Validate(Version, slots) = "OK"
  PROVE  /\ Len(slots) \in 1 .. MaxSlots
         /\ \A i \in DOMAIN slots : ValidSlot(slots[i])
  BY DEF Validate

\* What is written can be read: the same table, and every byte before it.
THEOREM WrittenIsRead ==
  ASSUME NEW S, NEW body \in Seq(S), NEW T, NEW slots \in Seq(T),
         Validate(Version, slots) = "OK"
  PROVE  LET out == Write(body, slots)
         IN  /\ ReadError(out) = "OK"
             /\ Header(out).table = Len(body)
             /\ Records(out) = slots
             /\ Len(body) <= Len(out) /\ Len(out) \in Nat
             /\ \A a \in Nat \ {0}, b \in 0 .. Len(body) : SubSeq(out, a, b) = SubSeq(body, a, b)
  <1> DEFINE n == Len(slots)
             L == Len(body)
             m == n * SlotSize
             tab == Table(slots)
             header == NewHeader(n, L)
             hdr == HeaderBytes(header)
             out == Write(body, slots)
             B == {tab[k] : k \in 1 .. m}
             H == {hdr[k] : k \in 1 .. HeaderSize}
             R == S \cup B \cup H
  <1>0. HeaderSize \in Nat \ {0} /\ SlotSize \in Nat \ {0} /\ MaxSlots \in Nat
    BY TpkgAssumption
  <1>1. n \in 1 .. MaxSlots /\ n \in Nat /\ DOMAIN slots = 1 .. n /\ L \in Nat
    BY <1>0, ValidManifest
  <1>2. out = body \o tab \o hdr
    BY DEF Write
  <1>3. /\ tab \in Seq(B) /\ Len(tab) = m /\ m \in Nat /\ m \div SlotSize = n
        /\ \A i \in 1 .. n :
             /\ (i - 1) * SlotSize \in Nat /\ (i - 1) * SlotSize + 1 \in 1 .. m
             /\ tab[(i - 1) * SlotSize + 1] = SlotBytes(slots[i])[1]
    BY <1>1, TableCells
  <1>4. hdr \in Seq(H) /\ Len(hdr) = HeaderSize /\ hdr[1] = [kind |-> "header", header |-> header, k |-> 1]
    <2> HIDE DEF header
    <2>1. hdr = [k \in 1 .. HeaderSize |-> [kind |-> "header", header |-> header, k |-> k]]
      BY DEF HeaderBytes
    <2>2. DOMAIN hdr = 1 .. HeaderSize /\ hdr[1] = [kind |-> "header", header |-> header, k |-> 1]
      BY <1>0, <2>1
    <2>3. hdr = [k \in 1 .. HeaderSize |-> hdr[k]]
      BY <2>1
    <2> HIDE DEF hdr
    <2>4. hdr \in Seq(H) /\ Len(hdr) = HeaderSize
      BY <1>0, <2>3, FunctionIsSeq
    <2> QED
      BY <2>2, <2>4
  <1>5. header = [magic |-> TRUE, crc |-> TRUE, version |-> Version, count |-> n, table |-> L]
    BY DEF NewHeader
  <1> HIDE DEF n, L, tab, hdr, out, B, H, header
  <1>6. body \in Seq(R) /\ tab \in Seq(R) /\ hdr \in Seq(R)
    BY <1>3, <1>4, Widen
  <1> HIDE DEF R, m
  <1>7. /\ out \in Seq(R) /\ Len(out) = L + m + HeaderSize
        /\ \A k \in 1 .. m : out[L + k] = tab[k]
        /\ out[L + m + 1] = hdr[1]
        /\ \A a \in Nat \ {0}, b \in 0 .. L : SubSeq(out, a, b) = SubSeq(body, a, b)
    <2>1. /\ out \in Seq(R) /\ Len(out) = L + Len(tab) + Len(hdr)
          /\ \A k \in 1 .. Len(tab) : out[L + k] = tab[k]
          /\ \A k \in 1 .. Len(hdr) : out[L + Len(tab) + k] = hdr[k]
          /\ \A a \in Nat \ {0}, b \in 0 .. L : SubSeq(out, a, b) = SubSeq(body, a, b)
      <3> DEFINE o == body \o tab \o hdr
                 b == Len(body)
      <3>1. /\ o \in Seq(R) /\ Len(o) = b + Len(tab) + Len(hdr)
            /\ \A k \in 1 .. Len(tab) : o[b + k] = tab[k]
            /\ \A k \in 1 .. Len(hdr) : o[b + Len(tab) + k] = hdr[k]
            /\ \A i \in Nat \ {0}, j \in 0 .. b : SubSeq(o, i, j) = SubSeq(body, i, j)
        BY <1>6, Laid
      <3>2. out = o /\ L = b
        BY <1>2, Zenon DEF L
      <3> HIDE DEF o, b
      <3> QED
        BY <3>1, <3>2, Zenon
    <2>2. 1 \in 1 .. HeaderSize
      BY <1>0
    <2> QED
      BY <1>3, <1>4, <2>1, <2>2
  <1>8. Len(out) - HeaderSize + 1 = L + m + 1 /\ Len(out) - HeaderSize = L + m /\ HeaderSize <= Len(out)
    <2>1. Len(out) = L + m + HeaderSize /\ L \in Nat /\ m \in Nat /\ HeaderSize \in Nat
      BY <1>0, <1>1, <1>3, <1>7, Zenon
    <2> QED
      BY <2>1
  <1>9. HasHeader(out) /\ Header(out) = header
    <2>1. out[Len(out) - HeaderSize + 1] = [kind |-> "header", header |-> header, k |-> 1]
      BY <1>4, <1>7, <1>8
    <2> QED
      BY <1>8, <2>1 DEF HasHeader, Header
  <1>10. TableFits(L, n, L + m)
    BY <1>1, <1>3 DEF TableFits
  <1>11. HeaderError(out) = "OK"
    <2>1. /\ header.magic /\ header.crc /\ header.version = Version /\ header.count = n
          /\ header.table = L
      BY <1>5
    <2> QED
      BY <1>1, <1>8, <1>9, <1>10, <2>1 DEF HeaderError
  <1>12. ASSUME NEW i \in 1 .. n
         PROVE  RecordAt(out, L + ((i - 1) * SlotSize)) = slots[i]
    <2> DEFINE a == (i - 1) * SlotSize
    <2>1. a \in Nat /\ a + 1 \in 1 .. m /\ tab[a + 1] = SlotBytes(slots[i])[1]
      BY <1>3
    <2>2. SlotBytes(slots[i])[1] = [kind |-> "slot", slot |-> slots[i], k |-> 1]
      BY <1>0 DEF SlotBytes
    <2> HIDE DEF a
    <2>3. out[L + (a + 1)] = [kind |-> "slot", slot |-> slots[i], k |-> 1]
      BY <1>7, <2>1, <2>2
    <2>4. L + a + 1 = L + (a + 1) /\ L + a < Len(out)
      BY <1>0, <1>1, <1>3, <1>7, <2>1
    <2>5. RecordAt(out, L + a) = slots[i]
      BY <2>3, <2>4 DEF RecordAt
    <2> QED
      BY <2>5 DEF a
  <1>13. Records(out) = slots
    <2>1. header.count = n /\ header.table = L
      BY <1>5
    <2>2. Records(out) = [i \in 1 .. n |-> RecordAt(out, L + ((i - 1) * SlotSize))]
      BY <1>9, <2>1 DEF Records
    <2>3. Records(out) = [i \in 1 .. n |-> slots[i]]
      BY <1>12, <2>2
    <2>4. slots = [i \in 1 .. n |-> slots[i]]
      BY <1>1
    <2> QED
      BY <2>3, <2>4
  <1>14. ReadError(out) = "OK"
    <2>1. Header(out).version = Version
      BY <1>5, <1>9
    <2> QED
      BY <1>11, <1>13, <2>1 DEF ReadError
  <1>15. Header(out).table = L
    BY <1>5, <1>9
  <1>16. L <= Len(out) /\ Len(out) \in Nat
    <2>1. Len(out) = L + m + HeaderSize /\ L \in Nat /\ m \in Nat /\ HeaderSize \in Nat
      BY <1>0, <1>1, <1>3, <1>7, Zenon
    <2> QED
      BY <2>1
  <1> QED
    BY <1>7, <1>13, <1>14, <1>15, <1>16 DEF out, L

-----------------------------------------------------------------------------
(* Packages that can be read.                                              *)

Readable(b) == b \in Binaries /\ ReadError(File[b]) = "OK"

\* What the reader has seen to of the header.
LEMMA HeaderRead ==
  ASSUME NEW file, ReadError(file) = "OK"
  PROVE  /\ Header(file).count \in 1 .. MaxSlots
         /\ Header(file).table <= Len(file) - HeaderSize
         /\ Len(file) >= HeaderSize
         /\ TableFits(Header(file).table, Header(file).count, Len(file) - HeaderSize)
         /\ Validate(Header(file).version, Records(file)) = "OK"
  <1>1. HeaderError(file) = "OK" /\ Validate(Header(file).version, Records(file)) = "OK"
    BY DEF ReadError
  <1>2. /\ HasHeader(file) /\ Header(file).count \in 1 .. MaxSlots
        /\ TableFits(Header(file).table, Header(file).count, Len(file) - HeaderSize)
    BY <1>1 DEF HeaderError
  <1>3. Header(file).table <= Len(file) - HeaderSize
    BY <1>2 DEF TableFits
  <1>4. Len(file) >= HeaderSize
    BY <1>2 DEF HasHeader
  <1> QED
    BY <1>1, <1>2, <1>3, <1>4, Zenon

-----------------------------------------------------------------------------
(* The numbers of a trailer.                                               *)

\* The table bound of tpkg__read_core subtracts and divides, so that nothing
\* wraps: for any numbers a header may hold, it lets a table through if and
\* only if the whole of it, added up without a width, ends by avail.
THEOREM TableFitsExactly ==
  ASSUME NEW table \in Nat, NEW count \in Nat, NEW avail \in Nat
  PROVE  TableFits(table, count, avail) <=> table + (count * SlotSize) <= avail
  <1>0. SlotSize \in Nat \ {0}
    BY TpkgAssumption
  <1>1. ASSUME NEW r \in Nat
        PROVE  count <= r \div SlotSize <=> count * SlotSize <= r
    <2> DEFINE q == r \div SlotSize
    <2>1. q \in Nat /\ q * SlotSize <= r /\ r < (q + 1) * SlotSize
      BY <1>0
    <2> HIDE DEF q
    <2>2. ASSUME count <= q PROVE count * SlotSize <= r
      <3>1. count * SlotSize <= q * SlotSize
        BY <1>0, <2>1, <2>2
      <3> QED
        BY <1>0, <2>1, <3>1
    <2>3. ASSUME count > q PROVE count * SlotSize > r
      <3>1. (q + 1) * SlotSize <= count * SlotSize
        BY <1>0, <2>1, <2>3
      <3> QED
        BY <1>0, <2>1, <3>1
    <2>4. count \in Nat /\ q \in Nat /\ count * SlotSize \in Nat
      BY <1>0, <2>1
    <2> QED
      BY <2>2, <2>3, <2>4 DEF q
  <1>2. CASE table <= avail
    <2>1. avail - table \in Nat
      BY <1>2
    <2>2. count <= (avail - table) \div SlotSize <=> count * SlotSize <= avail - table
      BY <1>1, <2>1
    <2>3. count * SlotSize \in Nat
      BY <1>0
    <2> DEFINE area == count * SlotSize
    <2> HIDE DEF area
    <2>4. area <= avail - table <=> table + area <= avail
      BY <2>3 DEF area
    <2> QED
      BY <1>2, <2>2, <2>4 DEF TableFits, area
  <1>3. CASE ~(table <= avail)
    <2>1. count * SlotSize \in Nat
      BY <1>0
    <2>2. ~(table + (count * SlotSize) <= avail)
      BY <1>3, <2>1
    <2> QED
      BY <1>3, <2>2 DEF TableFits
  <1> QED
    BY <1>2, <1>3

\* A package that is read without an error never leads a reader past its end:
\* every record lies in the file before the header, the end of no slot wraps in
\* 64 bits, and the slots that package_unbundle finds in range end by the table
\* and are copied whole. The file may hold any numbers.
THEOREM ReadsStayInside ==
  ASSUME NEW file, Len(file) \in Nat, ReadError(file) = "OK", Header(file).table \in Nat
  PROVE  /\ \A i \in 1 .. Header(file).count :
              Header(file).table + (i * SlotSize) <= Len(file) - HeaderSize
         /\ \A i \in 1 .. Header(file).count :
              LET slot == Records(file)[i]
              IN  slot.offset \in 0 .. Word - 1 /\ slot.size \in 0 .. Word - 1
                    => /\ slot.offset + slot.size < Word
                       /\ InRange(Records(file), Header(file).table)
                            => /\ slot.offset + slot.size <= Header(file).table
                               /\ Bytes(file, slot.offset, slot.size) =
                                    SubSeq(file, slot.offset + 1, slot.offset + slot.size)
  <1> DEFINE count == Header(file).count
             table == Header(file).table
             avail == Len(file) - HeaderSize
             slots == Records(file)
  <1>0. SlotSize \in Nat \ {0} /\ HeaderSize \in Nat \ {0} /\ MaxSlots \in Nat /\ Word \in Nat
    BY TpkgAssumption
  <1>1. /\ count \in 1 .. MaxSlots /\ table \in Nat
        /\ Len(file) >= HeaderSize /\ TableFits(table, count, avail)
        /\ Validate(Header(file).version, slots) = "OK"
    BY HeaderRead, Zenon
  <1>2. DOMAIN slots = 1 .. count
    BY DEF Records
  <1>3. \A i \in DOMAIN slots : ValidSlot(slots[i])
    BY <1>1 DEF Validate
  <1> HIDE DEF count, table, avail, slots
  <1>4. count \in Nat /\ avail \in Nat
    BY <1>0, <1>1 DEF avail
  <1>5. table + (count * SlotSize) <= avail /\ table <= Len(file)
    <2>1. table + (count * SlotSize) <= avail
      BY <1>1, <1>4, TableFitsExactly
    <2>2. table <= avail
      BY <1>1 DEF TableFits
    <2> QED
      BY <1>0, <1>1, <2>1, <2>2 DEF avail
  <1>6. ASSUME NEW i \in 1 .. count
        PROVE  table + (i * SlotSize) <= avail
    <2>1. i \in Nat /\ i <= count
      BY <1>4
    <2>2. i * SlotSize <= count * SlotSize /\ i * SlotSize \in Nat /\ count * SlotSize \in Nat
      BY <1>0, <1>4, <2>1
    <2> QED
      BY <1>1, <1>4, <1>5, <2>2
  <1>7. ASSUME NEW i \in 1 .. count, NEW offset \in 0 .. Word - 1, NEW size \in 0 .. Word - 1,
               offset = slots[i].offset, size = slots[i].size
        PROVE  /\ offset + size < Word
               /\ InRange(slots, table)
                    => /\ offset + size <= table
                       /\ Bytes(file, offset, size) = SubSeq(file, offset + 1, offset + size)
    <2>1. size <= Word - 1 - offset
      BY <1>2, <1>3, <1>7 DEF ValidSlot
    <2>2. offset \in Nat /\ size \in Nat /\ offset + size < Word
      BY <1>0, <2>1
    <2>3. ASSUME InRange(slots, table)
          PROVE  /\ offset + size <= table
                 /\ Bytes(file, offset, size) = SubSeq(file, offset + 1, offset + size)
      <3>1. offset <= table /\ size <= table - offset
        BY <1>2, <1>7, <2>3 DEF InRange
      <3>2. offset + size <= table
        BY <1>1, <2>2, <3>1
      <3>3. Lesser(offset + size, Len(file)) = offset + size
        BY <1>1, <1>5, <2>2, <3>2 DEF Lesser
      <3> QED
        BY <3>2, <3>3 DEF Bytes
    <2> QED
      BY <2>2, <2>3
  <1>8. /\ \A i \in 1 .. count : table + (i * SlotSize) <= avail
        /\ \A i \in 1 .. count :
             slots[i].offset \in 0 .. Word - 1 /\ slots[i].size \in 0 .. Word - 1
               => /\ slots[i].offset + slots[i].size < Word
                  /\ InRange(slots, table)
                       => /\ slots[i].offset + slots[i].size <= table
                          /\ Bytes(file, slots[i].offset, slots[i].size) =
                               SubSeq(file, slots[i].offset + 1, slots[i].offset + slots[i].size)
    <2>1. ASSUME NEW i \in 1 .. count
          PROVE  table + (i * SlotSize) <= avail
      BY <1>6
    <2>2. ASSUME NEW i \in 1 .. count,
                 slots[i].offset \in 0 .. Word - 1, slots[i].size \in 0 .. Word - 1
          PROVE  /\ slots[i].offset + slots[i].size < Word
                 /\ InRange(slots, table)
                      => /\ slots[i].offset + slots[i].size <= table
                         /\ Bytes(file, slots[i].offset, slots[i].size) =
                              SubSeq(file, slots[i].offset + 1, slots[i].offset + slots[i].size)
      BY <1>7, <2>2
    <2> QED
      BY <2>1, <2>2, Zenon
  <1> QED
    BY <1>8, Zenon DEF count, table, avail, slots

\* What the reader has seen to of the records.
LEMMA RecordsRead ==
  ASSUME NEW b, Readable(b)
  PROVE  /\ Records(File[b]) # <<>>
         /\ \E S : Records(File[b]) \in Seq(S)
         /\ Len(Records(File[b])) \in 1 .. MaxSlots
         /\ DOMAIN Records(File[b]) = 1 .. Len(Records(File[b]))
         /\ Header(File[b]).table \in Nat
         /\ \A i \in 1 .. Len(Records(File[b])) :
              Records(File[b])[i].offset \in Nat /\ Records(File[b])[i].size \in Nat
  <1> DEFINE file == File[b]
             count == Header(file).count
             At(i) == RecordAt(file, Header(file).table + ((i - 1) * SlotSize))
  <1>1. count \in 1 .. MaxSlots /\ count \in Nat /\ count >= 1
    BY HeaderRead, TpkgAssumption DEF Readable
  <1>2. Records(file) = [i \in 1 .. count |-> At(i)]
    BY DEF Records
  <1> HIDE DEF At, count
  <1>3. /\ Records(file) \in Seq({At(i) : i \in 1 .. count})
        /\ Len(Records(file)) = count /\ DOMAIN Records(file) = 1 .. count
    BY <1>1, <1>2
  <1>4. /\ Header(file).table \in Nat
        /\ \A i \in DOMAIN Records(file) :
             Records(file)[i].offset \in Nat /\ Records(file)[i].size \in Nat
    <2>1. b \in Binaries /\ ReadError(file) = "OK" /\ Word \in Nat
      BY TpkgAssumption DEF Readable
    <2>2. /\ Header(file).table \in 0 .. Word - 1
          /\ \A i \in DOMAIN Records(file) :
               Records(file)[i].offset \in 0 .. Word - 1 /\ Records(file)[i].size \in 0 .. Word - 1
      BY <2>1, FileAssumption
    <2> QED
      BY <2>1, <2>2
  <1>5. Records(file) # <<>>
    BY <1>1, <1>3
  <1> QED
    BY <1>1, <1>3, <1>4, <1>5

\* A range of the payload is payload.
LEMMA RangeOfPayload ==
  ASSUME NEW b, Readable(b), NEW offset \in Nat, NEW size \in Nat,
         offset + size <= Header(File[b]).table
  PROVE  /\ Bytes(File[b], offset, size) \in Seq({File[b][k] : k \in DOMAIN File[b]})
         /\ Payload(Bytes(File[b], offset, size))
  <1> DEFINE file == File[b]
             S == {file[k] : k \in DOMAIN file}
             table == Header(file).table
  <1>1. /\ file \in Seq(S) /\ table \in Nat
        /\ \A k \in 1 .. table : file[k].kind = "part"
    BY FileAssumption, RecordsRead DEF Readable
  <1> HIDE DEF S
  <1>2. Len(file) \in Nat
    BY <1>1, LenProperties
  <1>3. table <= Len(file)
    BY <1>1, <1>2, HeaderRead, TpkgAssumption DEF Readable
  <1> HIDE DEF file, table
  <1>4. offset + size <= table
    BY DEF file, table
  <1>5. Lesser(offset + size, Len(file)) = offset + size
    BY <1>1, <1>2, <1>3, <1>4 DEF Lesser
  <1>6. Bytes(file, offset, size) = SubSeq(file, offset + 1, offset + size)
    BY <1>5 DEF Bytes
  <1>7. /\ SubSeq(file, offset + 1, offset + size) \in Seq(S)
        /\ DOMAIN SubSeq(file, offset + 1, offset + size) = 1 .. size
        /\ \A k \in 1 .. size : SubSeq(file, offset + 1, offset + size)[k] = file[offset + k]
    BY <1>1, <1>2, <1>3, <1>4
  <1>8. \A k \in 1 .. size : offset + k \in 1 .. table
    BY <1>1, <1>4
  <1>9. Payload(SubSeq(file, offset + 1, offset + size))
    <2> DEFINE piece == SubSeq(file, offset + 1, offset + size)
    <2> HIDE DEF piece
    <2>1. DOMAIN piece = 1 .. size /\ \A k \in 1 .. size : piece[k] = file[offset + k]
      BY <1>7 DEF piece
    <2>2. \A k \in 1 .. size : file[offset + k].kind = "part"
      BY <1>1, <1>8
    <2>3. Payload(piece)
      BY <2>1, <2>2 DEF Payload
    <2> QED
      BY <2>3 DEF piece
  <1>10. Bytes(file, offset, size) \in Seq(S) /\ Payload(Bytes(file, offset, size))
    BY <1>6, <1>7, <1>9
  <1> QED
    BY <1>10 DEF file, S

\* Every part of a package whose slots are in range.
LEMMA PartIsPayload ==
  ASSUME NEW b, Readable(b), InRange(Records(File[b]), Header(File[b]).table),
         NEW part \in 0 .. Len(Records(File[b]))
  PROVE  /\ BytesOf(File[b], Records(File[b]), part) \in Seq({File[b][k] : k \in DOMAIN File[b]})
         /\ Payload(BytesOf(File[b], Records(File[b]), part))
  <1> DEFINE file == File[b]
             slots == Records(file)
             table == Header(file).table
  <1>1. /\ Len(slots) \in Nat /\ Len(slots) >= 1 /\ DOMAIN slots = 1 .. Len(slots)
        /\ table \in Nat
        /\ \A i \in 1 .. Len(slots) : slots[i].offset \in Nat /\ slots[i].size \in Nat
    BY RecordsRead, TpkgAssumption
  <1>2. \A i \in 1 .. Len(slots) :
          slots[i].offset <= table /\ slots[i].size <= table - slots[i].offset
    BY <1>1 DEF InRange
  <1> HIDE DEF slots
  <1>3. CASE part = 0
    <2>1. slots[1].offset \in Nat /\ 0 + slots[1].offset <= table
      BY <1>1, <1>2
    <2>2. BytesOf(file, slots, part) = Bytes(file, 0, slots[1].offset)
      BY <1>3 DEF BytesOf
    <2> QED
      BY <2>1, <2>2, RangeOfPayload DEF slots
  <1>4. CASE part # 0
    <2>1. /\ slots[part].offset \in Nat /\ slots[part].size \in Nat
          /\ slots[part].offset + slots[part].size <= table
      BY <1>1, <1>2, <1>4 DEF slots
    <2>2. BytesOf(file, slots, part) = Bytes(file, slots[part].offset, slots[part].size)
      BY <1>4 DEF BytesOf
    <2> QED
      BY <2>1, <2>2, RangeOfPayload DEF slots
  <1> QED
    BY <1>3, <1>4

\* What is cut short is payload as well.
LEMMA PrefixIsPayload ==
  ASSUME NEW S, NEW s \in Seq(S), Payload(s), NEW bytes \in Prefixes(s)
  PROVE  Payload(bytes)
  <1>1. PICK l \in 0 .. Len(s) : bytes = SubSeq(s, 1, l)
    BY DEF Prefixes
  <1>2. /\ Len(s) \in Nat /\ l \in Nat /\ l <= Len(s) /\ DOMAIN s = 1 .. Len(s)
    BY <1>1
  <1>3. DOMAIN bytes = 1 .. l /\ \A k \in 1 .. l : bytes[k] = s[k]
    BY <1>1, <1>2
  <1> QED
    BY <1>2, <1>3 DEF Payload

-----------------------------------------------------------------------------
(* The invariant.                                                          *)

\* manifest.json is a sequence of entries that name a file.
Named(S) == \A entry \in S : "file" \in DOMAIN entry
JsonIsSeq == \E S : json \in Seq(S) /\ Named(S)

\* An unbundle under way takes the slots of a package that can be read, has
\* found them in range, and has written the parts before the one it is at.
JobChecked ==
  pc = "parts" =>
    /\ Readable(job.binary)
    /\ job.slots = Records(File[job.binary])
    /\ InRange(job.slots, Header(File[job.binary]).table)
    /\ 0 .. job.done - 1 \subseteq DOMAIN dir
    /\ whole = Nothing

JobIsRecord ==
  job = [binary |-> job.binary, table |-> job.table, slots |-> job.slots,
         done |-> job.done, exact |-> job.exact]

IInv == TypeOK /\ PartsOfPayload /\ JsonIsSeq /\ JobChecked /\ JobIsRecord

\* It holds at the start.
LEMMA Start == Init => IInv
  <1> SUFFICES ASSUME Init PROVE IInv
    OBVIOUS
  <1>1. /\ DOMAIN dir = {} /\ json = <<>> /\ json \in Seq({}) /\ Named({})
        /\ job.slots = <<>> /\ Len(job.slots) = 0 /\ job.done = 0
    BY DEF Init, NoFile, NoJob, Named
  <1>2. TypeOK
    BY <1>1, PartsAssumption DEF Init, TypeOK, Parsed, NoFile
  <1>3. JobIsRecord
    BY DEF Init, NoJob, JobIsRecord
  <1> QED
    BY <1>1, <1>2, <1>3 DEF Init, IInv, PartsOfPayload, JsonIsSeq, JobChecked

\* Putting payload in a part's place keeps a directory of payload.
LEMMA PayloadPut ==
  ASSUME PartsOfPayload, NEW part, NEW bytes, Payload(bytes), dir' = With(dir, part, bytes)
  PROVE  PartsOfPayload'
  <1>1. /\ DOMAIN dir' = DOMAIN dir \cup {part} /\ dir'[part] = bytes
        /\ \A y \in DOMAIN dir : y # part => dir'[y] = dir[y]
    BY Zenon DEF With
  <1> SUFFICES ASSUME NEW p \in DOMAIN dir' PROVE Payload(dir'[p])
    BY DEF PartsOfPayload, Payload
  <1> QED
    BY <1>1 DEF PartsOfPayload

\* unbundle begins.
LEMMA BeginStep ==
  ASSUME IInv, NEW b \in Binaries, BeginUnbundle(b)
  PROVE  IInv'
  <1>1. /\ Readable(b) /\ job'.binary = b /\ job'.slots = Records(File[b]) /\ job'.done = 0
        /\ pc' = "parts" /\ InRange(Records(File[b]), Header(File[b]).table)
        /\ calls < MaxCalls /\ calls' = calls + 1 /\ whole' = Nothing
        /\ UNCHANGED <<dir, json, output>>
    BY DEF BeginUnbundle, Readable
  <1>2. /\ Len(job'.slots) \in Nat /\ job' # NoJob
    BY <1>1, RecordsRead, TpkgAssumption DEF NoJob
  <1>3. calls' \in 0 .. MaxCalls
    BY <1>1, PartsAssumption DEF IInv, TypeOK
  <1>4. TypeOK'
    BY <1>1, <1>2, <1>3 DEF IInv, TypeOK, Parsed
  <1>5. JobChecked'
    BY <1>1 DEF JobChecked, Readable
  <1>6. JobIsRecord'
    BY DEF BeginUnbundle, JobIsRecord
  <1> QED
    BY <1>1, <1>4, <1>5, <1>6 DEF IInv, PartsOfPayload, JsonIsSeq

\* What a part file of an unbundle under way may hold.
LEMMA StreamedIsPayload ==
  ASSUME IInv, pc = "parts", job.done <= Len(job.slots)
  PROVE  /\ \A bytes \in Prefixes(Part) : Payload(bytes)
         /\ Len(job.slots) \in 1 .. MaxSlots /\ job.done \in 0 .. MaxSlots
         /\ job.slots # <<>>
  <1>1. /\ Readable(job.binary) /\ job.slots = Records(File[job.binary])
        /\ InRange(job.slots, Header(File[job.binary]).table)
    BY DEF IInv, JobChecked
  <1>2. Len(job.slots) \in 1 .. MaxSlots /\ job.slots # <<>>
    BY <1>1, RecordsRead
  <1>3. job.done \in 0 .. Len(job.slots)
    BY <1>2, TpkgAssumption DEF IInv, TypeOK
  <1>4. PICK S : Part \in Seq(S)
    BY <1>1, <1>3, PartIsPayload DEF Part
  <1>5. Payload(Part)
    BY <1>1, <1>3, PartIsPayload DEF Part
  <1>6. \A bytes \in Prefixes(Part) : Payload(bytes)
    BY <1>4, <1>5, PrefixIsPayload
  <1> QED
    BY <1>2, <1>3, <1>6, TpkgAssumption

\* A part is written.
LEMMA StreamOutStep ==
  ASSUME IInv, StreamOut
  PROVE  IInv'
  <1>1. PICK bytes \in Prefixes(Part) :
          /\ dir' = With(dir, job.done, bytes)
          /\ job' = [job EXCEPT !.done = @ + 1, !.exact = @ /\ bytes = Part]
    BY DEF StreamOut
  <1>2. /\ pc = "parts" /\ job.done <= Len(job.slots)
        /\ UNCHANGED <<json, pc, output, calls, whole>>
    BY DEF StreamOut
  <1>3. /\ Payload(bytes) /\ Len(job.slots) \in 1 .. MaxSlots /\ job.done \in 0 .. MaxSlots
        /\ job.slots # <<>>
    BY <1>2, StreamedIsPayload
  <1>4. DOMAIN dir' = DOMAIN dir \cup {job.done}
    BY <1>1, Zenon DEF With
  <1>5. PartsOfPayload'
    BY <1>1, <1>3, PayloadPut DEF IInv
  <1>6. /\ job'.binary = job.binary /\ job'.slots = job.slots /\ job'.done = job.done + 1
        /\ JobIsRecord'
    <2> DEFINE ex == job.exact /\ bytes = Part
    <2>1. job' = [binary |-> job.binary, table |-> job.table, slots |-> job.slots,
                  done |-> job.done + 1, exact |-> ex]
      BY <1>1 DEF IInv, JobIsRecord
    <2> HIDE DEF ex
    <2> QED
      BY <2>1 DEF JobIsRecord
  <1>7. whole = Nothing /\ Readable(job.binary) /\ 0 .. job.done - 1 \subseteq DOMAIN dir
    BY <1>2 DEF IInv, JobChecked
  <1>8. job'.done \in 0 .. Len(job.slots) + 1 /\ job' # NoJob
    BY <1>2, <1>3, <1>6, TpkgAssumption DEF NoJob
  <1>9. TypeOK'
    BY <1>2, <1>3, <1>4, <1>6, <1>7, <1>8 DEF IInv, TypeOK, Parsed
  <1>10. 0 .. job'.done - 1 \subseteq DOMAIN dir'
    BY <1>3, <1>4, <1>6, <1>7
  <1>11. JobChecked'
    BY <1>2, <1>6, <1>7, <1>10 DEF IInv, JobChecked, Readable
  <1> QED
    BY <1>2, <1>5, <1>6, <1>9, <1>11 DEF IInv, JsonIsSeq

\* A part cannot be written.
LEMMA StreamOutFailsStep ==
  ASSUME IInv, StreamOutFails
  PROVE  IInv'
  <1>1. /\ pc = "parts" /\ job.done <= Len(job.slots) /\ pc' = "idle" /\ job' = NoJob
        /\ UNCHANGED <<json, whole, output, calls>>
    BY DEF StreamOutFails, Stop
  <1>2. /\ \A bytes \in Prefixes(Part) : Payload(bytes)
        /\ job.done \in 0 .. MaxSlots
    BY <1>1, StreamedIsPayload
  <1>3. whole = Nothing
    BY <1>1 DEF IInv, JobChecked
  <1>4. DOMAIN dir' \subseteq DOMAIN dir \cup {job.done} /\ PartsOfPayload'
    <2>1. CASE dir' = dir
      BY <2>1 DEF IInv, PartsOfPayload
    <2>2. CASE dir' = Without(dir, job.done)
      <3>1. DOMAIN dir' = DOMAIN dir \ {job.done} /\ \A p \in DOMAIN dir' : dir'[p] = dir[p]
        BY <2>2, Zenon DEF Without
      <3> QED
        BY <3>1 DEF IInv, PartsOfPayload
    <2>3. ASSUME NEW bytes \in Prefixes(Part), dir' = With(dir, job.done, bytes)
          PROVE  DOMAIN dir' \subseteq DOMAIN dir \cup {job.done} /\ PartsOfPayload'
      <3>1. DOMAIN dir' = DOMAIN dir \cup {job.done}
        BY <2>3, Zenon DEF With
      <3>2. PartsOfPayload'
        BY <1>2, <2>3, PayloadPut DEF IInv
      <3> QED
        BY <3>1, <3>2
    <2> QED
      BY <2>1, <2>2, <2>3 DEF StreamOutFails
  <1>5. /\ NoJob.done = 0 /\ NoJob.slots = <<>> /\ Len(<<>>) = 0 /\ JobIsRecord'
    BY <1>1 DEF NoJob, JobIsRecord
  <1>6. TypeOK'
    BY <1>1, <1>2, <1>3, <1>4, <1>5 DEF IInv, TypeOK, Parsed
  <1> QED
    BY <1>1, <1>4, <1>5, <1>6 DEF IInv, JsonIsSeq, JobChecked

\* The manifest that unbundle writes.
LEMMA ManifestIs ==
  ASSUME NEW b, Readable(b)
  PROVE  LET m == Manifest(Records(File[b]))
         IN  /\ m # NoFile /\ m # Damaged /\ \E S : m \in Seq(S) /\ Named(S)
             /\ Len(m) = Len(Records(File[b])) /\ Len(m) \in 1 .. MaxSlots
             /\ \A i \in DOMAIN m : m[i].file \in 0 .. Outside
  <1> DEFINE slots == Records(File[b])
             Entry(i) == [file |-> i, format |-> slots[i].format, mount |-> slots[i].mount]
             m == Manifest(slots)
  <1>1. /\ Len(slots) \in 1 .. MaxSlots /\ Len(slots) \in Nat /\ DOMAIN slots = 1 .. Len(slots)
    BY RecordsRead, TpkgAssumption
  <1>2. m = [i \in 1 .. Len(slots) |-> Entry(i)]
    BY <1>1 DEF Manifest
  <1>3. \A i \in 1 .. Len(slots) : Entry(i).file = i /\ "file" \in DOMAIN Entry(i)
    OBVIOUS
  <1> HIDE DEF slots, Entry, m
  <1>4. /\ m \in Seq({Entry(i) : i \in 1 .. Len(slots)}) /\ Len(m) = Len(slots)
        /\ DOMAIN m = 1 .. Len(slots)
        /\ \A i \in 1 .. Len(slots) : m[i] = Entry(i)
    BY <1>1, <1>2
  <1>5. \A i \in DOMAIN m : m[i].file = i /\ i \in 1 .. MaxSlots /\ i \in 0 .. Outside
    BY <1>1, <1>3, <1>4, TpkgAssumption DEF Outside
  <1>6. m # NoFile /\ Named({Entry(i) : i \in 1 .. Len(slots)})
    BY <1>1, <1>3, <1>4 DEF NoFile, Named
  <1>7. m # Damaged
    <2>1. m[1].file = 1
      BY <1>1, <1>4, <1>5, TpkgAssumption
    <2>2. Damaged[1].file = Outside + 1
      BY DEF Damaged
    <2> QED
      BY <2>1, <2>2, TpkgAssumption DEF Outside
  <1> QED
    BY <1>1, <1>4, <1>5, <1>6, <1>7 DEF m, slots

\* unbundle ends.
LEMMA WriteManifestStep ==
  ASSUME IInv, WriteManifest
  PROVE  IInv'
  <1>1. /\ pc = "parts" /\ job.done > Len(job.slots) /\ pc' = "idle" /\ job' = NoJob
        /\ UNCHANGED <<dir, output, calls>>
    BY DEF WriteManifest, Stop
  <1>2. /\ Readable(job.binary) /\ job.slots = Records(File[job.binary])
        /\ 0 .. job.done - 1 \subseteq DOMAIN dir /\ whole = Nothing
    BY <1>1 DEF IInv, JobChecked
  <1>3. /\ NoJob.done = 0 /\ NoJob.slots = <<>> /\ Len(<<>>) = 0 /\ JobIsRecord'
    BY <1>1 DEF NoJob, JobIsRecord
  <1>4. Len(job.slots) \in Nat /\ job.done = Len(job.slots) + 1
    BY <1>1, <1>2, RecordsRead, TpkgAssumption DEF IInv, TypeOK
  <1>5. PartsOfPayload' /\ JobChecked'
    BY <1>1 DEF IInv, PartsOfPayload, JobChecked
  <1>6. TypeOK' /\ JsonIsSeq'
    <2>1. CASE /\ json' = Manifest(job.slots)
               /\ whole' = IF job.exact THEN job.binary ELSE Nothing
      <3>1. /\ json' # NoFile /\ json' # Damaged /\ JsonIsSeq'
            /\ Len(json') = Len(job.slots) /\ Len(json') <= MaxSlots
            /\ \A i \in DOMAIN json' : json'[i].file \in 0 .. Outside
        <4> DEFINE m == Manifest(Records(File[job.binary]))
        <4>1. /\ m # NoFile /\ m # Damaged /\ \E S : m \in Seq(S) /\ Named(S)
              /\ Len(m) = Len(Records(File[job.binary])) /\ Len(m) \in 1 .. MaxSlots
              /\ \A i \in DOMAIN m : m[i].file \in 0 .. Outside
          BY <1>2, ManifestIs
        <4>2. json' = m
          BY <1>2, <2>1
        <4> HIDE DEF m
        <4>3. Len(json') <= MaxSlots
          BY <4>1, <4>2, TpkgAssumption
        <4>4. JsonIsSeq'
          BY <4>1, <4>2 DEF JsonIsSeq
        <4> QED
          BY <1>2, <4>1, <4>2, <4>3, <4>4
      <3>2. 0 .. Len(json') \subseteq DOMAIN dir
        BY <1>2, <1>4, <3>1
      <3>3. whole' # Nothing => whole' \in Binaries
        BY <1>2, <2>1 DEF Readable
      <3> QED
        BY <1>1, <1>3, <3>1, <3>2, <3>3 DEF IInv, TypeOK, Parsed
    <2>2. CASE json' = Damaged /\ whole' = Nothing
      <3> DEFINE entry == [file |-> Outside + 1, format |-> 0, mount |-> Unset]
      <3>1. "file" \in DOMAIN entry /\ Damaged = <<entry>>
        BY DEF Damaged
      <3> HIDE DEF entry
      <3>2. Damaged \in Seq({entry}) /\ Named({entry})
        BY <3>1 DEF Named
      <3>3. JsonIsSeq'
        BY <2>2, <3>2 DEF JsonIsSeq
      <3> QED
        BY <1>1, <1>3, <2>2, <3>3 DEF IInv, TypeOK, Parsed
    <2>3. CASE UNCHANGED <<json, whole>>
      BY <1>1, <1>2, <1>3, <2>3 DEF IInv, TypeOK, Parsed, JsonIsSeq
    <2> QED
      BY <2>1, <2>2, <2>3 DEF WriteManifest
  <1> QED
    BY <1>3, <1>5, <1>6 DEF IInv

-----------------------------------------------------------------------------
(* The user.                                                               *)

\* An edit of manifest.json that leaves a sequence of entries that name parts.
LEMMA JsonEdited ==
  ASSUME IInv, UserEdits, UNCHANGED <<dir, pc, job, output>>, JsonIsSeq',
         Parsed' => /\ Len(json') <= MaxSlots
                    /\ \A i \in DOMAIN json' : json'[i].file \in 0 .. Outside
  PROVE  IInv'
  <1>1. pc = "idle" /\ whole' = Nothing /\ calls' \in 0 .. MaxCalls
    BY PartsAssumption DEF UserEdits, IInv, TypeOK
  <1>2. TypeOK'
    BY <1>1 DEF IInv, TypeOK
  <1> QED
    BY <1>1, <1>2 DEF IInv, PartsOfPayload, JobChecked, JobIsRecord

\* A part is replaced.
LEMMA SwapPartStep ==
  ASSUME IInv, NEW part, NEW bytes \in Swaps, SwapPart(part, bytes)
  PROVE  IInv'
  <1>1. /\ pc = "idle" /\ whole' = Nothing /\ calls' \in 0 .. MaxCalls
        /\ part \in DOMAIN dir /\ dir' = With(dir, part, bytes)
        /\ UNCHANGED <<json, pc, job, output>>
    BY PartsAssumption DEF SwapPart, UserEdits, IInv, TypeOK
  <1>2. DOMAIN dir' = DOMAIN dir
    BY <1>1, Zenon DEF With
  <1>3. PartsOfPayload'
    BY <1>1, FileAssumption, PayloadPut DEF IInv
  <1>4. TypeOK'
    BY <1>1, <1>2 DEF IInv, TypeOK, Parsed
  <1> QED
    BY <1>1, <1>3, <1>4 DEF IInv, JsonIsSeq, JobChecked, JobIsRecord

\* A mount point is changed.
LEMMA EditMountStep ==
  ASSUME IInv, NEW i, NEW mount, EditMount(i, mount)
  PROVE  IInv'
  <1>1. /\ Parsed /\ i \in DOMAIN json /\ json' = [json EXCEPT ![i].mount = mount]
        /\ UserEdits /\ UNCHANGED <<dir, pc, job, output>>
    BY DEF EditMount
  <1>2. PICK S : json \in Seq(S) /\ Named(S)
    BY DEF IInv, JsonIsSeq
  <1> DEFINE e == [json[i] EXCEPT !.mount = mount]
  <1>3. e.file = json[i].file /\ "file" \in DOMAIN e
    <2>1. json[i] \in S
      BY <1>1, <1>2
    <2>2. "file" \in DOMAIN json[i]
      BY <1>2, <2>1 DEF Named
    <2> QED
      BY <2>2
  <1>4. json' = [json EXCEPT ![i] = e]
    BY <1>1
  <1> HIDE DEF e
  <1>5. /\ json' \in Seq(S \cup {e}) /\ Len(json') = Len(json) /\ DOMAIN json' = DOMAIN json
        /\ \A k \in DOMAIN json : json'[k] = IF k = i THEN e ELSE json[k]
    BY <1>1, <1>2, <1>4
  <1>6. Named(S \cup {e})
    BY <1>2, <1>3 DEF Named
  <1>7. /\ Len(json) <= MaxSlots /\ \A k \in DOMAIN json : json[k].file \in 0 .. Outside
    BY <1>1 DEF IInv, TypeOK
  <1>8. \A k \in DOMAIN json' : json'[k].file \in 0 .. Outside
    BY <1>1, <1>3, <1>5, <1>7
  <1> QED
    BY <1>1, <1>5, <1>6, <1>7, <1>8, JsonEdited DEF JsonIsSeq

\* An entry is made to name another part.
LEMMA EditFileStep ==
  ASSUME IInv, NEW i, NEW part \in 0 .. Outside, EditFile(i, part)
  PROVE  IInv'
  <1>1. /\ Parsed /\ i \in DOMAIN json /\ json' = [json EXCEPT ![i].file = part]
        /\ UserEdits /\ UNCHANGED <<dir, pc, job, output>>
    BY DEF EditFile
  <1>2. PICK S : json \in Seq(S) /\ Named(S)
    BY DEF IInv, JsonIsSeq
  <1> DEFINE e == [json[i] EXCEPT !.file = part]
  <1>3. json' = [json EXCEPT ![i] = e]
    BY <1>1
  <1>4. e.file \in 0 .. Outside /\ "file" \in DOMAIN e
    <2>1. json[i] \in S
      BY <1>1, <1>2
    <2>2. "file" \in DOMAIN json[i]
      BY <1>2, <2>1 DEF Named
    <2> QED
      BY <2>2
  <1> HIDE DEF e
  <1>5. /\ json' \in Seq(S \cup {e}) /\ Len(json') = Len(json) /\ DOMAIN json' = DOMAIN json
        /\ \A k \in DOMAIN json : json'[k] = IF k = i THEN e ELSE json[k]
    BY <1>1, <1>2, <1>3
  <1>6. Named(S \cup {e})
    BY <1>2, <1>4 DEF Named
  <1>7. /\ Len(json) <= MaxSlots /\ \A k \in DOMAIN json : json[k].file \in 0 .. Outside
    BY <1>1 DEF IInv, TypeOK
  <1>8. \A k \in DOMAIN json' : json'[k].file \in 0 .. Outside
    BY <1>1, <1>4, <1>5, <1>7
  <1> QED
    BY <1>1, <1>5, <1>6, <1>7, <1>8, JsonEdited DEF JsonIsSeq

\* An entry is removed.
LEMMA RemoveSlotStep ==
  ASSUME IInv, NEW i, RemoveSlot(i)
  PROVE  IInv'
  <1>1. /\ Parsed /\ i \in DOMAIN json /\ json' = RemoveAt(json, i)
        /\ UserEdits /\ UNCHANGED <<dir, pc, job, output>>
    BY DEF RemoveSlot
  <1>2. PICK S : json \in Seq(S) /\ Named(S)
    BY DEF IInv, JsonIsSeq
  <1> DEFINE n == Len(json)
             head == SubSeq(json, 1, i - 1)
             rest == SubSeq(json, i + 1, n)
  <1>3. n \in Nat /\ i \in 1 .. n /\ DOMAIN json = 1 .. n
    BY <1>1, <1>2
  <1>4. n \in Int /\ i \in Int /\ 1 <= i /\ i <= n
    BY <1>3
  <1>5. /\ head \in Seq(S) /\ Len(head) = i - 1 /\ \A k \in 1 .. i - 1 : head[k] = json[k]
    <2>1. \A k \in 1 .. i - 1 : json[k] \in S
      BY <1>2, <1>4, ElementOfSeq
    <2> QED
      BY <1>2, <1>4, <2>1
  <1>6. /\ rest \in Seq(S) /\ Len(rest) = n - i /\ \A k \in 1 .. n - i : rest[k] = json[i + k]
    BY <1>2, <1>4
  <1> HIDE DEF n, head, rest
  <1>7. json' = head \o rest
    BY <1>1 DEF RemoveAt, n, head, rest
  <1>8. /\ json' \in Seq(S) /\ Len(json') = Len(head) + Len(rest)
         /\ \A k \in 1 .. Len(head) + Len(rest) :
              json'[k] = IF k <= Len(head) THEN head[k] ELSE rest[k - Len(head)]
    BY <1>5, <1>6, <1>7, ConcatProperties
  <1>9. Len(head) + Len(rest) = n - 1 /\ DOMAIN json' = 1 .. n - 1 /\ Len(json') = n - 1
    BY <1>4, <1>5, <1>6, <1>8
  <1>10. /\ n <= MaxSlots /\ \A k \in 1 .. n : json[k].file \in 0 .. Outside
    BY <1>1, <1>3 DEF IInv, TypeOK, n
  <1>11. Len(json') <= MaxSlots
    BY <1>4, <1>10, <1>9, TpkgAssumption
  <1>12. ASSUME NEW k \in DOMAIN json'
        PROVE  json'[k].file \in 0 .. Outside
    <2>1. k \in 1 .. n - 1 /\ k \in 1 .. Len(head) + Len(rest)
      BY <1>9
    <2>2. CASE k <= i - 1
      <3>1. k \in 1 .. i - 1 /\ k \in 1 .. n
        BY <1>4, <2>1, <2>2
      <3>2. json'[k] = head[k] /\ head[k] = json[k]
        BY <1>5, <1>8, <2>1, <2>2, <3>1
      <3> QED
        BY <1>10, <3>1, <3>2
    <2>3. CASE ~(k <= i - 1)
      <3> DEFINE j == k - (i - 1)
      <3>1. j \in 1 .. n - i /\ i + j = k + 1 /\ k + 1 \in 1 .. n
        BY <1>4, <2>1, <2>3
      <3>2. json'[k] = rest[j]
        BY <1>5, <1>8, <2>1, <2>3
      <3> HIDE DEF j
      <3>3. rest[j] = json[k + 1]
        BY <1>6, <3>1
      <3> QED
        BY <1>10, <3>1, <3>2, <3>3
    <2> QED
      BY <2>2, <2>3
  <1> QED
    BY <1>1, <1>2, <1>8, <1>11, <1>12, JsonEdited DEF JsonIsSeq

\* reassemble changes the output only.
LEMMA OutputStep ==
  ASSUME IInv, UNCHANGED <<dir, json, pc, job, calls, whole>>
  PROVE  IInv'
  BY DEF IInv, TypeOK, Parsed, PartsOfPayload, JsonIsSeq, JobChecked, JobIsRecord

\* Every step keeps the invariant.
LEMMA Inductive == IInv /\ [Next]_vars => IInv'
  <1> SUFFICES ASSUME IInv, [Next]_vars PROVE IInv'
    OBVIOUS
  <1>1. ASSUME NEW b \in Binaries, BeginUnbundle(b) PROVE IInv'
    BY <1>1, BeginStep
  <1>2. CASE StreamOut
    BY <1>2, StreamOutStep
  <1>3. CASE StreamOutFails
    BY <1>3, StreamOutFailsStep
  <1>4. CASE WriteManifest
    BY <1>4, WriteManifestStep
  <1>5. ASSUME NEW part \in 0 .. MaxSlots, NEW bytes \in Swaps, SwapPart(part, bytes) PROVE IInv'
    BY <1>5, SwapPartStep
  <1>6. ASSUME NEW i \in 1 .. MaxSlots, NEW mount \in Edits, EditMount(i, mount) PROVE IInv'
    BY <1>6, EditMountStep
  <1>7. ASSUME NEW i \in 1 .. MaxSlots, NEW part \in 0 .. Outside, EditFile(i, part) PROVE IInv'
    BY <1>7, EditFileStep
  <1>8. ASSUME NEW i \in 1 .. MaxSlots, RemoveSlot(i) PROVE IInv'
    BY <1>8, RemoveSlotStep
  <1>9. CASE Reassemble \/ ReassembleFails
    BY <1>9, OutputStep DEF Reassemble, ReassembleFails
  <1>10. CASE UNCHANGED vars
    BY <1>10, OutputStep DEF vars
  <1> QED
    BY <1>1, <1>2, <1>3, <1>4, <1>5, <1>6, <1>7, <1>8, <1>9, <1>10 DEF Next

\* So it always holds.
LEMMA Always == Spec => []IInv
  BY Start, Inductive, PTL DEF Spec

-----------------------------------------------------------------------------
(* The copies: what the part files hold while an unbundle goes well, and   *)
(* what a directory that counts as whole holds.                            *)

\* Every byte there is.
Stuff ==
  UNION ({{File[b][k] : k \in DOMAIN File[b]} : b \in Binaries}
         \cup {{bytes[k] : k \in DOMAIN bytes} : bytes \in Swaps})

\* The parts in the directory are files.
DirOfFiles == \A part \in DOMAIN dir : dir[part] \in Seq(Stuff)

\* An unbundle that has gone well so far has written what the package says.
JobExact ==
  pc = "parts" /\ job.exact =>
    \A part \in 0 .. job.done - 1 : dir[part] = BytesOf(File[job.binary], job.slots, part)

\* A directory that counts as whole holds the parts of that package, and the
\* manifest that unbundle wrote.
WholeHolds ==
  whole # Nothing =>
    /\ Readable(whole)
    /\ InRange(Records(File[whole]), Header(File[whole]).table)
    /\ json = Manifest(Records(File[whole]))
    /\ \A part \in 0 .. Len(Records(File[whole])) :
         dir[part] = BytesOf(File[whole], Records(File[whole]), part)

CInv == IInv /\ DirOfFiles /\ JobExact /\ WholeHolds

\* It holds at the start, and every action keeps it.
LEMMA CopiesStart == Init => CInv
  <1> SUFFICES ASSUME Init PROVE CInv
    OBVIOUS
  <1>1. DOMAIN dir = {}
    BY DEF Init
  <1>2. pc = "idle" /\ whole = Nothing
    BY DEF Init
  <1> QED
    BY <1>1, <1>2, Start DEF CInv, DirOfFiles, JobExact, WholeHolds

\* Putting a file in a part's place changes that part alone.
LEMMA FilePut ==
  ASSUME DirOfFiles, NEW part, NEW bytes \in Seq(Stuff), dir' = With(dir, part, bytes)
  PROVE  /\ DirOfFiles' /\ dir'[part] = bytes
         /\ \A p \in DOMAIN dir : p # part => dir'[p] = dir[p]
  <1>1. /\ DOMAIN dir' = DOMAIN dir \cup {part} /\ dir'[part] = bytes
        /\ \A y \in DOMAIN dir : y # part => dir'[y] = dir[y]
    BY Zenon DEF With
  <1>2. ASSUME NEW p \in DOMAIN dir' PROVE dir'[p] \in Seq(Stuff)
    BY <1>1 DEF DirOfFiles
  <1>3. DirOfFiles'
    BY <1>2 DEF DirOfFiles, Stuff
  <1> QED
    BY <1>1, <1>3

\* What is cut short is a sequence as well.
LEMMA PrefixIsSeq ==
  ASSUME NEW S, NEW s \in Seq(S), NEW bytes \in Prefixes(s)
  PROVE  bytes \in Seq(S)
  <1>1. PICK l \in 0 .. Len(s) : bytes = SubSeq(s, 1, l)
    BY DEF Prefixes
  <1>2. l \in Nat /\ l <= Len(s) /\ Len(s) \in Nat
    BY <1>1
  <1> QED
    BY <1>1, <1>2

\* What unbundle writes is bytes of the package.
LEMMA StreamedIsFile ==
  ASSUME IInv, pc = "parts", job.done <= Len(job.slots)
  PROVE  \A bytes \in Prefixes(Part) : bytes \in Seq(Stuff)
  <1>1. /\ Readable(job.binary) /\ job.slots = Records(File[job.binary])
        /\ InRange(job.slots, Header(File[job.binary]).table)
    BY DEF IInv, JobChecked
  <1>2. Len(job.slots) \in 1 .. MaxSlots
    BY <1>1, RecordsRead
  <1>3. job.done \in 0 .. Len(job.slots)
    BY <1>2, TpkgAssumption DEF IInv, TypeOK
  <1> DEFINE Own == {File[job.binary][k] : k \in DOMAIN File[job.binary]}
  <1>4. Part \in Seq(Own)
    BY <1>1, <1>3, PartIsPayload DEF Part
  <1>5. Own \subseteq Stuff
    BY <1>1 DEF Stuff, Readable
  <1> HIDE DEF Own
  <1>6. Part \in Seq(Stuff)
    BY <1>4, <1>5, Widen
  <1> QED
    BY <1>6, PrefixIsSeq

\* unbundle begins: no part is written, and none counts.
LEMMA CopiesBegin ==
  ASSUME CInv, NEW b \in Binaries, BeginUnbundle(b)
  PROVE  CInv'
  <1>1. job'.done = 0 /\ whole' = Nothing /\ dir' = dir
    BY DEF BeginUnbundle
  <1>2. DirOfFiles'
    BY <1>1 DEF CInv, DirOfFiles, Stuff
  <1>3. JobExact'
    BY <1>1 DEF JobExact
  <1> QED
    BY <1>1, <1>2, <1>3, BeginStep DEF CInv, WholeHolds

\* A part is written, whole or cut short.
LEMMA CopiesStreamOut ==
  ASSUME CInv, StreamOut
  PROVE  CInv'
  <1>1. PICK bytes \in Prefixes(Part) :
          /\ dir' = With(dir, job.done, bytes)
          /\ job' = [job EXCEPT !.done = @ + 1, !.exact = @ /\ bytes = Part]
    BY DEF StreamOut
  <1>2. /\ pc = "parts" /\ job.done <= Len(job.slots)
        /\ UNCHANGED <<json, pc, output, calls, whole>>
    BY DEF StreamOut
  <1>3. whole = Nothing /\ 0 .. job.done - 1 \subseteq DOMAIN dir
    BY <1>2 DEF CInv, IInv, JobChecked
  <1>4. job.done \in 0 .. MaxSlots
    BY <1>2, StreamedIsPayload DEF CInv
  <1>5. bytes \in Seq(Stuff)
    BY <1>2, StreamedIsFile DEF CInv
  <1>6. /\ DirOfFiles' /\ dir'[job.done] = bytes
        /\ \A p \in DOMAIN dir : p # job.done => dir'[p] = dir[p]
    BY <1>1, <1>5, FilePut DEF CInv
  <1>7. /\ job'.binary = job.binary /\ job'.slots = job.slots /\ job'.done = job.done + 1
        /\ job'.exact => job.exact /\ bytes = Part
    <2> DEFINE ex == job.exact /\ bytes = Part
    <2>1. job' = [binary |-> job.binary, table |-> job.table, slots |-> job.slots,
                  done |-> job.done + 1, exact |-> ex]
      BY <1>1 DEF CInv, IInv, JobIsRecord
    <2>2. job'.exact = ex
      <3> HIDE DEF ex
      <3> QED
        BY <2>1
    <2> QED
      BY <2>1, <2>2
  <1>8. JobExact'
    <2> SUFFICES ASSUME job'.exact, NEW part \in 0 .. job'.done - 1
                 PROVE  dir'[part] = BytesOf(File[job.binary], job.slots, part)
      BY <1>7 DEF JobExact
    <2>1. part \in 0 .. job.done
      BY <1>4, <1>7
    <2>2. CASE part = job.done
      BY <1>6, <1>7, <2>2 DEF Part
    <2>3. CASE part # job.done
      <3>1. part \in 0 .. job.done - 1
        BY <1>4, <2>1, <2>3
      <3>2. dir'[part] = dir[part]
        BY <1>3, <1>6, <2>3, <3>1
      <3> QED
        BY <1>2, <1>7, <3>1, <3>2 DEF CInv, JobExact
    <2> QED
      BY <2>2, <2>3
  <1> QED
    BY <1>2, <1>3, <1>6, <1>8, StreamOutStep DEF CInv, WholeHolds

\* A part cannot be written: the directory is not whole.
LEMMA CopiesStreamOutFails ==
  ASSUME CInv, StreamOutFails
  PROVE  CInv'
  <1>1. /\ pc = "parts" /\ job.done <= Len(job.slots) /\ pc' = "idle" /\ whole' = whole
    BY DEF StreamOutFails, Stop
  <1>2. whole = Nothing
    BY <1>1 DEF CInv, IInv, JobChecked
  <1>3. DirOfFiles'
    <2>1. CASE dir' = dir
      BY <2>1 DEF CInv, DirOfFiles, Stuff
    <2>2. CASE dir' = Without(dir, job.done)
      <3>1. DOMAIN dir' = DOMAIN dir \ {job.done} /\ \A p \in DOMAIN dir' : dir'[p] = dir[p]
        BY <2>2, Zenon DEF Without
      <3> QED
        BY <3>1 DEF CInv, DirOfFiles, Stuff
    <2>3. ASSUME NEW bytes \in Prefixes(Part), dir' = With(dir, job.done, bytes)
          PROVE  DirOfFiles'
      <3>1. bytes \in Seq(Stuff)
        BY <1>1, StreamedIsFile DEF CInv
      <3> QED
        BY <2>3, <3>1, FilePut DEF CInv
    <2> QED
      BY <2>1, <2>2, <2>3 DEF StreamOutFails
  <1> QED
    BY <1>1, <1>2, <1>3, StreamOutFailsStep DEF CInv, JobExact, WholeHolds

\* unbundle ends: the directory is whole if every part was written whole.
LEMMA CopiesWriteManifest ==
  ASSUME CInv, WriteManifest
  PROVE  CInv'
  <1>1. /\ pc = "parts" /\ job.done > Len(job.slots) /\ pc' = "idle" /\ dir' = dir
    BY DEF WriteManifest, Stop
  <1>2. /\ Readable(job.binary) /\ job.slots = Records(File[job.binary])
        /\ InRange(job.slots, Header(File[job.binary]).table) /\ whole = Nothing
    BY <1>1 DEF CInv, IInv, JobChecked
  <1>3. Len(job.slots) \in Nat /\ job.done = Len(job.slots) + 1
    BY <1>1, <1>2, RecordsRead, TpkgAssumption DEF CInv, IInv, TypeOK
  <1>4. DirOfFiles'
    BY <1>1 DEF CInv, DirOfFiles, Stuff
  <1>5. WholeHolds'
    <2>1. CASE job.exact /\ json' = Manifest(job.slots) /\ whole' = job.binary
      <3>1. 0 .. Len(job.slots) = 0 .. job.done - 1
        BY <1>3
      <3>2. \A part \in 0 .. Len(job.slots) :
              dir[part] = BytesOf(File[job.binary], job.slots, part)
        BY <1>1, <2>1, <3>1 DEF CInv, JobExact
      <3> QED
        BY <1>1, <1>2, <2>1, <3>2 DEF WholeHolds, Readable
    <2>2. CASE whole' = Nothing
      BY <2>2 DEF WholeHolds
    <2> QED
      BY <1>2, <2>1, <2>2 DEF WriteManifest
  <1> QED
    BY <1>1, <1>4, <1>5, WriteManifestStep DEF CInv, JobExact

\* A part is replaced.
LEMMA CopiesSwapPart ==
  ASSUME CInv, NEW part, NEW bytes \in Swaps, SwapPart(part, bytes)
  PROVE  CInv'
  <1>1. pc' = "idle" /\ whole' = Nothing /\ dir' = With(dir, part, bytes)
    BY DEF SwapPart, UserEdits
  <1> DEFINE Own == {bytes[k] : k \in DOMAIN bytes}
  <1>2. bytes \in Seq(Own) /\ Own \subseteq Stuff
    <2>1. bytes \in Seq(Own)
      BY FileAssumption
    <2>2. Own \subseteq Stuff
      BY DEF Stuff
    <2> QED
      BY <2>1, <2>2
  <1> HIDE DEF Own
  <1>3. bytes \in Seq(Stuff)
    BY <1>2, Widen
  <1>4. DirOfFiles'
    BY <1>1, <1>3, FilePut DEF CInv
  <1> QED
    BY <1>1, <1>4, SwapPartStep DEF CInv, JobExact, WholeHolds

\* The user edits manifest.json.
LEMMA CopiesEdited ==
  ASSUME CInv, IInv', UserEdits, UNCHANGED <<dir, pc, job, output>>
  PROVE  CInv'
  BY DEF CInv, DirOfFiles, JobExact, WholeHolds, UserEdits, Stuff

\* reassemble changes the output only.
LEMMA CopiesOutput ==
  ASSUME CInv, UNCHANGED <<dir, json, pc, job, calls, whole>>
  PROVE  CInv'
  <1>1. DirOfFiles'
    BY DEF CInv, DirOfFiles, Stuff
  <1>2. JobExact'
    BY DEF CInv, JobExact
  <1>3. WholeHolds'
    BY DEF CInv, WholeHolds, Readable
  <1> QED
    BY <1>1, <1>2, <1>3, OutputStep DEF CInv

\* Every step keeps the copies.
LEMMA CopiesInductive == CInv /\ [Next]_vars => CInv'
  <1> SUFFICES ASSUME CInv, [Next]_vars PROVE CInv'
    OBVIOUS
  <1>0. IInv
    BY DEF CInv
  <1>1. ASSUME NEW b \in Binaries, BeginUnbundle(b) PROVE CInv'
    BY <1>1, CopiesBegin
  <1>2. CASE StreamOut
    BY <1>2, CopiesStreamOut
  <1>3. CASE StreamOutFails
    BY <1>3, CopiesStreamOutFails
  <1>4. CASE WriteManifest
    BY <1>4, CopiesWriteManifest
  <1>5. ASSUME NEW part \in 0 .. MaxSlots, NEW bytes \in Swaps, SwapPart(part, bytes) PROVE CInv'
    BY <1>5, CopiesSwapPart
  <1>6. ASSUME NEW i \in 1 .. MaxSlots, NEW mount \in Edits, EditMount(i, mount) PROVE CInv'
    BY <1>0, <1>6, EditMountStep, CopiesEdited DEF EditMount
  <1>7. ASSUME NEW i \in 1 .. MaxSlots, NEW part \in 0 .. Outside, EditFile(i, part) PROVE CInv'
    BY <1>0, <1>7, EditFileStep, CopiesEdited DEF EditFile
  <1>8. ASSUME NEW i \in 1 .. MaxSlots, RemoveSlot(i) PROVE CInv'
    BY <1>0, <1>8, RemoveSlotStep, CopiesEdited DEF RemoveSlot
  <1>9. CASE Reassemble \/ ReassembleFails
    BY <1>9, CopiesOutput DEF Reassemble, ReassembleFails
  <1>10. CASE UNCHANGED vars
    BY <1>10, CopiesOutput DEF vars
  <1> QED
    BY <1>1, <1>2, <1>3, <1>4, <1>5, <1>6, <1>7, <1>8, <1>9, <1>10 DEF Next

\* So they are always kept.
LEMMA CopiesAlways == Spec => []CInv
  BY CopiesStart, CopiesInductive, PTL DEF Spec

-----------------------------------------------------------------------------
(* What reassemble writes.                                                 *)

\* The body that reassemble writes grows by one part at a time.
LEMMA PartsGrow ==
  ASSUME NEW S, NEW n \in Nat, NEW s \in [1 .. n -> Seq(S)], NEW u \in Seq(S)
  PROVE  Growing(S, u, s, n, [m \in 0 .. n |-> u \o FlattenSeq([i \in 1 .. m |-> s[i]])])
  <1> DEFINE F(m) == FlattenSeq([i \in 1 .. m |-> s[i]])
             G == [m \in 0 .. n |-> F(m)]
             U == [m \in 0 .. n |-> u \o F(m)]
  <1>1. F(0) = <<>>
    BY FlattenNone
  <1>2. \A m \in 1 .. n : F(m) = F(m - 1) \o s[m]
    BY FlattenGrows
  <1> HIDE DEF F
  <1>3. 0 \in 0 .. n /\ \A m \in 1 .. n : m \in 0 .. n /\ m - 1 \in 0 .. n
    OBVIOUS
  <1>4. Growing(S, <<>>, s, n, G)
    <2>1. G[0] = <<>> /\ <<>> \in Seq(S)
      BY <1>1, <1>3
    <2>2. \A m \in 1 .. n : G[m] = G[m - 1] \o s[m]
      BY <1>2, <1>3
    <2> HIDE DEF G
    <2> QED
      BY <2>1, <2>2 DEF Growing
  <1>5. \A m \in 0 .. n : F(m) \in Seq(S)
    <2>1. ASSUME NEW m \in 0 .. n PROVE F(m) \in Seq(S)
      <3>1. G[m] = F(m)
        OBVIOUS
      <3> HIDE DEF G
      <3>2. G[m] \in Seq(S)
        BY <1>4, GrowingSeq
      <3> QED
        BY <3>1, <3>2
    <2> QED
      BY <2>1
  <1> HIDE DEF G
  <1>6. U[0] = u
    BY <1>1, <1>3
  <1>7. ASSUME NEW m \in 1 .. n
        PROVE  U[m] = U[m - 1] \o s[m]
    <2>1. U[m] = u \o F(m) /\ U[m - 1] = u \o F(m - 1)
      BY <1>3
    <2>2. F(m) = F(m - 1) \o s[m] /\ F(m - 1) \in Seq(S) /\ s[m] \in Seq(S)
      BY <1>2, <1>3, <1>5
    <2> DEFINE p == F(m - 1)
               q == s[m]
    <2> HIDE DEF U, p, q
    <2>3. p \in Seq(S) /\ q \in Seq(S) /\ F(m) = p \o q /\ U[m] = u \o F(m) /\ U[m - 1] = u \o p
      BY <2>1, <2>2 DEF p, q
    <2>4. (u \o p) \o q = u \o (p \o q)
      <3>1. p \in Seq(S) /\ q \in Seq(S) /\ u \in Seq(S)
        BY <2>3
      <3> HIDE DEF F
      <3> QED
        <4>1. Associates(u, p, q)
          BY <3>1, ConcatsAssociate
        <4> QED
          BY <4>1 DEF Associates
    <2> QED
      BY <2>3, <2>4 DEF q
  <1>8. \A m \in 1 .. n : U[m] = U[m - 1] \o s[m]
    BY <1>7
  <1> HIDE DEF U
  <1>9. Growing(S, u, s, n, U)
    BY <1>6, <1>8 DEF Growing
  <1> QED
    BY <1>9 DEF U, F

\* What reassemble goes by.
Sources == [i \in 1 .. Len(json) |-> dir[json[i].file]]
Bodies == [m \in 0 .. Len(json) |-> Upto(m)]

\* The bodies that reassemble goes through, one part of the manifest at a time.
LEMMA SourcesGrow ==
  ASSUME CInv, CanReassemble
  PROVE  /\ Len(json) \in Nat /\ Len(json) >= 1 /\ DOMAIN json = 1 .. Len(json)
         /\ Growing(Stuff, dir[0], Sources, Len(json), Bodies)
  <1>1. PICK S : json \in Seq(S)
    BY DEF CInv, IInv, JsonIsSeq
  <1>2. Len(json) \in Nat /\ Len(json) >= 1 /\ DOMAIN json = 1 .. Len(json)
    BY <1>1, TpkgAssumption DEF CanReassemble
  <1>3. dir[0] \in Seq(Stuff) /\ \A i \in 1 .. Len(json) : dir[json[i].file] \in Seq(Stuff)
    BY <1>2 DEF CInv, DirOfFiles, CanReassemble
  <1> DEFINE n == Len(json)
             s == Sources
             u == dir[0]
             U == [m \in 0 .. n |-> u \o FlattenSeq([i \in 1 .. m |-> s[i]])]
  <1>4. s \in [1 .. n -> Seq(Stuff)] /\ \A i \in 1 .. n : s[i] = dir[json[i].file]
    BY <1>3 DEF Sources
  <1>5. Bodies = U
    <2>1. ASSUME NEW m \in 0 .. n
          PROVE  Upto(m) = u \o FlattenSeq([i \in 1 .. m |-> s[i]])
      <3> HIDE DEF s
      <3>1. \A i \in 1 .. m : s[i] = dir[json[i].file]
        BY <1>2, <1>4
      <3>2. [i \in 1 .. m |-> s[i]] = [i \in 1 .. m |-> dir[json[i].file]]
        BY <3>1
      <3> QED
        BY <3>2 DEF Upto
    <2> QED
      BY <2>1 DEF Bodies
  <1>6. u \in Seq(Stuff)
    BY <1>3
  <1> HIDE DEF s, u, U
  <1>7. n \in Nat
    BY <1>2
  <1> HIDE DEF n
  <1>8. Growing(Stuff, u, s, n, U)
    BY <1>4, <1>6, <1>7, PartsGrow DEF U
  <1> QED
    BY <1>2, <1>5, <1>8 DEF s, u, n

\* Where reassemble puts the parts, and what of them the reader finds there.
LEMMA ReassembledParts ==
  ASSUME CInv, CanReassemble, Validate(Version, NewSlots) = "OK"
  PROVE  /\ ReadError(Reassembled) = "OK"
         /\ Records(Reassembled) = NewSlots
         /\ BytesOf(Reassembled, NewSlots, 0) = dir[0]
         /\ \A i \in DOMAIN json : BytesOf(Reassembled, NewSlots, i) = dir[json[i].file]
  <1> DEFINE n == Len(json)
             out == Reassembled
  <1>1. /\ n \in Nat /\ n >= 1 /\ DOMAIN json = 1 .. n
        /\ Growing(Stuff, dir[0], Sources, n, Bodies)
    BY SourcesGrow
  <1>2. \A m \in 0 .. n : Bodies[m] = Upto(m)
    BY DEF Bodies
  <1>3. \A i \in 1 .. n : Sources[i] = dir[json[i].file]
    BY DEF Sources
  <1>4. Upto(n) \in Seq(Stuff)
    <2>1. n \in 0 .. n
      BY <1>1
    <2>2. Bodies[n] \in Seq(Stuff)
      BY <1>1, <2>1, GrowingSeq
    <2> QED
      BY <1>2, <2>1, <2>2
  <1>5. NewSlots \in Seq({NewSlots[i] : i \in 1 .. n})
    BY <1>1 DEF NewSlots
  <1>6. /\ ReadError(out) = "OK" /\ Records(out) = NewSlots
        /\ Len(Upto(n)) <= Len(out) /\ Len(out) \in Nat
        /\ \A a \in Nat \ {0}, b \in 0 .. Len(Upto(n)) : SubSeq(out, a, b) = SubSeq(Upto(n), a, b)
    <2> DEFINE body == Upto(n)
               w == Write(body, NewSlots)
               T == {NewSlots[i] : i \in 1 .. n}
    <2>1. out = w /\ body \in Seq(Stuff) /\ NewSlots \in Seq(T)
      BY <1>4, <1>5 DEF Reassembled
    <2> HIDE DEF body, out, T
    <2>2. /\ ReadError(w) = "OK" /\ Records(w) = NewSlots
          /\ Len(body) <= Len(w) /\ Len(w) \in Nat
          /\ \A a \in Nat \ {0}, b \in 0 .. Len(body) : SubSeq(w, a, b) = SubSeq(body, a, b)
      BY <2>1, WrittenIsRead
    <2> HIDE DEF w
    <2> QED
      BY <2>1, <2>2 DEF body
  <1> HIDE DEF out, n
  <1>7. BytesOf(out, NewSlots, 0) = dir[0]
    <2>1. NewSlots[1].offset = Len(Upto(0))
      BY <1>1 DEF NewSlots, Slot
    <2> DEFINE u == dir[0]
    <2>2. Upto(0) = u
      BY <1>1, <1>2 DEF Growing
    <2>3. u \in Seq(Stuff)
      BY <1>1 DEF Growing
    <2>4. Len(Bodies[0]) <= Len(Bodies[n]) /\ SubSeq(Bodies[n], 1, Len(u)) = u
      <3>1. Growing(Stuff, u, Sources, n, Bodies) /\ 0 \in 0 .. n
        BY <1>1
      <3> HIDE DEF u
      <3>2. Placed(u, Sources, n, Bodies, 0)
        BY <3>1, GrowingPieces
      <3> QED
        BY <3>2 DEF Placed
    <2>5. Len(u) \in Nat /\ Len(u) <= Len(Upto(n)) /\ SubSeq(Upto(n), 1, Len(u)) = u
      BY <1>1, <1>2, <2>2, <2>3, <2>4
    <2> HIDE DEF u
    <2>6. Lesser(0 + Len(u), Len(out)) = Len(u)
      <3>1. /\ Len(u) \in Nat /\ Len(u) <= Len(Upto(n)) /\ Len(Upto(n)) \in Nat
            /\ Len(Upto(n)) <= Len(out) /\ Len(out) \in Nat
        BY <1>4, <1>6, <2>5
      <3> QED
        BY <3>1 DEF Lesser
    <2>7. BytesOf(out, NewSlots, 0) = SubSeq(out, 1, Len(u))
      <3>1. NewSlots[1].offset = Len(u)
        BY <2>1, <2>2
      <3>2. BytesOf(out, NewSlots, 0) = Bytes(out, 0, Len(u))
        BY <3>1 DEF BytesOf
      <3>3. Bytes(out, 0, Len(u)) = SubSeq(out, 0 + 1, Len(u))
        BY <2>6 DEF Bytes
      <3>4. 0 + 1 = 1
        OBVIOUS
      <3> QED
        BY <3>2, <3>3, <3>4, Zenon
    <2>8. SubSeq(out, 1, Len(u)) = SubSeq(Upto(n), 1, Len(u))
      BY <1>4, <1>6, <2>5
    <2> QED
      BY <2>5, <2>7, <2>8 DEF u
  <1>8. ASSUME NEW i \in 1 .. n
        PROVE  BytesOf(out, NewSlots, i) = dir[json[i].file]
    <2> DEFINE q == dir[json[i].file]
               p == Upto(i - 1)
               r == Upto(i)
               body == Upto(n)
    <2>1. NewSlots[i].offset = Len(p) /\ NewSlots[i].size = Len(q)
      BY <1>1 DEF NewSlots, Slot
    <2>2. i \in 0 .. n /\ i - 1 \in 0 .. n /\ i # 0 /\ n \in 0 .. n
      BY <1>1
    <2>3. /\ Len(Bodies[i]) <= Len(Bodies[n]) /\ Len(Bodies[i]) = Len(Bodies[i - 1]) + Len(Sources[i])
          /\ SubSeq(Bodies[n], Len(Bodies[i - 1]) + 1, Len(Bodies[i])) = Sources[i]
      <3> DEFINE u == dir[0]
      <3>1. Growing(Stuff, u, Sources, n, Bodies)
        BY <1>1
      <3> HIDE DEF u
      <3>2. Placed(u, Sources, n, Bodies, i)
        BY <2>2, <3>1, GrowingPieces
      <3> QED
        BY <2>2, <3>2 DEF Placed
    <2>4. /\ Len(r) <= Len(body) /\ Len(r) = Len(p) + Len(q)
          /\ SubSeq(body, Len(p) + 1, Len(r)) = q
      BY <1>2, <1>3, <2>2, <2>3
    <2>5. p \in Seq(Stuff) /\ r \in Seq(Stuff)
      <3>1. Bodies[i] \in Seq(Stuff) /\ Bodies[i - 1] \in Seq(Stuff)
        BY <1>1, <2>2, GrowingSeq
      <3> QED
        BY <1>2, <2>2, <3>1
    <2>6. Len(p) \in Nat /\ Len(r) \in Nat
      BY <2>5, LenProperties
    <2>7. /\ Len(body) <= Len(out) /\ Len(body) \in Nat /\ Len(out) \in Nat
          /\ \A a \in Nat \ {0}, b \in 0 .. Len(body) : SubSeq(out, a, b) = SubSeq(body, a, b)
      BY <1>4, <1>6
    <2> HIDE DEF p, q, r, body
    <2>8. Lesser(Len(p) + Len(q), Len(out)) = Len(r)
      BY <2>4, <2>6, <2>7 DEF Lesser
    <2>9. BytesOf(out, NewSlots, i) = SubSeq(out, Len(p) + 1, Len(r))
      <3>1. BytesOf(out, NewSlots, i) = Bytes(out, Len(p), Len(q))
        BY <2>1, <2>2 DEF BytesOf
      <3> QED
        BY <2>8, <3>1 DEF Bytes
    <2>10. SubSeq(out, Len(p) + 1, Len(r)) = SubSeq(body, Len(p) + 1, Len(r))
      <3>1. Len(p) + 1 \in Nat \ {0} /\ Len(r) \in 0 .. Len(body)
        BY <2>4, <2>6, <2>7
      <3> QED
        BY <2>7, <3>1, Zenon
    <2> QED
      BY <2>4, <2>9, <2>10 DEF q
  <1> QED
    BY <1>1, <1>6, <1>7, <1>8 DEF out

\* So the readers see the parts of the directory, under the mount points of the
\* manifest.
LEMMA ReassembledContents ==
  ASSUME CInv, CanReassemble, Validate(Version, NewSlots) = "OK"
  PROVE  Contents(Reassembled) =
           [boot |-> dir[0],
            slots |-> [i \in DOMAIN json |->
                         [bytes |-> dir[json[i].file],
                          format |-> json[i].format,
                          mount |-> MountOf(i)]]]
  <1> DEFINE out == Reassembled
  <1>1. /\ Records(out) = NewSlots /\ BytesOf(out, NewSlots, 0) = dir[0]
        /\ \A i \in DOMAIN json : BytesOf(out, NewSlots, i) = dir[json[i].file]
    BY ReassembledParts
  <1> HIDE DEF out
  <1>2. /\ DOMAIN NewSlots = DOMAIN json
        /\ \A i \in DOMAIN json : NewSlots[i].format = json[i].format /\ NewSlots[i].mount = MountOf(i)
    BY DEF NewSlots, Slot
  <1>3. Contents(out) =
          [boot |-> BytesOf(out, NewSlots, 0),
           slots |-> [i \in DOMAIN NewSlots |->
                        [bytes |-> BytesOf(out, NewSlots, i),
                         format |-> NewSlots[i].format,
                         mount |-> NewSlots[i].mount]]]
    BY <1>1 DEF Contents
  <1>4. [i \in DOMAIN NewSlots |->
           [bytes |-> BytesOf(out, NewSlots, i),
            format |-> NewSlots[i].format,
            mount |-> NewSlots[i].mount]]
        = [i \in DOMAIN json |->
             [bytes |-> dir[json[i].file], format |-> json[i].format, mount |-> MountOf(i)]]
    BY <1>1, <1>2
  <1> QED
    BY <1>1, <1>3, <1>4 DEF out

-----------------------------------------------------------------------------
(* A directory that counts as whole, put together again.                   *)

\* The package is in range: a part is what its range says.
LEMMA PartIs ==
  ASSUME NEW b, Readable(b), InRange(Records(File[b]), Header(File[b]).table)
  PROVE  LET file == File[b]
             slots == Records(file)
         IN  /\ BytesOf(file, slots, 0) = SubSeq(file, 1, slots[1].offset)
             /\ \A i \in 1 .. Len(slots) :
                  /\ BytesOf(file, slots, i)
                     = SubSeq(file, slots[i].offset + 1, slots[i].offset + slots[i].size)
                  /\ slots[i].offset \in Nat /\ slots[i].size \in Nat
                  /\ slots[i].offset + slots[i].size <= Len(file)
             /\ slots[1].offset <= Len(file)
             /\ file \in Seq({file[k] : k \in DOMAIN file})
  <1> DEFINE file == File[b]
             slots == Records(file)
             table == Header(file).table
  <1>1. /\ Len(slots) \in Nat /\ Len(slots) >= 1 /\ DOMAIN slots = 1 .. Len(slots)
        /\ table \in Nat
        /\ \A i \in 1 .. Len(slots) : slots[i].offset \in Nat /\ slots[i].size \in Nat
    BY RecordsRead, TpkgAssumption
  <1>2. \A i \in 1 .. Len(slots) :
          slots[i].offset <= table /\ slots[i].size <= table - slots[i].offset
    BY <1>1 DEF InRange
  <1>3. file \in Seq({file[k] : k \in DOMAIN file})
    BY FileAssumption DEF Readable
  <1>4. Len(file) \in Nat /\ table <= Len(file)
    BY <1>1, <1>3, HeaderRead, LenProperties, TpkgAssumption DEF Readable
  <1> HIDE DEF slots, table, file
  <1>5. \A i \in 1 .. Len(slots) :
          /\ slots[i].offset <= Len(file) /\ slots[i].offset + slots[i].size <= Len(file)
          /\ slots[i].offset + slots[i].size \in Nat
    <2> TAKE i \in 1 .. Len(slots)
    <2> DEFINE o == slots[i].offset
               z == slots[i].size
    <2>1. o \in Nat /\ z \in Nat /\ o <= table /\ z <= table - o
      BY <1>1, <1>2, Zenon
    <2> HIDE DEF o, z
    <2>2. o <= Len(file) /\ o + z <= Len(file) /\ o + z \in Nat
      BY <1>1, <1>4, <2>1
    <2> QED
      BY <2>2 DEF o, z
  <1>6. BytesOf(file, slots, 0) = SubSeq(file, 1, slots[1].offset)
    <2>1. slots[1].offset \in Nat /\ slots[1].offset <= Len(file)
      BY <1>1, <1>5
    <2> DEFINE o == slots[1].offset
    <2>2. BytesOf(file, slots, 0) = Bytes(file, 0, o)
      BY DEF BytesOf
    <2> HIDE DEF o
    <2>3. o \in Nat /\ 0 + o = o /\ 0 + 1 = 1 /\ Lesser(o, Len(file)) = o
      BY <1>4, <2>1 DEF Lesser, o
    <2>4. Bytes(file, 0, o) = SubSeq(file, 1, o)
      BY <2>3 DEF Bytes
    <2> QED
      BY <2>2, <2>4 DEF o
  <1>7. ASSUME NEW i \in 1 .. Len(slots)
        PROVE  BytesOf(file, slots, i)
               = SubSeq(file, slots[i].offset + 1, slots[i].offset + slots[i].size)
    <2>1. Lesser(slots[i].offset + slots[i].size, Len(file)) = slots[i].offset + slots[i].size
      BY <1>5 DEF Lesser
    <2>2. i # 0
      BY <1>1
    <2>3. BytesOf(file, slots, i) = Bytes(file, slots[i].offset, slots[i].size)
      BY <2>2 DEF BytesOf
    <2> QED
      BY <2>1, <2>3 DEF Bytes
  <1>8. 1 \in 1 .. Len(slots)
    BY <1>1
  <1> QED
    BY <1>1, <1>3, <1>5, <1>6, <1>7, <1>8 DEF slots, file

\* A slot is nothing but its offset, size, format and mount point.
LEMMA SlotIs ==
  ASSUME NEW b, Readable(b), NEW i \in 1 .. Len(Records(File[b]))
  PROVE  LET slot == Records(File[b])[i]
         IN  slot = Slot(slot.offset, slot.size, slot.format, slot.mount) /\ slot.mount # Unset
  <1>1. i \in DOMAIN Records(File[b])
    BY RecordsRead
  <1> QED
    BY <1>1, FileAssumption DEF Readable

\* What reassemble goes by when the directory is whole.
LEMMA WholeSources ==
  ASSUME CInv, whole # Nothing
  PROVE  LET slots == Records(File[whole])
         IN  /\ Len(json) = Len(slots) /\ DOMAIN json = 1 .. Len(slots) /\ DOMAIN slots = 1 .. Len(slots)
             /\ Len(slots) \in Nat /\ Len(slots) >= 1
             /\ dir[0] = BytesOf(File[whole], slots, 0)
             /\ \A i \in 1 .. Len(slots) :
                  /\ dir[json[i].file] = BytesOf(File[whole], slots, i)
                  /\ json[i].format = slots[i].format
                  /\ MountOf(i) = slots[i].mount
  <1> DEFINE slots == Records(File[whole])
  <1>1. /\ Readable(whole) /\ json = Manifest(slots)
        /\ \A part \in 0 .. Len(slots) : dir[part] = BytesOf(File[whole], slots, part)
    BY DEF CInv, WholeHolds
  <1>2. Len(slots) \in Nat /\ Len(slots) >= 1 /\ DOMAIN slots = 1 .. Len(slots)
    BY <1>1, RecordsRead, TpkgAssumption
  <1>3. \A i \in 1 .. Len(slots) : slots[i].mount # Unset
    BY <1>1, SlotIs
  <1> HIDE DEF slots
  <1>4. json = [i \in 1 .. Len(slots) |->
                  [file |-> i, format |-> slots[i].format, mount |-> slots[i].mount]]
    BY <1>1, <1>2 DEF Manifest
  <1>5. DOMAIN json = 1 .. Len(slots) /\ Len(json) = Len(slots)
    BY <1>2, <1>4
  <1>6. ASSUME NEW i \in 1 .. Len(slots)
        PROVE  /\ dir[json[i].file] = BytesOf(File[whole], slots, i)
               /\ json[i].format = slots[i].format
               /\ MountOf(i) = slots[i].mount
    <2>1. json[i] = [file |-> i, format |-> slots[i].format, mount |-> slots[i].mount]
      BY <1>4
    <2>2. json[i].file = i /\ json[i].format = slots[i].format /\ json[i].mount = slots[i].mount
      BY <2>1
    <2>3. i \in 0 .. Len(slots)
      BY <1>2
    <2> QED
      BY <1>1, <1>3, <2>2, <2>3 DEF MountOf
  <1>7. dir[0] = BytesOf(File[whole], slots, 0)
    BY <1>1, <1>2
  <1> QED
    BY <1>2, <1>5, <1>6, <1>7 DEF slots

\* Two neighbouring pieces make one.
LEMMA Neighbours ==
  ASSUME NEW S, NEW s \in Seq(S), NEW a \in Nat, NEW b \in Nat, a + b <= Len(s)
  PROVE  SubSeq(s, 1, a) \o SubSeq(s, a + 1, a + b) = SubSeq(s, 1, a + b)
  <1> DEFINE p == SubSeq(s, 1, a)
             q == SubSeq(s, a + 1, a + b)
             r == SubSeq(s, 1, a + b)
  <1>1. /\ p \in Seq(S) /\ Len(p) = a /\ \A i \in 1 .. a : p[i] = s[i]
    OBVIOUS
  <1>2. /\ q \in Seq(S) /\ Len(q) = b /\ \A i \in 1 .. b : q[i] = s[a + i]
    OBVIOUS
  <1>3. /\ r \in Seq(S) /\ Len(r) = a + b /\ \A i \in 1 .. a + b : r[i] = s[i]
    OBVIOUS
  <1> HIDE DEF p, q, r
  <1>4. /\ p \o q \in Seq(S) /\ Len(p \o q) = a + b
        /\ \A i \in 1 .. a + b : (p \o q)[i] = IF i <= a THEN p[i] ELSE q[i - a]
    <2>1. p \in Seq(S) /\ q \in Seq(S)
      BY <1>1, <1>2
    <2>2. /\ p \o q \in Seq(S) /\ Len(p \o q) = Len(p) + Len(q)
          /\ \A i \in 1 .. Len(p) + Len(q) :
               (p \o q)[i] = IF i <= Len(p) THEN p[i] ELSE q[i - Len(p)]
      BY <2>1, ConcatProperties
    <2>3. Len(p) = a /\ Len(q) = b
      BY <1>1, <1>2
    <2> QED
      BY <2>2, <2>3
  <1>5. ASSUME NEW i \in 1 .. a + b
        PROVE  (p \o q)[i] = r[i]
    <2>1. CASE i <= a
      <3>1. i \in 1 .. a
        BY <2>1
      <3>2. (p \o q)[i] = p[i]
        BY <1>4, <2>1
      <3>3. p[i] = s[i]
        BY <1>1, <3>1
      <3> QED
        BY <1>3, <3>2, <3>3
    <2>2. CASE ~(i <= a)
      <3>1. i - a \in 1 .. b /\ a + (i - a) = i
        BY <2>2
      <3> QED
        BY <1>2, <1>3, <1>4, <2>2, <3>1
    <2> QED
      BY <2>1, <2>2
  <1>6. p \o q = r
    BY <1>3, <1>4, <1>5, SeqEqual
  <1> QED
    BY <1>6 DEF p, q, r

\* The payload of a package that was laid out by bundling, put together from its
\* parts.
LEMMA WholeBodies ==
  ASSUME CInv, CanReassemble, whole # Nothing, Bundled(File[whole]),
         NEW m \in 1 .. Len(Records(File[whole]))
  PROVE  LET file == File[whole]
             slot == Records(file)[m]
         IN  /\ Upto(m - 1) = SubSeq(file, 1, slot.offset)
             /\ Upto(m) = SubSeq(file, 1, slot.offset + slot.size)
  <1> DEFINE file == File[whole]
             slots == Records(file)
             n == Len(slots)
             S == {file[k] : k \in DOMAIN file}
             End(i) == slots[i].offset + slots[i].size
             Good(i) == /\ Upto(i - 1) = SubSeq(file, 1, slots[i].offset)
                        /\ Upto(i) = SubSeq(file, 1, End(i))
             Bad == {i \in 1 .. n : ~Good(i)}
  <1>1. Readable(whole) /\ InRange(slots, Header(file).table)
    BY DEF CInv, WholeHolds
  <1>2. /\ n \in Nat /\ Len(json) = n /\ dir[0] = BytesOf(file, slots, 0)
        /\ \A i \in 1 .. n : dir[json[i].file] = BytesOf(file, slots, i)
    BY WholeSources
  <1>3. /\ BytesOf(file, slots, 0) = SubSeq(file, 1, slots[1].offset)
        /\ \A i \in 1 .. n :
             /\ BytesOf(file, slots, i) = SubSeq(file, slots[i].offset + 1, End(i))
             /\ slots[i].offset \in Nat /\ slots[i].size \in Nat /\ End(i) <= Len(file)
        /\ file \in Seq(S)
    BY <1>1, PartIs
  <1>4. \A i \in 2 .. n : slots[i].offset = End(i - 1)
    BY DEF Bundled
  <1>5. Growing(Stuff, dir[0], Sources, n, Bodies)
    BY <1>2, SourcesGrow
  <1>6. /\ \A i \in 0 .. n : Bodies[i] = Upto(i)
        /\ \A i \in 1 .. n : Sources[i] = dir[json[i].file]
    BY <1>2 DEF Bodies, Sources
  <1> SUFFICES ASSUME Bad # {} PROVE FALSE
    OBVIOUS
  <1> HIDE DEF n, file, slots, S
  <1>7. Bad \subseteq Nat
    BY <1>2
  <1>8. PICK i \in Bad : \A j \in Bad : i <= j
    BY <1>7, LeastOf
  <1>9. i \in 1 .. n /\ ~Good(i) /\ i \in 0 .. n /\ i - 1 \in 0 .. n
    BY <1>2, <1>8
  <1>10. Upto(i - 1) = SubSeq(file, 1, slots[i].offset)
    <2>1. CASE i = 1
      <3>1. Upto(0) = dir[0]
        <4>1. Bodies[0] = dir[0]
          BY <1>5 DEF Growing
        <4>2. 0 \in 0 .. n
          BY <1>2
        <4> QED
          BY <1>6, <4>1, <4>2
      <3> QED
        BY <1>2, <1>3, <2>1, <3>1
    <2>2. CASE i # 1
      <3>1. i - 1 \in 1 .. n /\ i \in 2 .. n /\ ~(i <= i - 1)
        BY <1>2, <1>9, <2>2
      <3>2. Good(i - 1)
        BY <1>8, <3>1
      <3>3. Upto(i - 1) = SubSeq(file, 1, End(i - 1))
        BY <3>2
      <3> QED
        BY <1>4, <3>1, <3>3
    <2> QED
      BY <2>1, <2>2
  <1>11. Upto(i) = Upto(i - 1) \o dir[json[i].file]
    <2>1. Bodies[i] = Bodies[i - 1] \o Sources[i]
      BY <1>5, <1>9 DEF Growing
    <2> QED
      BY <1>6, <1>9, <2>1
  <1>12. dir[json[i].file] = SubSeq(file, slots[i].offset + 1, End(i))
    BY <1>2, <1>3, <1>9
  <1>13. SubSeq(file, 1, slots[i].offset) \o SubSeq(file, slots[i].offset + 1, End(i))
         = SubSeq(file, 1, End(i))
    <2> DEFINE a == slots[i].offset
               c == slots[i].size
    <2>1. a \in Nat /\ c \in Nat /\ a + c <= Len(file)
      BY <1>3, <1>9
    <2> HIDE DEF a, c
    <2>2. SubSeq(file, 1, a) \o SubSeq(file, a + 1, a + c) = SubSeq(file, 1, a + c)
      <3>1. file \in Seq(S)
        BY <1>3, Zenon
      <3> QED
        BY <2>1, <3>1, Neighbours, Zenon
    <2> QED
      BY <2>2 DEF a, c
  <1>14. Upto(i) = SubSeq(file, 1, End(i))
    <2> HIDE DEF End
    <2> QED
      BY <1>10, <1>11, <1>12, <1>13
  <1> QED
    BY <1>9, <1>10, <1>14

\* With the slots of the package, and its trailer, that is the package.
LEMMA WholeReassembled ==
  ASSUME CInv, CanReassemble, whole # Nothing, Bundled(File[whole])
  PROVE  Reassembled = File[whole]
  <1> DEFINE file == File[whole]
             slots == Records(file)
             n == Len(slots)
             S == {file[k] : k \in DOMAIN file}
  <1>1. Readable(whole) /\ InRange(slots, Header(file).table)
    BY DEF CInv, WholeHolds
  <1>2. /\ n \in Nat /\ n >= 1 /\ Len(json) = n /\ DOMAIN json = 1 .. n /\ DOMAIN slots = 1 .. n
        /\ \A i \in 1 .. n : /\ dir[json[i].file] = BytesOf(file, slots, i)
                            /\ json[i].format = slots[i].format /\ MountOf(i) = slots[i].mount
    BY WholeSources
  <1>3. /\ \A i \in 1 .. n :
             /\ BytesOf(file, slots, i) = SubSeq(file, slots[i].offset + 1, slots[i].offset + slots[i].size)
             /\ slots[i].offset \in Nat /\ slots[i].size \in Nat
             /\ slots[i].offset + slots[i].size <= Len(file)
        /\ file \in Seq(S)
    BY <1>1, PartIs
  <1>4. \A i \in 1 .. n :
          slots[i] = Slot(slots[i].offset, slots[i].size, slots[i].format, slots[i].mount)
    BY <1>1, SlotIs
  <1>5. \A i \in 1 .. n :
          /\ Upto(i - 1) = SubSeq(file, 1, slots[i].offset)
          /\ Upto(i) = SubSeq(file, 1, slots[i].offset + slots[i].size)
    BY WholeBodies
  <1>6. /\ Header(file).table = slots[n].offset + slots[n].size
        /\ file = Write(SubSeq(file, 1, Header(file).table), slots)
    BY DEF Bundled, Last
  <1>7. slots = [i \in 1 .. n |-> slots[i]]
    <2>1. slots = [i \in 1 .. Header(file).count |-> slots[i]]
      BY DEF Records
    <2> HIDE DEF slots
    <2> QED
      BY <1>2, <2>1
  <1> HIDE DEF n, slots, file, S
  <1>8. ASSUME NEW i \in 1 .. n
        PROVE  NewSlots[i] = slots[i]
    <2> DEFINE a == slots[i].offset
               c == slots[i].size
    <2>1. a \in Nat /\ c \in Nat /\ a + c <= Len(file) /\ Len(file) \in Nat
      BY <1>3
    <2>2. Upto(i - 1) = SubSeq(file, 1, a) /\ dir[json[i].file] = SubSeq(file, a + 1, a + c)
      BY <1>2, <1>3, <1>5
    <2> HIDE DEF a, c
    <2>3. Len(SubSeq(file, 1, a)) = a /\ Len(SubSeq(file, a + 1, a + c)) = c
      BY <1>3, <2>1
    <2>4. NewSlots[i] = Slot(Len(Upto(i - 1)), Len(dir[json[i].file]), json[i].format, MountOf(i))
      BY <1>2 DEF NewSlots
    <2>5. NewSlots[i] = Slot(a, c, slots[i].format, slots[i].mount)
      BY <1>2, <2>2, <2>3, <2>4
    <2> QED
      BY <1>4, <2>5 DEF a, c
  <1>9. NewSlots = slots
    <2>1. NewSlots = [i \in 1 .. n |-> NewSlots[i]]
      BY <1>2 DEF NewSlots
    <2> QED
      BY <1>7, <1>8, <2>1
  <1>10. Upto(n) = SubSeq(file, 1, Header(file).table)
    BY <1>2, <1>5, <1>6
  <1>11. Reassembled = Write(Upto(n), NewSlots)
    BY <1>2 DEF Reassembled
  <1> QED
    BY <1>6, <1>9, <1>10, <1>11 DEF file

\* However a package was laid out, its readers see the same in the new one.
LEMMA WholeContents ==
  ASSUME CInv, CanReassemble, Validate(Version, NewSlots) = "OK", whole # Nothing
  PROVE  Contents(Reassembled) = Contents(File[whole])
  <1> DEFINE file == File[whole]
             slots == Records(file)
             Seen(i) == [bytes |-> dir[json[i].file], format |-> json[i].format, mount |-> MountOf(i)]
             Said(i) == [bytes |-> BytesOf(file, slots, i), format |-> slots[i].format,
                         mount |-> slots[i].mount]
  <1>1. /\ DOMAIN json = DOMAIN slots /\ DOMAIN slots = 1 .. Len(slots)
        /\ dir[0] = BytesOf(file, slots, 0)
        /\ \A i \in 1 .. Len(slots) :
             /\ dir[json[i].file] = BytesOf(file, slots, i)
             /\ json[i].format = slots[i].format
             /\ MountOf(i) = slots[i].mount
    BY WholeSources
  <1>2. Contents(Reassembled) = [boot |-> dir[0], slots |-> [i \in DOMAIN json |-> Seen(i)]]
    BY ReassembledContents
  <1>3. Contents(file) = [boot |-> BytesOf(file, slots, 0), slots |-> [i \in DOMAIN slots |-> Said(i)]]
    BY DEF Contents
  <1> HIDE DEF slots, file
  <1>4. \A i \in DOMAIN json : Seen(i) = Said(i)
    BY <1>1
  <1> HIDE DEF Seen, Said
  <1>5. [i \in DOMAIN json |-> Seen(i)] = [i \in DOMAIN slots |-> Said(i)]
    BY <1>1, <1>4
  <1> QED
    BY <1>1, <1>2, <1>3, <1>5 DEF file

-----------------------------------------------------------------------------
(* The theorems.                                                           *)

\* The parts and manifest.json fit together; the directory counts as whole only
\* when every part that its manifest counts is there.
THEOREM PartsTypes == Spec => []TypeOK
  <1>1. IInv => TypeOK
    BY DEF IInv
  <1> QED
    BY <1>1, Always, PTL

\* For any packages, whatever their trailers say: no byte of a slot table or of
\* a trailer is unbundled as a part of an image.
THEOREM OnlyPayloadTaken == Spec => []PartsOfPayload
  <1>1. IInv => PartsOfPayload
    BY DEF IInv
  <1> QED
    BY <1>1, Always, PTL

\* A package that reassemble reports as built can be read, and holds the parts
\* of the directory.
THEOREM PartsPickedUp == Spec => PicksUpParts
  <1>1. CInv /\ [Next]_vars =>
          [ Reassemble =>
              /\ ReadError(output') = "OK"
              /\ Contents(output') =
                   [boot |-> dir[0],
                    slots |-> [i \in DOMAIN json |->
                                 [bytes |-> dir[json[i].file],
                                  format |-> json[i].format,
                                  mount |-> MountOf(i)]]] ]_vars
    <2> SUFFICES ASSUME CInv, Reassemble
                 PROVE  /\ ReadError(output') = "OK"
                        /\ Contents(output') =
                             [boot |-> dir[0],
                              slots |-> [i \in DOMAIN json |->
                                           [bytes |-> dir[json[i].file],
                                            format |-> json[i].format,
                                            mount |-> MountOf(i)]]]
      OBVIOUS
    <2>1. CanReassemble /\ Validate(Version, NewSlots) = "OK" /\ output' = Reassembled
      BY DEF Reassemble
    <2>2. ReadError(Reassembled) = "OK"
      BY <2>1, ReassembledParts
    <2> QED
      BY <2>1, <2>2, ReassembledContents
  <1> QED
    BY <1>1, CopiesAlways, PTL DEF Spec, PicksUpParts

\* Taking a package apart and putting it together again gives the same package.
THEOREM PackageRoundTrip == Spec => RoundTrip
  <1>1. CInv /\ [Next]_vars =>
          [ Reassemble /\ whole # Nothing =>
              /\ Contents(output') = Contents(File[whole])
              /\ Bundled(File[whole]) => output' = File[whole] ]_vars
    <2> SUFFICES ASSUME CInv, Reassemble, whole # Nothing
                 PROVE  /\ Contents(output') = Contents(File[whole])
                        /\ Bundled(File[whole]) => output' = File[whole]
      OBVIOUS
    <2>1. CanReassemble /\ Validate(Version, NewSlots) = "OK" /\ output' = Reassembled
      BY DEF Reassemble
    <2> QED
      BY <2>1, WholeContents, WholeReassembled
  <1> QED
    BY <1>1, CopiesAlways, PTL DEF Spec, RoundTrip
=============================================================================
