---------------------------- MODULE ChunkProofs ----------------------------
(***************************************************************************)
(* Proofs about DocumentChunking, for any document and any settings.       *)
(***************************************************************************)
EXTENDS DocumentChunking, FiniteSetTheorems, WellFoundedInduction, TLAPS

-----------------------------------------------------------------------------
(* Induction over sets of indices and what a fold computes.                *)

\* A nonempty set of natural numbers has a least element.
LEMMA Least ==
    ASSUME NEW S, S \subseteq Nat, S # {}
    PROVE  \E x \in S : \A y \in S : x <= y
<1> DEFINE Less == {p \in Nat \X Nat : p[1] < p[2]}
<1>1. IsWellFoundedOn(Less, Nat)
  BY NatLessThanWellFounded DEF OpToRel
<1>2. PICK x \in S : \A y \in S : ~(<<y, x>> \in Less)
  <2> HIDE DEF Less
  <2> QED BY <1>1, WFMin
<1>3. \A y \in S : y < x => <<y, x>> \in Less
  OBVIOUS
<1> HIDE DEF Less
<1>4. \A y \in S : ~(y < x)
  BY <1>2, <1>3
<1> QED BY <1>4

\* A bounded set of integers has a greatest element.
LEMMA Greatest ==
    ASSUME NEW n \in Nat, NEW S, S \subseteq 0 .. n, S # {}
    PROVE  \E x \in S : \A y \in S : x >= y
<1> DEFINE R == {n - x : x \in S}
<1>1. R \subseteq Nat /\ R # {}
  <2>1. \A x \in S : n - x \in Nat
    OBVIOUS
  <2> QED BY <2>1
<1>2. PICK m \in R : \A y \in R : m <= y
  <2> HIDE DEF R
  <2> QED BY <1>1, Least
<1>3. PICK x \in S : m = n - x
  OBVIOUS
<1>4. ASSUME NEW y \in S PROVE x >= y
  <2>1. n - y \in R
    OBVIOUS
  <2>2. n - x <= n - y
    BY <1>2, <1>3, <2>1
  <2> QED BY <2>2
<1> QED BY <1>4

\* The maximum FoldLeft descends by is the greatest element.
LEMMA MaxIs ==
    ASSUME NEW n \in Nat, NEW T, T \subseteq 1 .. n, T # {}
    PROVE  Max(T) \in T /\ \A x \in T : Max(T) >= x
<1>1. T \subseteq 0 .. n
  OBVIOUS
<1>2. \E x \in T : \A y \in T : x >= y
  BY <1>1, Greatest
<1> QED BY <1>2 DEF Max

\* What a fold computes: u gives the value of every set of indices, built from
\* the greatest one.
Builds(u, n, base, G) ==
    \A T \in SUBSET (1 .. n) :
        u[T] = IF T = {} THEN base ELSE G[<<Max(T), u[T \ {Max(T)}]>>]

Upto(n, k) == {T \in SUBSET (1 .. n) : Cardinality(T) <= k}
BuildsUpto(u, n, base, G, k) ==
    \A T \in Upto(n, k) :
        u[T] = IF T = {} THEN base ELSE G[<<Max(T), u[T \ {Max(T)}]>>]

\* A set of indices without its greatest one is smaller.
LEMMA Shrinks ==
    ASSUME NEW n \in Nat, NEW T \in SUBSET (1 .. n)
    PROVE  /\ IsFiniteSet(T) /\ Cardinality(T) \in 0 .. n
           /\ T # {} => /\ Max(T) \in 1 .. n /\ T \ {Max(T)} \in SUBSET (1 .. n)
                        /\ Cardinality(T \ {Max(T)}) = Cardinality(T) - 1
           /\ Cardinality(T) = 0 => T = {}
<1>1. IsFiniteSet(1 .. n) /\ Cardinality(1 .. n) = n
  BY FS_Interval
<1>2. IsFiniteSet(T) /\ Cardinality(T) \in Nat /\ Cardinality(T) <= n
  BY <1>1, FS_Subset, FS_CardinalityType
<1>3. ASSUME T # {}
      PROVE  /\ Max(T) \in 1 .. n /\ T \ {Max(T)} \in SUBSET (1 .. n)
             /\ Cardinality(T \ {Max(T)}) = Cardinality(T) - 1
  <2>1. Max(T) \in T
    BY <1>3, MaxIs
  <2> QED BY <1>2, <2>1, FS_RemoveElement
<1>4. Cardinality(T) = 0 => T = {}
  BY <1>2, FS_EmptySet
<1> QED BY <1>2, <1>3, <1>4

\* A fold by a function that stays in V exists and stays in V.
LEMMA FoldExists ==
    ASSUME NEW n \in Nat, NEW V, NEW base \in V, NEW G \in [(1 .. n) \X V -> V]
    PROVE  \E u \in [SUBSET (1 .. n) -> V] : Builds(u, n, base, G)
<1> DEFINE Fits(k) == \E u \in [Upto(n, k) -> V] : BuildsUpto(u, n, base, G, k)
           Bad == {k \in 0 .. n : ~Fits(k)}
<1>1. Fits(0)
  <2> DEFINE u == [T \in Upto(n, 0) |-> base]
  <2>1. ASSUME NEW T \in Upto(n, 0) PROVE T = {}
    <3>1. T \in SUBSET (1 .. n) /\ Cardinality(T) <= 0
      BY DEF Upto
    <3>2. Cardinality(T) \in 0 .. n /\ (Cardinality(T) = 0 => T = {})
      BY <3>1, Shrinks
    <3> QED BY <3>1, <3>2
  <2>2. u \in [Upto(n, 0) -> V] /\ BuildsUpto(u, n, base, G, 0)
    BY <2>1 DEF BuildsUpto
  <2> QED BY <2>2
<1>2. ASSUME NEW k \in 0 .. n - 1, Fits(k) PROVE Fits(k + 1)
  <2>1. PICK u \in [Upto(n, k) -> V] : BuildsUpto(u, n, base, G, k)
    BY <1>2
  <2> DEFINE w == [T \in Upto(n, k + 1) |->
                     IF T = {} THEN base ELSE G[<<Max(T), u[T \ {Max(T)}]>>]]
  <2>2. ASSUME NEW T \in Upto(n, k + 1), T # {}
        PROVE  Max(T) \in 1 .. n /\ T \ {Max(T)} \in Upto(n, k)
    <3>1. T \in SUBSET (1 .. n) /\ Cardinality(T) <= k + 1
      BY DEF Upto
    <3>2. /\ Max(T) \in 1 .. n /\ T \ {Max(T)} \in SUBSET (1 .. n)
          /\ Cardinality(T) \in 0 .. n /\ Cardinality(T \ {Max(T)}) = Cardinality(T) - 1
      BY <2>2, <3>1, Shrinks
    <3> QED BY <3>1, <3>2 DEF Upto
  <2>3. ASSUME NEW T \in Upto(n, k) PROVE T \in Upto(n, k + 1)
    <3>1. T \in SUBSET (1 .. n) /\ Cardinality(T) <= k
      BY DEF Upto
    <3>2. Cardinality(T) \in 0 .. n
      BY <3>1, Shrinks
    <3> QED BY <3>1, <3>2 DEF Upto
  <2>4. \A T \in Upto(n, k) : w[T] = u[T]
    BY <2>1, <2>3 DEF BuildsUpto
  <2>5. \A T \in Upto(n, k + 1) : T # {} => u[T \ {Max(T)}] \in V
    BY <2>1, <2>2
  <2>6. w \in [Upto(n, k + 1) -> V]
    BY <2>2, <2>5
  <2>7. BuildsUpto(w, n, base, G, k + 1)
    <3> SUFFICES ASSUME NEW T \in Upto(n, k + 1)
                 PROVE  w[T] = IF T = {} THEN base ELSE G[<<Max(T), w[T \ {Max(T)}]>>]
      BY DEF BuildsUpto
    <3>1. w[T] = IF T = {} THEN base ELSE G[<<Max(T), u[T \ {Max(T)}]>>]
      OBVIOUS
    <3> HIDE DEF w
    <3> QED BY <2>2, <2>4, <3>1
  <2> HIDE DEF w
  <2> QED BY <2>6, <2>7
<1>3. Bad = {}
  <2> SUFFICES ASSUME Bad # {} PROVE FALSE
    OBVIOUS
  <2>1. Bad \subseteq Nat
    OBVIOUS
  <2>2. PICK k \in Bad : \A j \in Bad : k <= j
    <3> HIDE DEF Bad
    <3> QED BY <2>1, Least
  <2> HIDE DEF Fits
  <2>3. k # 0 /\ k \in 0 .. n /\ ~Fits(k)
    BY <1>1, <2>2
  <2>4. k - 1 \in 0 .. n - 1 /\ k - 1 \notin Bad
    BY <2>2, <2>3
  <2>5. Fits(k - 1)
    BY <2>4
  <2>6. Fits((k - 1) + 1)
    BY <1>2, <2>4, <2>5
  <2>7. (k - 1) + 1 = k
    BY <2>3
  <2> QED BY <2>3, <2>6, <2>7
<1>4. Fits(n)
  <2> HIDE DEF Fits
  <2> QED BY <1>3
<1>5. Upto(n, n) = SUBSET (1 .. n)
  <2>1. ASSUME NEW T \in SUBSET (1 .. n) PROVE T \in Upto(n, n)
    <3>1. Cardinality(T) \in 0 .. n
      BY Shrinks
    <3> QED BY <3>1 DEF Upto
  <2> QED BY <2>1 DEF Upto
<1> QED BY <1>4, <1>5 DEF BuildsUpto, Builds

\* Two functions that agree on the empty set, and on a set when they do without
\* its greatest element, agree.
LEMMA SameFold ==
    ASSUME NEW n \in Nat, NEW u, NEW w, u[{}] = w[{}],
           \A T \in SUBSET (1 .. n) :
              T # {} /\ u[T \ {Max(T)}] = w[T \ {Max(T)}] => u[T] = w[T]
    PROVE  u[1 .. n] = w[1 .. n]
<1> DEFINE Bad == {T \in SUBSET (1 .. n) : u[T] # w[T]}
           Counts == {Cardinality(T) : T \in Bad}
<1> SUFFICES ASSUME Bad # {} PROVE FALSE
  OBVIOUS
<1>1. ASSUME NEW T \in SUBSET (1 .. n) PROVE Cardinality(T) \in Nat
  <2>1. Cardinality(T) \in 0 .. n
    BY Shrinks
  <2> QED BY <2>1
<1>2. Counts \subseteq Nat /\ Counts # {}
  BY <1>1
<1>3. PICK m \in Counts : \A k \in Counts : m <= k
  <2> HIDE DEF Counts
  <2> QED BY <1>2, Least
<1>4. PICK T \in Bad : Cardinality(T) = m
  OBVIOUS
<1>5. T \in SUBSET (1 .. n) /\ u[T] # w[T] /\ T # {}
  OBVIOUS
<1> DEFINE R == T \ {Max(T)}
<1>6. R \in SUBSET (1 .. n) /\ Cardinality(R) = m - 1
  BY <1>4, <1>5, Shrinks
<1>7. R \notin Bad
  <2>1. R \in Bad => Cardinality(R) \in Counts
    OBVIOUS
  <2> HIDE DEF Bad, Counts
  <2>2. m \in Nat /\ (Cardinality(R) \in Counts => m <= Cardinality(R))
    BY <1>2, <1>3
  <2> QED BY <1>6, <2>1, <2>2
<1>8. u[R] = w[R]
  BY <1>6, <1>7
<1> QED BY <1>5, <1>8

-----------------------------------------------------------------------------
(* strip and " ".join.                                                     *)

\* The characters of a text that are no spaces, and texts without a space at an end.
Solid(s) == {s[i] : i \in DOMAIN s} \ {Space}
Stripped(s) == s = <<>> \/ (~Blank(s[1]) /\ ~Blank(s[Len(s)]))

\* lstrip drops spaces on the left only.
LEMMA StripLeftFacts ==
    ASSUME NEW X, NEW s \in Seq(X)
    PROVE  /\ StripLeft(s) \in Seq(X) /\ Solid(StripLeft(s)) = Solid(s)
           /\ StripLeft(s) # <<>> =>
                /\ ~Blank(StripLeft(s)[1])
                /\ StripLeft(s)[Len(StripLeft(s))] = s[Len(s)]
           /\ s # <<>> /\ ~Blank(s[1]) => StripLeft(s) = s
<1> DEFINE solid == {i \in DOMAIN s : ~Blank(s[i])}
<1>0. DOMAIN s = 1 .. Len(s) /\ Len(s) \in Nat
  OBVIOUS
<1>1. CASE solid = {}
  <2>1. StripLeft(s) = <<>>
    BY <1>1 DEF StripLeft
  <2>2. \A i \in DOMAIN s : s[i] = Space
    BY <1>1 DEF Blank
  <2>3. Solid(s) = {} /\ Solid(<<>>) = {}
    BY <2>2 DEF Solid
  <2>4. s # <<>> => 1 \in DOMAIN s
    BY <1>0
  <2> QED BY <1>1, <2>1, <2>3, <2>4
<1>2. CASE solid # {}
  <2>1. solid \subseteq Nat
    OBVIOUS
  <2>2. \E i \in solid : \A j \in solid : i <= j
    <3> HIDE DEF solid
    <3> QED BY <1>2, <2>1, Least
  <2> DEFINE k == CHOOSE i \in solid : \A j \in solid : i <= j
  <2>3. k \in solid /\ \A j \in solid : k <= j
    BY <2>2
  <2>4. k \in 1 .. Len(s) /\ ~Blank(s[k]) /\ \A j \in 1 .. Len(s) : j < k => s[j] = Space
    BY <2>3 DEF Blank
  <2>5. StripLeft(s) = SubSeq(s, k, Len(s))
    BY <1>2 DEF StripLeft
  <2> HIDE DEF k
  <2> DEFINE r == SubSeq(s, k, Len(s))
  <2>6. r \in Seq(X) /\ Len(r) = Len(s) - k + 1 /\ \A i \in 1 .. Len(r) : r[i] = s[k + i - 1]
    BY <2>4
  <2>7. r[1] = s[k] /\ r[Len(r)] = s[Len(s)]
    <3>1. 1 \in 1 .. Len(r) /\ Len(r) \in 1 .. Len(r) /\ k + 1 - 1 = k /\ k + Len(r) - 1 = Len(s)
      BY <2>4, <2>6
    <3> QED BY <2>6, <3>1
  <2>8. Solid(r) = Solid(s)
    <3>1. ASSUME NEW c \in Solid(r) PROVE c \in Solid(s)
      <4>1. PICK i \in DOMAIN r : c = r[i]
        BY DEF Solid
      <4>2. i \in 1 .. Len(r) /\ k + i - 1 \in DOMAIN s
        BY <2>4, <2>6
      <4> QED BY <2>6, <4>1, <4>2 DEF Solid
    <3>2. ASSUME NEW c \in Solid(s) PROVE c \in Solid(r)
      <4>1. PICK i \in DOMAIN s : c = s[i] /\ c # Space
        BY DEF Solid
      <4>2. i >= k
        BY <2>4, <4>1
      <4>3. i - k + 1 \in 1 .. Len(r) /\ k + (i - k + 1) - 1 = i
        BY <2>4, <2>6, <4>2
      <4>4. r[i - k + 1] = s[i] /\ i - k + 1 \in DOMAIN r
        BY <2>6, <4>3
      <4> QED BY <4>1, <4>4 DEF Solid
    <3> QED BY <3>1, <3>2
  <2>9. ~Blank(s[1]) => k = 1
    BY <2>4 DEF Blank
  <2>10. k = 1 => r = s
    BY <2>6
  <2> QED BY <2>4, <2>5, <2>6, <2>7, <2>8, <2>9, <2>10
<1> QED BY <1>1, <1>2

\* Reversing a text keeps its characters.
LEMMA ReverseFacts ==
    ASSUME NEW X, NEW s \in Seq(X)
    PROVE  /\ Reverse(s) \in Seq(X) /\ Len(Reverse(s)) = Len(s)
           /\ \A i \in 1 .. Len(s) : Reverse(s)[i] = s[(Len(s) - i) + 1]
           /\ Solid(Reverse(s)) = Solid(s)
           /\ Reverse(Reverse(s)) = s
<1> DEFINE r == Reverse(s)
<1>1. \A i \in 1 .. Len(s) : (Len(s) - i) + 1 \in 1 .. Len(s) /\ (Len(s) - ((Len(s) - i) + 1)) + 1 = i
  OBVIOUS
<1>2. r \in Seq(X) /\ Len(r) = Len(s) /\ \A i \in 1 .. Len(s) : r[i] = s[(Len(s) - i) + 1]
  BY <1>1 DEF Reverse
<1> HIDE DEF r
<1>3. Reverse(r) \in Seq(X) /\ Len(Reverse(r)) = Len(s)
      /\ \A i \in 1 .. Len(s) : Reverse(r)[i] = r[(Len(s) - i) + 1]
  BY <1>1, <1>2 DEF Reverse
<1>4. \A i \in 1 .. Len(s) : Reverse(r)[i] = s[i]
  BY <1>1, <1>2, <1>3
<1>5. Reverse(r) = s
  BY <1>3, <1>4
<1>6. Solid(r) = Solid(s)
  <2>1. DOMAIN r = 1 .. Len(s) /\ DOMAIN s = 1 .. Len(s)
    BY <1>2
  <2>2. \A i \in DOMAIN s : \E j \in DOMAIN r : r[j] = s[i]
    BY <1>1, <1>2, <2>1
  <2>3. \A i \in DOMAIN r : \E j \in DOMAIN s : r[i] = s[j]
    BY <1>1, <1>2, <2>1
  <2> QED BY <2>2, <2>3 DEF Solid
<1> QED BY <1>2, <1>5, <1>6 DEF r

\* strip drops the spaces at both ends and nothing else.
LEMMA StripTextFacts ==
    ASSUME NEW X, NEW s \in Seq(X)
    PROVE  /\ StripText(s) \in Seq(X) /\ Solid(StripText(s)) = Solid(s) /\ Stripped(StripText(s))
           /\ s # <<>> /\ ~Blank(s[Len(s)]) => StripText(s) = StripLeft(s)
<1> DEFINE a == StripLeft(s)
           b == Reverse(a)
           c == StripLeft(b)
           d == Reverse(c)
<1>1. /\ a \in Seq(X) /\ Solid(a) = Solid(s) /\ (a # <<>> => ~Blank(a[1]) /\ a[Len(a)] = s[Len(s)])
  BY StripLeftFacts
<1> HIDE DEF a
<1>2. /\ b \in Seq(X) /\ Solid(b) = Solid(a) /\ Len(b) = Len(a)
      /\ \A i \in 1 .. Len(a) : b[i] = a[(Len(a) - i) + 1]
      /\ Reverse(b) = a
  BY <1>1, ReverseFacts
<1>3. a # <<>> => b # <<>> /\ b[1] = a[Len(a)] /\ b[Len(b)] = a[1]
  BY <1>1, <1>2
<1> HIDE DEF b
<1>4. /\ c \in Seq(X) /\ Solid(c) = Solid(b) /\ (c # <<>> => ~Blank(c[1]) /\ c[Len(c)] = b[Len(b)])
      /\ (b # <<>> /\ ~Blank(b[1]) => c = b)
  BY <1>2, StripLeftFacts
<1>5. b = <<>> => c = <<>>
  <2>1. b = <<>> => StripLeft(b) = <<>>
    BY DEF StripLeft
  <2> QED BY <2>1
<1>6. a = <<>> => b = <<>>
  BY <1>1, <1>2
<1> HIDE DEF c
<1>7. /\ d \in Seq(X) /\ Solid(d) = Solid(c) /\ Len(d) = Len(c)
      /\ \A i \in 1 .. Len(c) : d[i] = c[(Len(c) - i) + 1]
  BY <1>4, ReverseFacts
<1>8. c # <<>> => d[1] = c[Len(c)] /\ d[Len(d)] = c[1]
  BY <1>4, <1>7
<1>9. c = <<>> => d = <<>>
  BY <1>4, <1>7
<1>10. c = b => d = a
  BY <1>2
<1> HIDE DEF d
<1>11. Stripped(d)
  BY <1>1, <1>3, <1>4, <1>5, <1>6, <1>8, <1>9 DEF Stripped
<1>12. s # <<>> /\ ~Blank(s[Len(s)]) => d = a
  BY <1>1, <1>3, <1>4, <1>5, <1>6, <1>10
<1>13. StripText(s) = d
  BY DEF StripText, a, b, c, d
<1> QED BY <1>1, <1>2, <1>4, <1>7, <1>11, <1>12, <1>13 DEF a

\* " ".join of two stripped texts.
LEMMA SpacedIs ==
    ASSUME NEW X, Space \in X, NEW s \in Seq(X), NEW t \in Seq(X), Stripped(s), Stripped(t)
    PROVE  Spaced(s, t) = IF s = <<>> THEN t ELSE IF t = <<>> THEN s ELSE s \o <<Space>> \o t
<1> DEFINE j == s \o <<Space>> \o t
<1>1. /\ j \in Seq(X) /\ Len(j) = Len(s) + 1 + Len(t)
      /\ \A i \in 1 .. Len(s) : j[i] = s[i]
      /\ j[Len(s) + 1] = Space
      /\ \A i \in 1 .. Len(t) : j[Len(s) + 1 + i] = t[i]
  <2> HIDE DEF Space
  <2> QED OBVIOUS
<1>2. Spaced(s, t) = StripText(j)
  BY DEF Spaced
<1> HIDE DEF j
<1>3. CASE s # <<>> /\ t # <<>>
  <2>1. Len(s) # 0 /\ Len(t) # 0 /\ Len(s) \in Nat /\ Len(t) \in Nat
    BY <1>3
  <2>2. j[1] = s[1] /\ j[Len(j)] = t[Len(t)]
    BY <1>1, <2>1
  <2>3. j # <<>> /\ ~Blank(j[1]) /\ ~Blank(j[Len(j)])
    BY <1>1, <1>3, <2>1, <2>2 DEF Stripped
  <2>4. StripText(j) = StripLeft(j) /\ StripLeft(j) = j
    BY <1>1, <2>3, StripLeftFacts, StripTextFacts
  <2> QED BY <1>2, <1>3, <2>4 DEF j
<1>4. CASE s = <<>> /\ t # <<>>
  <2>1. Len(s) = 0 /\ Len(t) # 0 /\ Len(t) \in Nat
    BY <1>4
  <2>2. Len(j) = 1 + Len(t) /\ j[1] = Space /\ \A i \in 1 .. Len(t) : j[1 + i] = t[i]
    BY <1>1, <2>1
  <2>3. j # <<>> /\ j[Len(j)] = t[Len(t)] /\ ~Blank(j[Len(j)]) /\ j[2] = t[1] /\ ~Blank(j[2])
    BY <1>4, <2>1, <2>2 DEF Stripped
  <2>4. StripText(j) = StripLeft(j)
    BY <1>1, <2>3, StripTextFacts
  <2> DEFINE solid == {i \in DOMAIN j : ~Blank(j[i])}
             k == CHOOSE i \in solid : \A m \in solid : i <= m
  <2>5. 2 \in solid /\ \A i \in solid : 2 <= i
    BY <1>1, <2>1, <2>2, <2>3 DEF Blank
  <2>6. k = 2
    <3>1. k \in solid /\ \A m \in solid : k <= m
      BY <2>5
    <3>2. k \in Nat
      BY <1>1, <3>1
    <3> QED BY <2>5, <3>1, <3>2
  <2>7. StripLeft(j) = SubSeq(j, 2, Len(j))
    <3>1. StripLeft(j) = IF solid = {} THEN <<>> ELSE SubSeq(j, k, Len(j))
      BY DEF StripLeft
    <3> QED BY <2>5, <2>6, <3>1
  <2>8. SubSeq(j, 2, Len(j)) = t
    BY <1>1, <2>1, <2>2
  <2> QED BY <1>2, <1>4, <2>4, <2>7, <2>8
<1>5. CASE t = <<>> /\ s # <<>>
  <2>1. Len(t) = 0 /\ Len(s) # 0 /\ Len(s) \in Nat
    BY <1>5
  <2>2. Len(j) = Len(s) + 1 /\ j[1] = s[1] /\ j[Len(j)] = Space /\ j # <<>>
    BY <1>1, <2>1
  <2>3. ~Blank(j[1])
    BY <1>5, <2>2 DEF Stripped
  <2>4. StripLeft(j) = j
    BY <1>1, <2>2, <2>3, StripLeftFacts
  <2> DEFINE r == Reverse(j)
             q == Reverse(s)
  <2>5. r \in Seq(X) /\ Len(r) = Len(s) + 1 /\ \A i \in 1 .. Len(s) + 1 : r[i] = j[(Len(s) + 1 - i) + 1]
    BY <1>1, <2>2, ReverseFacts
  <2>6. q \in Seq(X) /\ Len(q) = Len(s) /\ Reverse(q) = s /\ \A i \in 1 .. Len(s) : q[i] = s[(Len(s) - i) + 1]
    BY ReverseFacts
  <2> HIDE DEF r, q
  <2>7. \A i \in 1 .. Len(s) : r[1 + i] = q[i]
    <3> SUFFICES ASSUME NEW i \in 1 .. Len(s) PROVE r[1 + i] = q[i]
      OBVIOUS
    <3>1. 1 + i \in 1 .. Len(s) + 1 /\ (Len(s) + 1 - (1 + i)) + 1 = (Len(s) - i) + 1
          /\ (Len(s) - i) + 1 \in 1 .. Len(s)
      BY <2>1
    <3>2. r[1 + i] = j[(Len(s) - i) + 1]
      BY <2>5, <3>1
    <3> QED BY <1>1, <2>6, <3>1, <3>2
  <2>8. r[1] = Space /\ ~Blank(r[2])
    <3>1. r[1] = j[Len(s) + 1]
      BY <2>1, <2>5
    <3>2. r[2] = q[1] /\ q[1] = s[Len(s)]
      BY <2>1, <2>6, <2>7
    <3> QED BY <1>5, <2>2, <3>1, <3>2 DEF Stripped
  <2> DEFINE solid == {i \in DOMAIN r : ~Blank(r[i])}
             k == CHOOSE i \in solid : \A m \in solid : i <= m
  <2>9. 2 \in solid /\ \A i \in solid : 2 <= i
    BY <2>1, <2>5, <2>8 DEF Blank
  <2>10. k = 2
    <3>1. k \in solid /\ \A m \in solid : k <= m
      BY <2>9
    <3>2. k \in Nat
      BY <2>5, <3>1
    <3> QED BY <2>9, <3>1, <3>2
  <2>11. StripLeft(r) = SubSeq(r, 2, Len(r))
    <3>1. StripLeft(r) = IF solid = {} THEN <<>> ELSE SubSeq(r, k, Len(r))
      BY DEF StripLeft
    <3> QED BY <2>9, <2>10, <3>1
  <2>12. SubSeq(r, 2, Len(r)) = q
    BY <2>1, <2>5, <2>6, <2>7
  <2>13. StripText(j) = s
    BY <2>4, <2>6, <2>11, <2>12 DEF StripText, r
  <2> QED BY <1>2, <1>5, <2>13
<1>6. CASE s = <<>> /\ t = <<>>
  <2>1. Len(j) = 1 /\ j[1] = Space
    BY <1>1, <1>6
  <2>2. StripText(j) \in Seq(X) /\ Solid(StripText(j)) = Solid(j) /\ Stripped(StripText(j))
    BY <1>1, StripTextFacts
  <2>3. Solid(j) = {}
    BY <1>1, <2>1 DEF Solid
  <2> DEFINE e == StripText(j)
  <2>4. e \in Seq(X) /\ Solid(e) = {} /\ Stripped(e)
    BY <2>2, <2>3
  <2> HIDE DEF e
  <2>5. e # <<>> => 1 \in DOMAIN e /\ ~Blank(e[1])
    BY <2>4 DEF Stripped
  <2>6. e = <<>>
    BY <2>4, <2>5 DEF Solid, Blank
  <2> QED BY <1>2, <1>6, <2>6 DEF e
<1> QED BY <1>3, <1>4, <1>5, <1>6

\* " ".join keeps the characters of both texts.
LEMMA SpacedFacts ==
    ASSUME NEW X, Space \in X, NEW s \in Seq(X), NEW t \in Seq(X), Stripped(s), Stripped(t)
    PROVE  /\ Spaced(s, t) \in Seq(X) /\ Stripped(Spaced(s, t))
           /\ Solid(Spaced(s, t)) = Solid(s) \cup Solid(t)
           /\ Len(Spaced(s, t)) >= Len(s) /\ Len(Spaced(s, t)) >= Len(t)
           /\ s # <<>> /\ t # <<>> => Len(Spaced(s, t)) = Len(s) + 1 + Len(t)
           /\ t # <<>> => Spaced(s, t) # <<>>
<1> DEFINE r == Spaced(s, t)
           j == s \o <<Space>> \o t
<1>1. r = IF s = <<>> THEN t ELSE IF t = <<>> THEN s ELSE j
  BY SpacedIs
<1>2. /\ j \in Seq(X) /\ Len(j) = Len(s) + 1 + Len(t)
      /\ \A i \in 1 .. Len(s) : j[i] = s[i]
      /\ j[Len(s) + 1] = Space
      /\ \A i \in 1 .. Len(t) : j[Len(s) + 1 + i] = t[i]
  <2> HIDE DEF Space
  <2> QED OBVIOUS
<1> HIDE DEF r, j
<1>3. r \in Seq(X)
  BY <1>1, <1>2
<1>4. Solid(<<>>) = {}
  BY DEF Solid
<1>5. CASE s # <<>> /\ t # <<>>
  <2>1. Len(s) # 0 /\ Len(t) # 0 /\ Len(s) \in Nat /\ Len(t) \in Nat
    BY <1>5
  <2>2. r = j /\ j[1] = s[1] /\ j[Len(j)] = t[Len(t)] /\ j # <<>>
    BY <1>1, <1>2, <1>5, <2>1
  <2>3. Stripped(r)
    BY <1>5, <2>2 DEF Stripped
  <2>4. Solid(j) = Solid(s) \cup Solid(t)
    <3>1. \A i \in DOMAIN s : i \in DOMAIN j /\ j[i] = s[i]
      BY <1>2, <2>1
    <3>0. DOMAIN j = 1 .. Len(s) + 1 + Len(t) /\ DOMAIN t = 1 .. Len(t)
      BY <1>2
    <3>2. \A i \in DOMAIN t : Len(s) + 1 + i \in DOMAIN j /\ j[Len(s) + 1 + i] = t[i]
      <4> SUFFICES ASSUME NEW i \in DOMAIN t
                   PROVE  Len(s) + 1 + i \in DOMAIN j /\ j[Len(s) + 1 + i] = t[i]
        OBVIOUS
      <4>1. i \in 1 .. Len(t)
        BY <3>0
      <4>2. Len(s) + 1 + i \in 1 .. Len(s) + 1 + Len(t)
        BY <2>1, <4>1
      <4> QED BY <1>2, <3>0, <4>1, <4>2
    <3>3. ASSUME NEW i \in DOMAIN j
          PROVE  \/ j[i] = Space
                 \/ \E k \in DOMAIN s : j[i] = s[k]
                 \/ \E k \in DOMAIN t : j[i] = t[k]
      <4>1. i \in 1 .. Len(s) + 1 + Len(t)
        BY <1>2
      <4>2. CASE i <= Len(s)
        BY <1>2, <4>1, <4>2
      <4>3. CASE i = Len(s) + 1
        BY <1>2, <4>3
      <4>4. CASE i > Len(s) + 1
        <5>1. i - Len(s) - 1 \in DOMAIN t /\ Len(s) + 1 + (i - Len(s) - 1) = i
          BY <2>1, <3>0, <4>1, <4>4
        <5> QED BY <3>2, <5>1
      <4> QED BY <2>1, <4>1, <4>2, <4>3, <4>4
    <3> QED BY <3>1, <3>2, <3>3 DEF Solid
  <2> QED BY <1>2, <1>3, <1>5, <2>1, <2>2, <2>3, <2>4 DEF r
<1>6. CASE s = <<>> \/ t = <<>>
  BY <1>1, <1>3, <1>4, <1>6 DEF r
<1> QED BY <1>5, <1>6

-----------------------------------------------------------------------------
(* The folds of the module as traces along their sequences.                *)

\* Induction along the indices of a sequence.
LEMMA Along ==
    ASSUME NEW n \in Nat, NEW S, 0 \in S, \A k \in 1 .. n : k - 1 \in S => k \in S
    PROVE  \A k \in 0 .. n : k \in S
<1> DEFINE Bad == {k \in 0 .. n : k \notin S}
<1> SUFFICES ASSUME Bad # {} PROVE FALSE
  OBVIOUS
<1>1. Bad \subseteq Nat
  OBVIOUS
<1>2. PICK k \in Bad : \A j \in Bad : k <= j
  <2> HIDE DEF Bad
  <2> QED BY <1>1, Least
<1>3. k \in 1 .. n
  OBVIOUS
<1>4. k - 1 \notin Bad /\ k - 1 \in 0 .. n
  BY <1>2, <1>3
<1> QED BY <1>3, <1>4

\* The values of a fold along the sequence.
Traces(w, u, n, base, G) ==
    w[0] = base /\ w[n] = u[1 .. n] /\ \A k \in 1 .. n : w[k] = G[<<k, w[k - 1]>>]

\* A fold has a trace: its values after each element.
LEMMA FoldTrace ==
    ASSUME NEW n \in Nat, NEW V, NEW base, NEW G, NEW u \in [SUBSET (1 .. n) -> V],
           Builds(u, n, base, G)
    PROVE  \E w \in [0 .. n -> V] : Traces(w, u, n, base, G)
<1> DEFINE w == [k \in 0 .. n |-> u[1 .. k]]
<1>1. \A k \in 0 .. n : 1 .. k \in SUBSET (1 .. n)
  OBVIOUS
<1>2. w \in [0 .. n -> V]
  BY <1>1
<1>3. w[0] = base
  <2>1. 1 .. 0 = {}
    OBVIOUS
  <2>2. u[{}] = base
    BY DEF Builds
  <2> QED BY <2>1, <2>2
<1>4. ASSUME NEW k \in 1 .. n PROVE w[k] = G[<<k, w[k - 1]>>]
  <2>1. 1 .. k \in SUBSET (1 .. n) /\ 1 .. k # {} /\ k \in 1 .. k
    OBVIOUS
  <2>2. Max(1 .. k) \in 1 .. k /\ \A x \in 1 .. k : Max(1 .. k) >= x
    <3> DEFINE T == 1 .. k
    <3>1. T \subseteq 1 .. n /\ T # {}
      BY <2>1
    <3> HIDE DEF T
    <3>2. Max(T) \in T /\ \A x \in T : Max(T) >= x
      BY <3>1, MaxIs
    <3> QED BY <3>2 DEF T
  <2>3. Max(1 .. k) = k
    BY <2>1, <2>2
  <2>4. (1 .. k) \ {k} = 1 .. k - 1
    OBVIOUS
  <2>5. u[1 .. k] = G[<<k, u[1 .. k - 1]>>]
    BY <2>1, <2>3, <2>4 DEF Builds
  <2>6. k - 1 \in 0 .. n
    OBVIOUS
  <2> QED BY <2>5, <2>6
<1>5. w[n] = u[1 .. n]
  OBVIOUS
<1> HIDE DEF w
<1> QED BY <1>2, <1>3, <1>4, <1>5 DEF Traces

\* Texts: no space at an end.
TextOver(X) == {s \in Seq(X) : Stripped(s)}

\* " ".join of texts is a text.
LEMMA TextSpaced ==
    ASSUME NEW X, Space \in X, NEW s \in TextOver(X), NEW t \in TextOver(X)
    PROVE  Spaced(s, t) \in TextOver(X)
<1>1. s \in Seq(X) /\ Stripped(s) /\ t \in Seq(X) /\ Stripped(t)
  BY DEF TextOver
<1>2. Spaced(s, t) \in Seq(X) /\ Stripped(Spaced(s, t))
  BY <1>1, SpacedFacts
<1> QED BY <1>2 DEF TextOver

\* The empty text.
LEMMA TextEmpty == ASSUME NEW X PROVE <<>> \in TextOver(X)
BY DEF TextOver, Stripped

\* The end of a text, without the spaces it begins with.
LEMMA TextSuffix ==
    ASSUME NEW X, NEW s \in TextOver(X), NEW n \in Nat
    PROVE  StripLeft(Suffix(s, n)) \in TextOver(X) /\ Solid(StripLeft(Suffix(s, n))) \subseteq Solid(s)
<1> DEFINE a == IF Len(s) > n THEN Len(s) - n + 1 ELSE 1
           r == SubSeq(s, a, Len(s))
<1>1. s \in Seq(X) /\ Stripped(s)
  BY DEF TextOver
<1>2. a \in Nat \ {0} /\ a <= Len(s) + 1
  BY <1>1
<1>3. Suffix(s, n) = r
  BY DEF Suffix
<1> HIDE DEF a
<1>4. /\ r \in Seq(X) /\ Len(r) = Len(s) - a + 1
      /\ \A i \in 1 .. Len(r) : r[i] = s[a + i - 1] /\ a + i - 1 \in 1 .. Len(s)
  BY <1>1, <1>2
<1> HIDE DEF r
<1>5. r # <<>> => r[Len(r)] = s[Len(s)] /\ s # <<>>
  <2> SUFFICES ASSUME r # <<>> PROVE r[Len(r)] = s[Len(s)] /\ s # <<>>
    OBVIOUS
  <2>1. Len(r) # 0 /\ Len(r) \in Nat
    BY <1>4
  <2>2. Len(r) \in 1 .. Len(r) /\ a + Len(r) - 1 = Len(s) /\ Len(s) # 0
    BY <1>1, <1>2, <1>4, <2>1
  <2> QED BY <1>4, <2>2
<1>6. Solid(r) \subseteq Solid(s)
  BY <1>1, <1>4 DEF Solid
<1> DEFINE q == StripLeft(r)
<1>7. /\ q \in Seq(X) /\ Solid(q) = Solid(r)
      /\ q # <<>> => ~Blank(q[1]) /\ q[Len(q)] = r[Len(r)]
  BY <1>4, StripLeftFacts
<1>8. r = <<>> => q = <<>>
  BY DEF StripLeft
<1> HIDE DEF q
<1>9. Stripped(q)
  BY <1>1, <1>5, <1>7, <1>8 DEF Stripped
<1> QED BY <1>3, <1>6, <1>7, <1>9 DEF TextOver, q

SpacingTrace(w, s) ==
    /\ w[0] = <<>> /\ FoldLeft(Spaced, <<>>, s) = w[Len(s)]
    /\ \A k \in 1 .. Len(s) : w[k] = Spaced(w[k - 1], s[k])

\* Joining texts by spaces.
LEMMA Spacing ==
    ASSUME NEW X, Space \in X, NEW s \in Seq(TextOver(X))
    PROVE  \E w \in [0 .. Len(s) -> TextOver(X)] :
              SpacingTrace(w, s)
<1> DEFINE size == Len(s)
           V == TextOver(X)
           base == <<>>
           G == [p \in (1 .. size) \X V |-> Spaced(p[2], s[p[1]])]
           iter == CHOOSE f : f = [T \in SUBSET (1 .. size) |->
                      IF T = {} THEN base ELSE Spaced(f[T \ {Max(T)}], s[Max(T)])]
<1>1. size \in Nat /\ DOMAIN s = 1 .. size
  OBVIOUS
<1>2. base \in V /\ \A v \in V : \A i \in 1 .. size : Spaced(v, s[i]) \in V
  <2>1. \A i \in 1 .. size : s[i] \in TextOver(X)
    OBVIOUS
  <2> QED BY <2>1, TextEmpty, TextSpaced
<1>3. FoldLeft(Spaced, <<>>, s) = iter[1 .. size]
  BY <1>1, Zenon DEF FoldLeft, MapThenFoldSet
<1> HIDE DEF V, size, base
<1>4. G \in [(1 .. size) \X V -> V] /\ \A i \in 1 .. size : \A v \in V : G[<<i, v>>] = Spaced(v, s[i])
  BY <1>2
<1> HIDE DEF G
<1>5. PICK u \in [SUBSET (1 .. size) -> V] : Builds(u, size, base, G)
  BY <1>1, <1>2, <1>4, FoldExists
<1>6. ASSUME NEW T \in SUBSET (1 .. size)
      PROVE  u[T] = IF T = {} THEN base ELSE Spaced(u[T \ {Max(T)}], s[Max(T)])
  <2>1. T # {} => Max(T) \in 1 .. size /\ T \ {Max(T)} \in SUBSET (1 .. size)
    BY <1>1, Shrinks
  <2>2. T # {} => u[T \ {Max(T)}] \in V
    BY <2>1
  <2>3. u[T] = IF T = {} THEN base ELSE G[<<Max(T), u[T \ {Max(T)}]>>]
    BY <1>5 DEF Builds
  <2> QED BY <1>4, <2>1, <2>2, <2>3
<1>7. u = [T \in SUBSET (1 .. size) |-> IF T = {} THEN base ELSE Spaced(u[T \ {Max(T)}], s[Max(T)])]
  BY <1>6, Zenon
<1>8. iter = [T \in SUBSET (1 .. size) |-> IF T = {} THEN base ELSE Spaced(iter[T \ {Max(T)}], s[Max(T)])]
  BY <1>7
<1> HIDE DEF iter
<1>9. iter[1 .. size] = u[1 .. size]
  <2>1. iter[{}] = u[{}]
    BY <1>6, <1>8
  <2>2. \A T \in SUBSET (1 .. size) :
            T # {} /\ iter[T \ {Max(T)}] = u[T \ {Max(T)}] => iter[T] = u[T]
    BY <1>6, <1>8
  <2> QED BY <1>1, <2>1, <2>2, SameFold
<1>10. PICK w \in [0 .. size -> V] : Traces(w, u, size, base, G)
  BY <1>1, <1>4, <1>5, FoldTrace
<1>11. ASSUME NEW k \in 1 .. size PROVE w[k] = Spaced(w[k - 1], s[k])
  <2>1. w[k - 1] \in V
    BY <1>1
  <2>2. w[k] = G[<<k, w[k - 1]>>]
    BY <1>10 DEF Traces
  <2> QED BY <1>4, <2>1, <2>2
<1>12. SpacingTrace(w, s)
  BY <1>3, <1>9, <1>10, <1>11 DEF SpacingTrace, Traces, size, base
<1> QED BY <1>12 DEF size, V

AddingTrace(w, s) ==
    /\ w[0] = 0 /\ FoldLeft(LAMBDA n, m : n + m, 0, s) = w[Len(s)]
    /\ \A k \in 1 .. Len(s) : w[k] = w[k - 1] + s[k]

\* Adding up numbers.
LEMMA Adding ==
    ASSUME NEW s \in Seq(Nat)
    PROVE  \E w \in [0 .. Len(s) -> Nat] :
              AddingTrace(w, s)
<1> DEFINE size == Len(s)
           V == Nat
           base == 0
           G == [p \in (1 .. size) \X V |-> p[2] + s[p[1]]]
           iter == CHOOSE f : f = [T \in SUBSET (1 .. size) |->
                      IF T = {} THEN base ELSE f[T \ {Max(T)}] + s[Max(T)]]
<1>1. size \in Nat /\ DOMAIN s = 1 .. size
  OBVIOUS
<1>2. base \in V /\ \A v \in V : \A i \in 1 .. size : v + s[i] \in V
  OBVIOUS
<1>3. FoldLeft(LAMBDA n, m : n + m, 0, s) = iter[1 .. size]
  BY <1>1, Zenon DEF FoldLeft, MapThenFoldSet
<1> HIDE DEF V, size, base
<1>4. G \in [(1 .. size) \X V -> V] /\ \A i \in 1 .. size : \A v \in V : G[<<i, v>>] = v + s[i]
  BY <1>2
<1> HIDE DEF G
<1>5. PICK u \in [SUBSET (1 .. size) -> V] : Builds(u, size, base, G)
  BY <1>1, <1>2, <1>4, FoldExists
<1>6. ASSUME NEW T \in SUBSET (1 .. size)
      PROVE  u[T] = IF T = {} THEN base ELSE u[T \ {Max(T)}] + s[Max(T)]
  <2>1. T # {} => Max(T) \in 1 .. size /\ T \ {Max(T)} \in SUBSET (1 .. size)
    BY <1>1, Shrinks
  <2>2. T # {} => u[T \ {Max(T)}] \in V
    BY <2>1
  <2>3. u[T] = IF T = {} THEN base ELSE G[<<Max(T), u[T \ {Max(T)}]>>]
    BY <1>5 DEF Builds
  <2> QED BY <1>4, <2>1, <2>2, <2>3
<1>7. u = [T \in SUBSET (1 .. size) |-> IF T = {} THEN base ELSE u[T \ {Max(T)}] + s[Max(T)]]
  BY <1>6, Zenon
<1>8. iter = [T \in SUBSET (1 .. size) |-> IF T = {} THEN base ELSE iter[T \ {Max(T)}] + s[Max(T)]]
  BY <1>7
<1> HIDE DEF iter
<1>9. iter[1 .. size] = u[1 .. size]
  <2>1. iter[{}] = u[{}]
    BY <1>6, <1>8
  <2>2. \A T \in SUBSET (1 .. size) :
            T # {} /\ iter[T \ {Max(T)}] = u[T \ {Max(T)}] => iter[T] = u[T]
    BY <1>6, <1>8
  <2> QED BY <1>1, <2>1, <2>2, SameFold
<1>10. PICK w \in [0 .. size -> V] : Traces(w, u, size, base, G)
  BY <1>1, <1>4, <1>5, FoldTrace
<1>11. ASSUME NEW k \in 1 .. size PROVE w[k] = w[k - 1] + s[k]
  <2>1. w[k - 1] \in V
    BY <1>1
  <2>2. w[k] = G[<<k, w[k - 1]>>]
    BY <1>10 DEF Traces
  <2> QED BY <1>4, <2>1, <2>2
<1>12. AddingTrace(w, s)
  BY <1>3, <1>9, <1>10, <1>11 DEF AddingTrace, Traces, size, base
<1> QED BY <1>12 DEF size, V

KeepingTrace(w, s) ==
    /\ w[0] = <<>> /\ FoldLeft(LAMBDA ds, b : IF UsableOcrBlock(b.counts) THEN Append(ds, b) ELSE ds, <<>>, s) = w[Len(s)]
    /\ \A k \in 1 .. Len(s) : w[k] = (IF UsableOcrBlock(s[k].counts) THEN Append(w[k - 1], s[k]) ELSE w[k - 1])

\* Keeping the usable blocks.
LEMMA Keeping ==
    ASSUME NEW R, NEW s \in Seq(R)
    PROVE  \E w \in [0 .. Len(s) -> Seq(R)] :
              KeepingTrace(w, s)
<1> DEFINE size == Len(s)
           V == Seq(R)
           base == <<>>
           G == [p \in (1 .. size) \X V |-> (IF UsableOcrBlock(s[p[1]].counts) THEN Append(p[2], s[p[1]]) ELSE p[2])]
           iter == CHOOSE f : f = [T \in SUBSET (1 .. size) |->
                      IF T = {} THEN base ELSE (IF UsableOcrBlock(s[Max(T)].counts) THEN Append(f[T \ {Max(T)}], s[Max(T)]) ELSE f[T \ {Max(T)}])]
<1>1. size \in Nat /\ DOMAIN s = 1 .. size
  OBVIOUS
<1>2. base \in V /\ \A v \in V : \A i \in 1 .. size : (IF UsableOcrBlock(s[i].counts) THEN Append(v, s[i]) ELSE v) \in V
  <2>1. \A i \in 1 .. size : s[i] \in R
    OBVIOUS
  <2> QED BY <2>1
<1>3. FoldLeft(LAMBDA ds, b : IF UsableOcrBlock(b.counts) THEN Append(ds, b) ELSE ds, <<>>, s) = iter[1 .. size]
  BY <1>1, Zenon DEF FoldLeft, MapThenFoldSet
<1> HIDE DEF V, size, base
<1>4. G \in [(1 .. size) \X V -> V] /\ \A i \in 1 .. size : \A v \in V : G[<<i, v>>] = (IF UsableOcrBlock(s[i].counts) THEN Append(v, s[i]) ELSE v)
  BY <1>2
<1> HIDE DEF G
<1>5. PICK u \in [SUBSET (1 .. size) -> V] : Builds(u, size, base, G)
  BY <1>1, <1>2, <1>4, FoldExists
<1>6. ASSUME NEW T \in SUBSET (1 .. size)
      PROVE  u[T] = IF T = {} THEN base ELSE (IF UsableOcrBlock(s[Max(T)].counts) THEN Append(u[T \ {Max(T)}], s[Max(T)]) ELSE u[T \ {Max(T)}])
  <2>1. T # {} => Max(T) \in 1 .. size /\ T \ {Max(T)} \in SUBSET (1 .. size)
    BY <1>1, Shrinks
  <2>2. T # {} => u[T \ {Max(T)}] \in V
    BY <2>1
  <2>3. u[T] = IF T = {} THEN base ELSE G[<<Max(T), u[T \ {Max(T)}]>>]
    BY <1>5 DEF Builds
  <2> QED BY <1>4, <2>1, <2>2, <2>3
<1>7. u = [T \in SUBSET (1 .. size) |-> IF T = {} THEN base ELSE (IF UsableOcrBlock(s[Max(T)].counts) THEN Append(u[T \ {Max(T)}], s[Max(T)]) ELSE u[T \ {Max(T)}])]
  BY <1>6, Zenon
<1>8. iter = [T \in SUBSET (1 .. size) |-> IF T = {} THEN base ELSE (IF UsableOcrBlock(s[Max(T)].counts) THEN Append(iter[T \ {Max(T)}], s[Max(T)]) ELSE iter[T \ {Max(T)}])]
  BY <1>7
<1> HIDE DEF iter
<1>9. iter[1 .. size] = u[1 .. size]
  <2>1. iter[{}] = u[{}]
    BY <1>6, <1>8
  <2>2. \A T \in SUBSET (1 .. size) :
            T # {} /\ iter[T \ {Max(T)}] = u[T \ {Max(T)}] => iter[T] = u[T]
    BY <1>6, <1>8
  <2> QED BY <1>1, <2>1, <2>2, SameFold
<1>10. PICK w \in [0 .. size -> V] : Traces(w, u, size, base, G)
  BY <1>1, <1>4, <1>5, FoldTrace
<1>11. ASSUME NEW k \in 1 .. size PROVE w[k] = (IF UsableOcrBlock(s[k].counts) THEN Append(w[k - 1], s[k]) ELSE w[k - 1])
  <2>1. w[k - 1] \in V
    BY <1>1
  <2>2. w[k] = G[<<k, w[k - 1]>>]
    BY <1>10 DEF Traces
  <2> QED BY <1>4, <2>1, <2>2
<1>12. KeepingTrace(w, s)
  BY <1>3, <1>9, <1>10, <1>11 DEF KeepingTrace, Traces, size, base
<1> QED BY <1>12 DEF size, V

\* Packing a sentence yields pieces that are texts.
LEMMA PackStays ==
    ASSUME NEW X, Space \in X
    PROVE  /\ NothingYet \in [done : Seq(TextOver(X)), now : TextOver(X)]
           /\ \A acc \in [done : Seq(TextOver(X)), now : TextOver(X)] : \A s \in TextOver(X) :
                 Pack(acc, s) \in [done : Seq(TextOver(X)), now : TextOver(X)]
<1>1. NothingYet \in [done : Seq(TextOver(X)), now : TextOver(X)]
  BY TextEmpty DEF NothingYet
<1>2. ASSUME NEW acc \in [done : Seq(TextOver(X)), now : TextOver(X)], NEW s \in TextOver(X)
      PROVE  Pack(acc, s) \in [done : Seq(TextOver(X)), now : TextOver(X)]
  <2>1. acc.done \in Seq(TextOver(X)) /\ acc.now \in TextOver(X)
    OBVIOUS
  <2>2. Spaced(acc.now, s) \in TextOver(X)
    BY <2>1, TextSpaced
  <2> DEFINE tail == IF Overlap = 0 THEN <<>> ELSE StripLeft(Suffix(acc.now, Overlap))
  <2>3. tail \in TextOver(X)
    BY <2>1, TextEmpty, TextSuffix, ChunkAssumption
  <2>4. Spaced(tail, s) \in TextOver(X)
    <3> HIDE DEF tail
    <3> QED BY <2>3, TextSpaced
  <2>5. Append(acc.done, acc.now) \in Seq(TextOver(X))
    BY <2>1
  <2> QED BY <2>1, <2>2, <2>4, <2>5 DEF Pack
<1> QED BY <1>1, <1>2

PackingTrace(w, s) ==
    /\ w[0] = NothingYet /\ FoldLeft(Pack, NothingYet, s) = w[Len(s)]
    /\ \A k \in 1 .. Len(s) : w[k] = Pack(w[k - 1], s[k])

\* Packing sentences.
LEMMA Packing ==
    ASSUME NEW X, Space \in X, NEW s \in Seq(TextOver(X))
    PROVE  \E w \in [0 .. Len(s) -> [done : Seq(TextOver(X)), now : TextOver(X)]] :
              PackingTrace(w, s)
<1> DEFINE size == Len(s)
           V == [done : Seq(TextOver(X)), now : TextOver(X)]
           base == NothingYet
           G == [p \in (1 .. size) \X V |-> Pack(p[2], s[p[1]])]
           iter == CHOOSE f : f = [T \in SUBSET (1 .. size) |->
                      IF T = {} THEN base ELSE Pack(f[T \ {Max(T)}], s[Max(T)])]
<1>1. size \in Nat /\ DOMAIN s = 1 .. size
  OBVIOUS
<1>2. base \in V /\ \A v \in V : \A i \in 1 .. size : Pack(v, s[i]) \in V
  <2>1. \A i \in 1 .. size : s[i] \in TextOver(X)
    OBVIOUS
  <2> QED BY <2>1, PackStays
<1>3. FoldLeft(Pack, NothingYet, s) = iter[1 .. size]
  BY <1>1, Zenon DEF FoldLeft, MapThenFoldSet
<1> HIDE DEF V, size, base
<1>4. G \in [(1 .. size) \X V -> V] /\ \A i \in 1 .. size : \A v \in V : G[<<i, v>>] = Pack(v, s[i])
  BY <1>2
<1> HIDE DEF G
<1>5. PICK u \in [SUBSET (1 .. size) -> V] : Builds(u, size, base, G)
  BY <1>1, <1>2, <1>4, FoldExists
<1>6. ASSUME NEW T \in SUBSET (1 .. size)
      PROVE  u[T] = IF T = {} THEN base ELSE Pack(u[T \ {Max(T)}], s[Max(T)])
  <2>1. T # {} => Max(T) \in 1 .. size /\ T \ {Max(T)} \in SUBSET (1 .. size)
    BY <1>1, Shrinks
  <2>2. T # {} => u[T \ {Max(T)}] \in V
    BY <2>1
  <2>3. u[T] = IF T = {} THEN base ELSE G[<<Max(T), u[T \ {Max(T)}]>>]
    BY <1>5 DEF Builds
  <2> QED BY <1>4, <2>1, <2>2, <2>3
<1>7. u = [T \in SUBSET (1 .. size) |-> IF T = {} THEN base ELSE Pack(u[T \ {Max(T)}], s[Max(T)])]
  BY <1>6, Zenon
<1>8. iter = [T \in SUBSET (1 .. size) |-> IF T = {} THEN base ELSE Pack(iter[T \ {Max(T)}], s[Max(T)])]
  BY <1>7
<1> HIDE DEF iter
<1>9. iter[1 .. size] = u[1 .. size]
  <2>1. iter[{}] = u[{}]
    BY <1>6, <1>8
  <2>2. \A T \in SUBSET (1 .. size) :
            T # {} /\ iter[T \ {Max(T)}] = u[T \ {Max(T)}] => iter[T] = u[T]
    BY <1>6, <1>8
  <2> QED BY <1>1, <2>1, <2>2, SameFold
<1>10. PICK w \in [0 .. size -> V] : Traces(w, u, size, base, G)
  BY <1>1, <1>4, <1>5, FoldTrace
<1>11. ASSUME NEW k \in 1 .. size PROVE w[k] = Pack(w[k - 1], s[k])
  <2>1. w[k - 1] \in V
    BY <1>1
  <2>2. w[k] = G[<<k, w[k - 1]>>]
    BY <1>10 DEF Traces
  <2> QED BY <1>4, <2>1, <2>2
<1>12. PackingTrace(w, s)
  BY <1>3, <1>9, <1>10, <1>11 DEF PackingTrace, Traces, size, base
<1> QED BY <1>12 DEF size, V

WindowingTrace(w, s) ==
    /\ w[0] = <<>> /\ FoldLeft(LAMBDA ps, p : IF p # <<>> THEN Append(ps, p) ELSE ps, <<>>, s) = w[Len(s)]
    /\ \A k \in 1 .. Len(s) : w[k] = (IF s[k] # <<>> THEN Append(w[k - 1], s[k]) ELSE w[k - 1])

\* Keeping what is not empty.
LEMMA Windowing ==
    ASSUME NEW A, NEW s \in Seq(A)
    PROVE  \E w \in [0 .. Len(s) -> Seq(A)] :
              WindowingTrace(w, s)
<1> DEFINE size == Len(s)
           V == Seq(A)
           base == <<>>
           G == [p \in (1 .. size) \X V |-> (IF s[p[1]] # <<>> THEN Append(p[2], s[p[1]]) ELSE p[2])]
           iter == CHOOSE f : f = [T \in SUBSET (1 .. size) |->
                      IF T = {} THEN base ELSE (IF s[Max(T)] # <<>> THEN Append(f[T \ {Max(T)}], s[Max(T)]) ELSE f[T \ {Max(T)}])]
<1>1. size \in Nat /\ DOMAIN s = 1 .. size
  OBVIOUS
<1>2. base \in V /\ \A v \in V : \A i \in 1 .. size : (IF s[i] # <<>> THEN Append(v, s[i]) ELSE v) \in V
  <2>1. \A i \in 1 .. size : s[i] \in A
    OBVIOUS
  <2> QED BY <2>1
<1>3. FoldLeft(LAMBDA ps, p : IF p # <<>> THEN Append(ps, p) ELSE ps, <<>>, s) = iter[1 .. size]
  BY <1>1, Zenon DEF FoldLeft, MapThenFoldSet
<1> HIDE DEF V, size, base
<1>4. G \in [(1 .. size) \X V -> V] /\ \A i \in 1 .. size : \A v \in V : G[<<i, v>>] = (IF s[i] # <<>> THEN Append(v, s[i]) ELSE v)
  BY <1>2
<1> HIDE DEF G
<1>5. PICK u \in [SUBSET (1 .. size) -> V] : Builds(u, size, base, G)
  BY <1>1, <1>2, <1>4, FoldExists
<1>6. ASSUME NEW T \in SUBSET (1 .. size)
      PROVE  u[T] = IF T = {} THEN base ELSE (IF s[Max(T)] # <<>> THEN Append(u[T \ {Max(T)}], s[Max(T)]) ELSE u[T \ {Max(T)}])
  <2>1. T # {} => Max(T) \in 1 .. size /\ T \ {Max(T)} \in SUBSET (1 .. size)
    BY <1>1, Shrinks
  <2>2. T # {} => u[T \ {Max(T)}] \in V
    BY <2>1
  <2>3. u[T] = IF T = {} THEN base ELSE G[<<Max(T), u[T \ {Max(T)}]>>]
    BY <1>5 DEF Builds
  <2> QED BY <1>4, <2>1, <2>2, <2>3
<1>7. u = [T \in SUBSET (1 .. size) |-> IF T = {} THEN base ELSE (IF s[Max(T)] # <<>> THEN Append(u[T \ {Max(T)}], s[Max(T)]) ELSE u[T \ {Max(T)}])]
  BY <1>6, Zenon
<1>8. iter = [T \in SUBSET (1 .. size) |-> IF T = {} THEN base ELSE (IF s[Max(T)] # <<>> THEN Append(iter[T \ {Max(T)}], s[Max(T)]) ELSE iter[T \ {Max(T)}])]
  BY <1>7
<1> HIDE DEF iter
<1>9. iter[1 .. size] = u[1 .. size]
  <2>1. iter[{}] = u[{}]
    BY <1>6, <1>8
  <2>2. \A T \in SUBSET (1 .. size) :
            T # {} /\ iter[T \ {Max(T)}] = u[T \ {Max(T)}] => iter[T] = u[T]
    BY <1>6, <1>8
  <2> QED BY <1>1, <2>1, <2>2, SameFold
<1>10. PICK w \in [0 .. size -> V] : Traces(w, u, size, base, G)
  BY <1>1, <1>4, <1>5, FoldTrace
<1>11. ASSUME NEW k \in 1 .. size PROVE w[k] = (IF s[k] # <<>> THEN Append(w[k - 1], s[k]) ELSE w[k - 1])
  <2>1. w[k - 1] \in V
    BY <1>1
  <2>2. w[k] = G[<<k, w[k - 1]>>]
    BY <1>10 DEF Traces
  <2> QED BY <1>4, <2>1, <2>2
<1>12. WindowingTrace(w, s)
  BY <1>3, <1>9, <1>10, <1>11 DEF WindowingTrace, Traces, size, base
<1> QED BY <1>12 DEF size, V

\* The end of a list of pieces.
LEMMA SuffixFacts ==
    ASSUME NEW A, NEW s \in Seq(A), NEW n \in Nat
    PROVE  Suffix(s, n) \in Seq(A)
<1> DEFINE a == IF Len(s) > n THEN Len(s) - n + 1 ELSE 1
<1>1. a \in Nat \ {0}
  OBVIOUS
<1> HIDE DEF a
<1>2. SubSeq(s, a, Len(s)) \in Seq(A)
  BY <1>1
<1> QED BY <1>2 DEF Suffix, a

\* The overlap is a part of the texts before it.
LEMMA OverlapStays ==
    ASSUME NEW A, NEW texts \in Seq(A), NEW t
    PROVE  OverlapBlocks(texts) \in Seq(A) /\ Trim(texts, t) \in Seq(A)
<1>1. OverlapBlocks(texts) \in Seq(A)
  <2> DEFINE fits == {1} \cup {k \in DOMAIN texts :
                  TotalLength(Suffix(texts, k)) <= Overlap}
             m == CHOOSE k \in fits : \A j \in fits : j <= k
  <2>0. DOMAIN texts = 1 .. Len(texts) /\ Len(texts) \in Nat
    OBVIOUS
  <2>1. fits \subseteq 0 .. Len(texts) + 1 /\ fits # {}
    BY <2>0
  <2> HIDE DEF fits
  <2>2. \E k \in fits : \A j \in fits : k >= j
    <3> DEFINE top == Len(texts) + 1
    <3>1. top \in Nat /\ fits \subseteq 0 .. top
      BY <2>0, <2>1
    <3> HIDE DEF top
    <3> QED BY <2>1, <3>1, Greatest
  <2>3. \E k \in fits : \A j \in fits : j <= k
    BY <2>0, <2>1, <2>2
  <2>4. m \in fits
    BY <2>3
  <2> HIDE DEF m
  <2>5. m \in Nat
    BY <2>0, <2>1, <2>4
  <2>6. Suffix(texts, m) \in Seq(A)
    BY <2>5, SuffixFacts
  <2>7. OverlapBlocks(texts) = IF Overlap = 0 THEN <<>> ELSE Suffix(texts, m)
    BY DEF OverlapBlocks, m, fits
  <2> QED BY <2>6, <2>7
<1>2. Trim(texts, t) \in Seq(A)
  <2> DEFINE fits == {k \in 0 .. Len(texts) :
                  k = 0 \/ JoinedLength(Append(Suffix(texts, k), t)) <= ChunkSize}
             m == CHOOSE k \in fits : \A j \in fits : j <= k
  <2>0. Len(texts) \in Nat
    OBVIOUS
  <2>1. fits \subseteq 0 .. Len(texts) /\ fits # {}
    <3>1. 0 \in fits
      BY <2>0
    <3> QED BY <3>1
  <2> HIDE DEF fits
  <2>2. \E k \in fits : \A j \in fits : k >= j
    <3> DEFINE top == Len(texts)
    <3>1. top \in Nat /\ fits \subseteq 0 .. top
      BY <2>0, <2>1
    <3> HIDE DEF top
    <3> QED BY <2>1, <3>1, Greatest
  <2>3. \E k \in fits : \A j \in fits : j <= k
    BY <2>0, <2>1, <2>2
  <2>4. m \in fits
    BY <2>3
  <2> HIDE DEF m
  <2>5. m \in Nat
    BY <2>0, <2>1, <2>4
  <2>6. Suffix(texts, m) \in Seq(A)
    BY <2>5, SuffixFacts
  <2> QED BY <2>6 DEF Trim, m, fits
<1> QED BY <1>1, <1>2

\* Collecting a piece yields texts again.
LEMMA AddPieceStays ==
    ASSUME NEW A
    PROVE  /\ NothingYet \in [done : Seq(Seq(A) \ {<<>>}), now : Seq(A)]
           /\ \A acc \in [done : Seq(Seq(A) \ {<<>>}), now : Seq(A)] : \A t \in A :
                 AddPiece(acc, t) \in [done : Seq(Seq(A) \ {<<>>}), now : Seq(A)]
<1>1. NothingYet \in [done : Seq(Seq(A) \ {<<>>}), now : Seq(A)]
  BY DEF NothingYet
<1>2. ASSUME NEW acc \in [done : Seq(Seq(A) \ {<<>>}), now : Seq(A)], NEW t \in A
      PROVE  AddPiece(acc, t) \in [done : Seq(Seq(A) \ {<<>>}), now : Seq(A)]
  <2> DEFINE D == Seq(A) \ {<<>>}
  <2>1. acc.done \in Seq(D) /\ acc.now \in Seq(A) /\ Append(acc.now, t) \in Seq(A)
    OBVIOUS
  <2>2. Append(Trim(OverlapBlocks(acc.now), t), t) \in Seq(A)
    <3>1. Trim(OverlapBlocks(acc.now), t) \in Seq(A)
      BY <2>1, OverlapStays
    <3> QED BY <3>1
  <2>3. acc.now # <<>> => Append(acc.done, acc.now) \in Seq(D)
    <3>1. acc.now # <<>> => acc.now \in D
      BY <2>1
    <3> HIDE DEF D
    <3> QED BY <2>1, <3>1
  <2> QED BY <2>1, <2>2, <2>3 DEF AddPiece
<1> QED BY <1>1, <1>2

PiecingTrace(w, s) ==
    /\ w[0] = NothingYet /\ FoldLeft(AddPiece, NothingYet, s) = w[Len(s)]
    /\ \A k \in 1 .. Len(s) : w[k] = AddPiece(w[k - 1], s[k])

\* Filling chunks with pieces.
LEMMA Piecing ==
    ASSUME NEW A, NEW s \in Seq(A)
    PROVE  \E w \in [0 .. Len(s) -> [done : Seq(Seq(A) \ {<<>>}), now : Seq(A)]] :
              PiecingTrace(w, s)
<1> DEFINE size == Len(s)
           V == [done : Seq(Seq(A) \ {<<>>}), now : Seq(A)]
           base == NothingYet
           G == [p \in (1 .. size) \X V |-> AddPiece(p[2], s[p[1]])]
           iter == CHOOSE f : f = [T \in SUBSET (1 .. size) |->
                      IF T = {} THEN base ELSE AddPiece(f[T \ {Max(T)}], s[Max(T)])]
<1>1. size \in Nat /\ DOMAIN s = 1 .. size
  OBVIOUS
<1>2. base \in V /\ \A v \in V : \A i \in 1 .. size : AddPiece(v, s[i]) \in V
  <2>1. \A i \in 1 .. size : s[i] \in A
    OBVIOUS
  <2> QED BY <2>1, AddPieceStays
<1>3. FoldLeft(AddPiece, NothingYet, s) = iter[1 .. size]
  BY <1>1, Zenon DEF FoldLeft, MapThenFoldSet
<1> HIDE DEF V, size, base
<1>4. G \in [(1 .. size) \X V -> V] /\ \A i \in 1 .. size : \A v \in V : G[<<i, v>>] = AddPiece(v, s[i])
  BY <1>2
<1> HIDE DEF G
<1>5. PICK u \in [SUBSET (1 .. size) -> V] : Builds(u, size, base, G)
  BY <1>1, <1>2, <1>4, FoldExists
<1>6. ASSUME NEW T \in SUBSET (1 .. size)
      PROVE  u[T] = IF T = {} THEN base ELSE AddPiece(u[T \ {Max(T)}], s[Max(T)])
  <2>1. T # {} => Max(T) \in 1 .. size /\ T \ {Max(T)} \in SUBSET (1 .. size)
    BY <1>1, Shrinks
  <2>2. T # {} => u[T \ {Max(T)}] \in V
    BY <2>1
  <2>3. u[T] = IF T = {} THEN base ELSE G[<<Max(T), u[T \ {Max(T)}]>>]
    BY <1>5 DEF Builds
  <2> QED BY <1>4, <2>1, <2>2, <2>3
<1>7. u = [T \in SUBSET (1 .. size) |-> IF T = {} THEN base ELSE AddPiece(u[T \ {Max(T)}], s[Max(T)])]
  BY <1>6, Zenon
<1>8. iter = [T \in SUBSET (1 .. size) |-> IF T = {} THEN base ELSE AddPiece(iter[T \ {Max(T)}], s[Max(T)])]
  BY <1>7
<1> HIDE DEF iter
<1>9. iter[1 .. size] = u[1 .. size]
  <2>1. iter[{}] = u[{}]
    BY <1>6, <1>8
  <2>2. \A T \in SUBSET (1 .. size) :
            T # {} /\ iter[T \ {Max(T)}] = u[T \ {Max(T)}] => iter[T] = u[T]
    BY <1>6, <1>8
  <2> QED BY <1>1, <2>1, <2>2, SameFold
<1>10. PICK w \in [0 .. size -> V] : Traces(w, u, size, base, G)
  BY <1>1, <1>4, <1>5, FoldTrace
<1>11. ASSUME NEW k \in 1 .. size PROVE w[k] = AddPiece(w[k - 1], s[k])
  <2>1. w[k - 1] \in V
    BY <1>1
  <2>2. w[k] = G[<<k, w[k - 1]>>]
    BY <1>10 DEF Traces
  <2> QED BY <1>4, <2>1, <2>2
<1>12. PiecingTrace(w, s)
  BY <1>3, <1>9, <1>10, <1>11 DEF PiecingTrace, Traces, size, base
<1> QED BY <1>12 DEF size, V

\* Grouping a block yields groups again.
LEMMA AddToGroupStays ==
    ASSUME NEW B
    PROVE  \A gs \in Seq(Seq(B) \ {<<>>}) : \A b \in B : AddToGroup(gs, b) \in Seq(Seq(B) \ {<<>>})
<1> SUFFICES ASSUME NEW gs \in Seq(Seq(B) \ {<<>>}), NEW b \in B
             PROVE  AddToGroup(gs, b) \in Seq(Seq(B) \ {<<>>})
  OBVIOUS
<1> DEFINE D == Seq(B) \ {<<>>}
<1>1. <<b>> \in D
  <2>1. <<b>> \in Seq(B) /\ Len(<<b>>) = 1 /\ Len(<<>>) = 0
    OBVIOUS
  <2> QED BY <2>1
<1>2. gs # <<>> => Append(Last(gs), b) \in D
  <2> SUFFICES ASSUME gs # <<>> PROVE Append(Last(gs), b) \in D
    OBVIOUS
  <2>1. Last(gs) \in D
    <3> HIDE DEF D
    <3>1. gs \in Seq(D)
      BY DEF D
    <3> QED BY <3>1 DEF Last
  <2> DEFINE l == Last(gs)
  <2>2. l \in Seq(B)
    BY <2>1
  <2> HIDE DEF l
  <2>3. Append(l, b) \in Seq(B) /\ Len(Append(l, b)) = Len(l) + 1 /\ Len(l) \in Nat
    BY <2>2
  <2>4. Append(l, b) # <<>>
    BY <2>3
  <2> QED BY <2>3, <2>4 DEF l
<1> HIDE DEF D
<1>3. gs \in Seq(D)
  BY DEF D
<1>4. Append(gs, <<b>>) \in Seq(D)
  BY <1>1, <1>3
<1>5. gs # <<>> => Append(Front(gs), Append(Last(gs), b)) \in Seq(D)
  <2> SUFFICES ASSUME gs # <<>> PROVE Append(Front(gs), Append(Last(gs), b)) \in Seq(D)
    OBVIOUS
  <2>1. Front(gs) \in Seq(D)
    BY <1>3 DEF Front
  <2> QED BY <1>2, <2>1
<1>6. AddToGroup(gs, b) \in Seq(D)
  BY <1>4, <1>5 DEF AddToGroup
<1> QED BY <1>6 DEF D

GroupingTrace(w, s) ==
    /\ w[0] = <<>> /\ FoldLeft(AddToGroup, <<>>, s) = w[Len(s)]
    /\ \A k \in 1 .. Len(s) : w[k] = AddToGroup(w[k - 1], s[k])

\* Grouping the blocks of a section.
LEMMA Grouping ==
    ASSUME NEW B, NEW s \in Seq(B)
    PROVE  \E w \in [0 .. Len(s) -> Seq(Seq(B) \ {<<>>})] :
              GroupingTrace(w, s)
<1> DEFINE size == Len(s)
           V == Seq(Seq(B) \ {<<>>})
           base == <<>>
           G == [p \in (1 .. size) \X V |-> AddToGroup(p[2], s[p[1]])]
           iter == CHOOSE f : f = [T \in SUBSET (1 .. size) |->
                      IF T = {} THEN base ELSE AddToGroup(f[T \ {Max(T)}], s[Max(T)])]
<1>1. size \in Nat /\ DOMAIN s = 1 .. size
  OBVIOUS
<1>2. base \in V /\ \A v \in V : \A i \in 1 .. size : AddToGroup(v, s[i]) \in V
  <2>1. \A i \in 1 .. size : s[i] \in B
    OBVIOUS
  <2>2. <<>> \in V
    OBVIOUS
  <2> QED BY <2>1, <2>2, AddToGroupStays
<1>3. FoldLeft(AddToGroup, <<>>, s) = iter[1 .. size]
  BY <1>1, Zenon DEF FoldLeft, MapThenFoldSet
<1> HIDE DEF V, size, base
<1>4. G \in [(1 .. size) \X V -> V] /\ \A i \in 1 .. size : \A v \in V : G[<<i, v>>] = AddToGroup(v, s[i])
  BY <1>2
<1> HIDE DEF G
<1>5. PICK u \in [SUBSET (1 .. size) -> V] : Builds(u, size, base, G)
  BY <1>1, <1>2, <1>4, FoldExists
<1>6. ASSUME NEW T \in SUBSET (1 .. size)
      PROVE  u[T] = IF T = {} THEN base ELSE AddToGroup(u[T \ {Max(T)}], s[Max(T)])
  <2>1. T # {} => Max(T) \in 1 .. size /\ T \ {Max(T)} \in SUBSET (1 .. size)
    BY <1>1, Shrinks
  <2>2. T # {} => u[T \ {Max(T)}] \in V
    BY <2>1
  <2>3. u[T] = IF T = {} THEN base ELSE G[<<Max(T), u[T \ {Max(T)}]>>]
    BY <1>5 DEF Builds
  <2> QED BY <1>4, <2>1, <2>2, <2>3
<1>7. u = [T \in SUBSET (1 .. size) |-> IF T = {} THEN base ELSE AddToGroup(u[T \ {Max(T)}], s[Max(T)])]
  BY <1>6, Zenon
<1>8. iter = [T \in SUBSET (1 .. size) |-> IF T = {} THEN base ELSE AddToGroup(iter[T \ {Max(T)}], s[Max(T)])]
  BY <1>7
<1> HIDE DEF iter
<1>9. iter[1 .. size] = u[1 .. size]
  <2>1. iter[{}] = u[{}]
    BY <1>6, <1>8
  <2>2. \A T \in SUBSET (1 .. size) :
            T # {} /\ iter[T \ {Max(T)}] = u[T \ {Max(T)}] => iter[T] = u[T]
    BY <1>6, <1>8
  <2> QED BY <1>1, <2>1, <2>2, SameFold
<1>10. PICK w \in [0 .. size -> V] : Traces(w, u, size, base, G)
  BY <1>1, <1>4, <1>5, FoldTrace
<1>11. ASSUME NEW k \in 1 .. size PROVE w[k] = AddToGroup(w[k - 1], s[k])
  <2>1. w[k - 1] \in V
    BY <1>1
  <2>2. w[k] = G[<<k, w[k - 1]>>]
    BY <1>10 DEF Traces
  <2> QED BY <1>4, <2>1, <2>2
<1>12. GroupingTrace(w, s)
  BY <1>3, <1>9, <1>10, <1>11 DEF GroupingTrace, Traces, size, base
<1> QED BY <1>12 DEF size, V

MergingTrace(w, s) ==
    /\ w[0] = <<>> /\ FoldLeft(AddParagraph, <<>>, s) = w[Len(s)]
    /\ \A k \in 1 .. Len(s) : w[k] = AddParagraph(w[k - 1], s[k])

\* Merging paragraphs.
LEMMA Merging ==
    ASSUME NEW A, NEW s \in Seq(A)
    PROVE  \E w \in [0 .. Len(s) -> Seq(A)] :
              MergingTrace(w, s)
<1> DEFINE size == Len(s)
           V == Seq(A)
           base == <<>>
           G == [p \in (1 .. size) \X V |-> AddParagraph(p[2], s[p[1]])]
           iter == CHOOSE f : f = [T \in SUBSET (1 .. size) |->
                      IF T = {} THEN base ELSE AddParagraph(f[T \ {Max(T)}], s[Max(T)])]
<1>1. size \in Nat /\ DOMAIN s = 1 .. size
  OBVIOUS
<1>2. base \in V /\ \A v \in V : \A i \in 1 .. size : AddParagraph(v, s[i]) \in V
  <2>1. \A i \in 1 .. size : s[i] \in A
    OBVIOUS
  <2> QED BY <2>1 DEF AddParagraph
<1>3. FoldLeft(AddParagraph, <<>>, s) = iter[1 .. size]
  BY <1>1, Zenon DEF FoldLeft, MapThenFoldSet
<1> HIDE DEF V, size, base
<1>4. G \in [(1 .. size) \X V -> V] /\ \A i \in 1 .. size : \A v \in V : G[<<i, v>>] = AddParagraph(v, s[i])
  BY <1>2
<1> HIDE DEF G
<1>5. PICK u \in [SUBSET (1 .. size) -> V] : Builds(u, size, base, G)
  BY <1>1, <1>2, <1>4, FoldExists
<1>6. ASSUME NEW T \in SUBSET (1 .. size)
      PROVE  u[T] = IF T = {} THEN base ELSE AddParagraph(u[T \ {Max(T)}], s[Max(T)])
  <2>1. T # {} => Max(T) \in 1 .. size /\ T \ {Max(T)} \in SUBSET (1 .. size)
    BY <1>1, Shrinks
  <2>2. T # {} => u[T \ {Max(T)}] \in V
    BY <2>1
  <2>3. u[T] = IF T = {} THEN base ELSE G[<<Max(T), u[T \ {Max(T)}]>>]
    BY <1>5 DEF Builds
  <2> QED BY <1>4, <2>1, <2>2, <2>3
<1>7. u = [T \in SUBSET (1 .. size) |-> IF T = {} THEN base ELSE AddParagraph(u[T \ {Max(T)}], s[Max(T)])]
  BY <1>6, Zenon
<1>8. iter = [T \in SUBSET (1 .. size) |-> IF T = {} THEN base ELSE AddParagraph(iter[T \ {Max(T)}], s[Max(T)])]
  BY <1>7
<1> HIDE DEF iter
<1>9. iter[1 .. size] = u[1 .. size]
  <2>1. iter[{}] = u[{}]
    BY <1>6, <1>8
  <2>2. \A T \in SUBSET (1 .. size) :
            T # {} /\ iter[T \ {Max(T)}] = u[T \ {Max(T)}] => iter[T] = u[T]
    BY <1>6, <1>8
  <2> QED BY <1>1, <2>1, <2>2, SameFold
<1>10. PICK w \in [0 .. size -> V] : Traces(w, u, size, base, G)
  BY <1>1, <1>4, <1>5, FoldTrace
<1>11. ASSUME NEW k \in 1 .. size PROVE w[k] = AddParagraph(w[k - 1], s[k])
  <2>1. w[k - 1] \in V
    BY <1>1
  <2>2. w[k] = G[<<k, w[k - 1]>>]
    BY <1>10 DEF Traces
  <2> QED BY <1>4, <2>1, <2>2
<1>12. MergingTrace(w, s)
  BY <1>3, <1>9, <1>10, <1>11 DEF MergingTrace, Traces, size, base
<1> QED BY <1>12 DEF size, V

IndexingTrace(w, s) ==
    /\ w[0] = <<>> /\ FoldLeft(AddChunk, <<>>, s) = w[Len(s)]
    /\ \A k \in 1 .. Len(s) : w[k] = AddChunk(w[k - 1], s[k])

\* Keeping the chunks that are indexed.
LEMMA Indexing ==
    ASSUME NEW C, NEW s \in Seq(C)
    PROVE  \E w \in [0 .. Len(s) -> Seq(C)] :
              IndexingTrace(w, s)
<1> DEFINE size == Len(s)
           V == Seq(C)
           base == <<>>
           G == [p \in (1 .. size) \X V |-> AddChunk(p[2], s[p[1]])]
           iter == CHOOSE f : f = [T \in SUBSET (1 .. size) |->
                      IF T = {} THEN base ELSE AddChunk(f[T \ {Max(T)}], s[Max(T)])]
<1>1. size \in Nat /\ DOMAIN s = 1 .. size
  OBVIOUS
<1>2. base \in V /\ \A v \in V : \A i \in 1 .. size : AddChunk(v, s[i]) \in V
  <2>1. \A i \in 1 .. size : s[i] \in C
    OBVIOUS
  <2> QED BY <2>1 DEF AddChunk
<1>3. FoldLeft(AddChunk, <<>>, s) = iter[1 .. size]
  BY <1>1, Zenon DEF FoldLeft, MapThenFoldSet
<1> HIDE DEF V, size, base
<1>4. G \in [(1 .. size) \X V -> V] /\ \A i \in 1 .. size : \A v \in V : G[<<i, v>>] = AddChunk(v, s[i])
  BY <1>2
<1> HIDE DEF G
<1>5. PICK u \in [SUBSET (1 .. size) -> V] : Builds(u, size, base, G)
  BY <1>1, <1>2, <1>4, FoldExists
<1>6. ASSUME NEW T \in SUBSET (1 .. size)
      PROVE  u[T] = IF T = {} THEN base ELSE AddChunk(u[T \ {Max(T)}], s[Max(T)])
  <2>1. T # {} => Max(T) \in 1 .. size /\ T \ {Max(T)} \in SUBSET (1 .. size)
    BY <1>1, Shrinks
  <2>2. T # {} => u[T \ {Max(T)}] \in V
    BY <2>1
  <2>3. u[T] = IF T = {} THEN base ELSE G[<<Max(T), u[T \ {Max(T)}]>>]
    BY <1>5 DEF Builds
  <2> QED BY <1>4, <2>1, <2>2, <2>3
<1>7. u = [T \in SUBSET (1 .. size) |-> IF T = {} THEN base ELSE AddChunk(u[T \ {Max(T)}], s[Max(T)])]
  BY <1>6, Zenon
<1>8. iter = [T \in SUBSET (1 .. size) |-> IF T = {} THEN base ELSE AddChunk(iter[T \ {Max(T)}], s[Max(T)])]
  BY <1>7
<1> HIDE DEF iter
<1>9. iter[1 .. size] = u[1 .. size]
  <2>1. iter[{}] = u[{}]
    BY <1>6, <1>8
  <2>2. \A T \in SUBSET (1 .. size) :
            T # {} /\ iter[T \ {Max(T)}] = u[T \ {Max(T)}] => iter[T] = u[T]
    BY <1>6, <1>8
  <2> QED BY <1>1, <2>1, <2>2, SameFold
<1>10. PICK w \in [0 .. size -> V] : Traces(w, u, size, base, G)
  BY <1>1, <1>4, <1>5, FoldTrace
<1>11. ASSUME NEW k \in 1 .. size PROVE w[k] = AddChunk(w[k - 1], s[k])
  <2>1. w[k - 1] \in V
    BY <1>1
  <2>2. w[k] = G[<<k, w[k - 1]>>]
    BY <1>10 DEF Traces
  <2> QED BY <1>4, <2>1, <2>2
<1>12. IndexingTrace(w, s)
  BY <1>3, <1>9, <1>10, <1>11 DEF IndexingTrace, Traces, size, base
<1> QED BY <1>12 DEF size, V

-----------------------------------------------------------------------------
(* Members and characters of sequences of texts.                           *)

\* The characters of a sequence of texts.
All(ts) == UNION {Solid(t) : t \in ToSet(ts)}

\* Members of a sequence and of what is made of it.
LEMMA ToSetFacts ==
    ASSUME NEW A, NEW s \in Seq(A), NEW t \in Seq(A), NEW e \in A
    PROVE  /\ ToSet(<<>>) = {} /\ ToSet(s) \subseteq A
           /\ ToSet(Append(s, e)) = ToSet(s) \cup {e}
           /\ ToSet(s \o t) = ToSet(s) \cup ToSet(t)
<1>1. ToSet(<<>>) = {} /\ ToSet(s) \subseteq A
  BY DEF ToSet
<1>2. ToSet(Append(s, e)) = ToSet(s) \cup {e}
  <2> DEFINE r == Append(s, e)
  <2>1. DOMAIN r = 1 .. Len(s) + 1 /\ r[Len(s) + 1] = e /\ \A i \in 1 .. Len(s) : r[i] = s[i]
    OBVIOUS
  <2>2. DOMAIN s = 1 .. Len(s) /\ Len(s) \in Nat
    OBVIOUS
  <2> HIDE DEF r
  <2>3. \A i \in DOMAIN r : i \in DOMAIN s \/ i = Len(s) + 1
    BY <2>1, <2>2
  <2>4. Len(s) + 1 \in DOMAIN r /\ \A i \in DOMAIN s : i \in DOMAIN r
    BY <2>1, <2>2
  <2>5. ToSet(r) = ToSet(s) \cup {e}
    BY <2>1, <2>2, <2>3, <2>4 DEF ToSet
  <2> QED BY <2>5 DEF r
<1>3. ToSet(s \o t) = ToSet(s) \cup ToSet(t)
  <2> DEFINE r == s \o t
  <2>1. /\ DOMAIN r = 1 .. Len(s) + Len(t) /\ \A i \in 1 .. Len(s) : r[i] = s[i]
        /\ \A i \in 1 .. Len(t) : r[Len(s) + i] = t[i]
    OBVIOUS
  <2>2. DOMAIN s = 1 .. Len(s) /\ Len(s) \in Nat /\ DOMAIN t = 1 .. Len(t) /\ Len(t) \in Nat
    OBVIOUS
  <2> HIDE DEF r
  <2>3. \A i \in DOMAIN s : i \in DOMAIN r /\ r[i] = s[i]
    BY <2>1, <2>2
  <2>4. ASSUME NEW i \in DOMAIN t PROVE Len(s) + i \in DOMAIN r /\ r[Len(s) + i] = t[i]
    BY <2>1, <2>2
  <2>5. ASSUME NEW i \in DOMAIN r, i \notin DOMAIN s PROVE i - Len(s) \in DOMAIN t /\ r[i] = t[i - Len(s)]
    <3>1. i \in 1 .. Len(s) + Len(t) /\ ~(i \in 1 .. Len(s))
      BY <2>1, <2>2, <2>5
    <3>2. i - Len(s) \in 1 .. Len(t) /\ Len(s) + (i - Len(s)) = i
      BY <2>2, <3>1
    <3> QED BY <2>1, <2>2, <3>2
  <2>6. ASSUME NEW x \in ToSet(r) PROVE x \in ToSet(s) \cup ToSet(t)
    <3>1. PICK i \in DOMAIN r : x = r[i]
      BY DEF ToSet
    <3> QED BY <2>3, <2>5, <3>1 DEF ToSet
  <2>7. ASSUME NEW x \in ToSet(s) \cup ToSet(t) PROVE x \in ToSet(r)
    BY <2>3, <2>4 DEF ToSet
  <2>8. ToSet(r) = ToSet(s) \cup ToSet(t)
    BY <2>6, <2>7
  <2> QED BY <2>8 DEF r
<1> QED BY <1>1, <1>2, <1>3

\* Characters of texts and of what is made of them.
LEMMA AllFacts ==
    ASSUME NEW A, NEW s \in Seq(A), NEW t \in Seq(A), NEW e \in A
    PROVE  /\ All(<<>>) = {}
           /\ All(Append(s, e)) = All(s) \cup Solid(e)
           /\ All(s \o t) = All(s) \cup All(t)
<1>1. /\ ToSet(<<>>) = {} /\ ToSet(Append(s, e)) = ToSet(s) \cup {e}
      /\ ToSet(s \o t) = ToSet(s) \cup ToSet(t)
  BY ToSetFacts
<1> QED BY <1>1 DEF All

\* What a text is.
LEMMA TextIs ==
    ASSUME NEW X, NEW s \in TextOver(X)
    PROVE  s \in Seq(X) /\ Stripped(s) /\ Len(s) \in Nat
BY DEF TextOver

\* What " ".join makes of texts: all their characters, and at least the length
\* of any of them or of any two.
LongEnough(j, s, k) ==
    /\ \A i \in 1 .. k : Len(j) >= Len(s[i])
    /\ \A i, m \in 1 .. k :
          i < m /\ s[i] # <<>> /\ s[m] # <<>> => Len(j) >= Len(s[i]) + 1 + Len(s[m])

\* " ".join of a sequence of texts.
LEMMA JoinedFacts ==
    ASSUME NEW X, Space \in X, NEW s \in Seq(TextOver(X))
    PROVE  /\ FoldLeft(Spaced, <<>>, s) \in TextOver(X)
           /\ Solid(FoldLeft(Spaced, <<>>, s)) = All(s)
           /\ LongEnough(FoldLeft(Spaced, <<>>, s), s, Len(s))
<1> DEFINE n == Len(s)
<1>1. n \in Nat /\ DOMAIN s = 1 .. n /\ \A i \in 1 .. n : s[i] \in TextOver(X)
  OBVIOUS
<1>2. PICK w \in [0 .. n -> TextOver(X)] : SpacingTrace(w, s)
  BY Spacing
<1> DEFINE S == {k \in 0 .. n : /\ Solid(w[k]) = UNION {Solid(s[i]) : i \in 1 .. k}
                                /\ LongEnough(w[k], s, k)}
<1>3. 0 \in S
  <2>1. w[0] = <<>> /\ 1 .. 0 = {}
    BY <1>2 DEF SpacingTrace
  <2>2. Solid(<<>>) = {}
    BY DEF Solid
  <2> QED BY <1>1, <2>1, <2>2 DEF LongEnough
<1>4. ASSUME NEW k \in 1 .. n, k - 1 \in S PROVE k \in S
  <2> DEFINE v == w[k - 1]
             t == s[k]
             r == w[k]
  <2>1. v \in TextOver(X) /\ t \in TextOver(X) /\ r = Spaced(v, t)
    BY <1>1, <1>2 DEF SpacingTrace
  <2>2. Solid(v) = UNION {Solid(s[i]) : i \in 1 .. k - 1} /\ LongEnough(v, s, k - 1)
    BY <1>4
  <2> HIDE DEF v, t, r
  <2>3. /\ Solid(r) = Solid(v) \cup Solid(t)
        /\ Len(r) >= Len(v) /\ Len(r) >= Len(t)
        /\ (v # <<>> /\ t # <<>> => Len(r) = Len(v) + 1 + Len(t))
        /\ Len(r) \in Nat /\ Len(v) \in Nat /\ Len(t) \in Nat
    <3>1. v \in Seq(X) /\ Stripped(v) /\ t \in Seq(X) /\ Stripped(t)
      BY <2>1, TextIs
    <3>2. r \in Seq(X)
      BY <2>1, <3>1, SpacedFacts
    <3> QED BY <2>1, <3>1, <3>2, SpacedFacts
  <2>4. Solid(r) = UNION {Solid(s[i]) : i \in 1 .. k}
    <3>1. \A i \in 1 .. k : i \in 1 .. k - 1 \/ i = k
      OBVIOUS
    <3>2. \A i \in 1 .. k - 1 : i \in 1 .. k
      OBVIOUS
    <3>3. k \in 1 .. k
      OBVIOUS
    <3> QED BY <2>2, <2>3, <3>1, <3>2, <3>3 DEF t
  <2>5. \A i \in 1 .. k : Len(s[i]) \in Nat
    <3>1. \A i \in 1 .. k : s[i] \in TextOver(X)
      BY <1>1
    <3> QED BY <3>1, TextIs
  <2>6. \A i \in 1 .. k : Len(r) >= Len(s[i])
    BY <2>2, <2>3, <2>5 DEF LongEnough, t
  <2>7. ASSUME NEW i \in 1 .. k, NEW m \in 1 .. k, i < m, s[i] # <<>>, s[m] # <<>>
        PROVE  Len(r) >= Len(s[i]) + 1 + Len(s[m])
    <3>1. i \in 1 .. k - 1
      BY <2>7
    <3>2. Len(v) >= Len(s[i])
      BY <2>2, <3>1 DEF LongEnough
    <3>3. CASE m = k
      <4>1. Len(s[i]) # 0
        <5>1. s[i] \in Seq(X)
          BY <1>1, <3>1, TextIs
        <5> QED BY <2>7, <5>1
      <4>2. v # <<>>
        <5>1. Len(v) # 0
          BY <2>3, <2>5, <3>2, <4>1
        <5> QED BY <5>1
      <4>3. t = s[m] /\ t # <<>>
        BY <2>7, <3>3 DEF t
      <4>4. Len(r) = Len(v) + 1 + Len(s[m])
        BY <2>3, <4>2, <4>3
      <4>5. Len(s[i]) \in Nat /\ Len(s[m]) \in Nat
        BY <2>5
      <4> QED BY <2>3, <3>2, <4>4, <4>5
    <3>4. CASE m \in 1 .. k - 1
      <4>1. Len(v) >= Len(s[i]) + 1 + Len(s[m])
        BY <2>2, <2>7, <3>1, <3>4 DEF LongEnough
      <4> QED BY <2>3, <2>5, <4>1
    <3>5. m = k \/ m \in 1 .. k - 1
      BY <1>1
    <3> QED BY <3>3, <3>4, <3>5
  <2>8. LongEnough(r, s, k)
    BY <2>6, <2>7 DEF LongEnough
  <2> QED BY <2>4, <2>8 DEF r
<1> HIDE DEF S
<1>5. \A k \in 0 .. n : k \in S
  BY <1>1, <1>3, <1>4, Along
<1>6. n \in S
  BY <1>1, <1>5
<1>7. Solid(w[n]) = UNION {Solid(s[i]) : i \in 1 .. n} /\ LongEnough(w[n], s, n)
  BY <1>6 DEF S
<1>8. UNION {Solid(s[i]) : i \in 1 .. n} = All(s)
  BY <1>1 DEF All, ToSet
<1>9. w[n] \in TextOver(X)
  BY <1>1
<1> QED BY <1>2, <1>7, <1>8, <1>9 DEF SpacingTrace

\* The usable blocks are blocks.
LEMMA FilterFacts ==
    ASSUME NEW R, NEW s \in Seq(R)
    PROVE  FilterOcrBlocks(s) \in Seq(R)
<1> DEFINE kept == FoldLeft(LAMBDA ds, b : IF UsableOcrBlock(b.counts) THEN Append(ds, b) ELSE ds, <<>>, s)
<1>1. Len(s) \in Nat
  OBVIOUS
<1>2. PICK w \in [0 .. Len(s) -> Seq(R)] : KeepingTrace(w, s)
  BY Keeping
<1>3. kept = w[Len(s)]
  BY <1>2 DEF KeepingTrace
<1>5. FilterOcrBlocks(s) = <<>> \/ FilterOcrBlocks(s) = kept
  BY Zenon DEF FilterOcrBlocks
<1> HIDE DEF kept
<1>4. kept \in Seq(R)
  BY <1>1, <1>3
<1> QED BY <1>4, <1>5

-----------------------------------------------------------------------------
(* The sentences of a block, in order.                                     *)

\* Where a sentence begins.
LEMMA BeforeFacts ==
    ASSUME NEW b, b.sentences \in Seq(Nat), NEW k \in 1 .. Len(b.sentences)
    PROVE  /\ Before(b, k) \in Nat /\ Before(b, k + 1) \in Nat
           /\ Before(b, k + 1) = Before(b, k) + b.sentences[k]
           /\ Before(b, 1) = 0
<1> DEFINE q == b.sentences
           s == SubSeq(q, 1, k - 1)
           t == SubSeq(q, 1, k)
<1>1. /\ s \in Seq(Nat) /\ Len(s) = k - 1 /\ t \in Seq(Nat) /\ Len(t) = k
      /\ t[k] = q[k] /\ \A i \in 1 .. k - 1 : s[i] = t[i]
  OBVIOUS
<1>2. Before(b, k) = FoldLeft(LAMBDA n, m : n + m, 0, s)
  BY Zenon DEF Before
<1>3. Before(b, k + 1) = FoldLeft(LAMBDA n, m : n + m, 0, t)
  <2>1. (k + 1) - 1 = k
    OBVIOUS
  <2> QED BY <2>1, Zenon DEF Before
<1> HIDE DEF s, t
<1>4. PICK u \in [0 .. Len(s) -> Nat] : AddingTrace(u, s)
  BY <1>1, Adding
<1>5. PICK w \in [0 .. Len(t) -> Nat] : AddingTrace(w, t)
  BY <1>1, Adding
<1>6. u[0] = 0 /\ w[0] = 0 /\ Before(b, k) = u[k - 1] /\ Before(b, k + 1) = w[k]
  BY <1>1, <1>2, <1>3, <1>4, <1>5 DEF AddingTrace
<1>7. /\ \A j \in 1 .. k - 1 : u[j] = u[j - 1] + s[j]
      /\ \A j \in 1 .. k : w[j] = w[j - 1] + t[j]
  BY <1>1, <1>4, <1>5 DEF AddingTrace
<1> DEFINE S == {j \in 0 .. k - 1 : u[j] = w[j]}
<1>8. 0 \in S
  BY <1>6
<1>9. ASSUME NEW j \in 1 .. k - 1, j - 1 \in S PROVE j \in S
  <2>1. u[j - 1] = w[j - 1] /\ s[j] = t[j]
    BY <1>1, <1>9
  <2>2. u[j] = u[j - 1] + s[j] /\ w[j] = w[j - 1] + t[j]
    BY <1>7
  <2> QED BY <2>1, <2>2
<1> HIDE DEF S
<1>10. k - 1 \in Nat /\ k - 1 \in 0 .. k - 1
  OBVIOUS
<1>11. k - 1 \in S
  <2> DEFINE m == k - 1
  <2>1. m \in Nat /\ m \in 0 .. m /\ \A j \in 1 .. m : j - 1 \in S => j \in S
    BY <1>9, <1>10
  <2> HIDE DEF m
  <2>2. m \in S
    BY <1>8, <2>1, Along
  <2> QED BY <2>2 DEF m
<1>12. u[k - 1] = w[k - 1] /\ w[k] = w[k - 1] + t[k]
  BY <1>7, <1>11 DEF S
<1>13. u[k - 1] \in Nat /\ w[k] \in Nat
  BY <1>1
<1>14. Before(b, 1) = 0
  <2> DEFINE e == SubSeq(q, 1, 0)
  <2>1. e \in Seq(Nat) /\ Len(e) = 0
    OBVIOUS
  <2>2. Before(b, 1) = FoldLeft(LAMBDA n, m : n + m, 0, e)
    <3>1. 1 - 1 = 0
      OBVIOUS
    <3> QED BY <3>1, Zenon DEF Before
  <2> HIDE DEF e
  <2>3. PICK z \in [0 .. Len(e) -> Nat] : AddingTrace(z, e)
    BY <2>1, Adding
  <2> QED BY <2>1, <2>2, <2>3 DEF AddingTrace
<1> QED BY <1>1, <1>6, <1>12, <1>13, <1>14

\* The alphabet of a block.
Letters(b) == {Space} \cup ({b.id} \X Nat)

\* A sentence of a block: its characters and its length.
LEMMA SentenceFacts ==
    ASSUME NEW b, b.sentences \in Seq(Nat), NEW k \in 1 .. Len(b.sentences)
    PROVE  /\ Sentence(b, k) \in TextOver(Letters(b)) /\ Len(Sentence(b, k)) = b.sentences[k]
           /\ \A p \in 1 .. b.sentences[k] :
                /\ ~Blank(Sentence(b, k)[p])
                /\ Sentence(b, k)[p] = <<b.id, Before(b, k) + p>>
<1> DEFINE m == b.sentences[k]
           n == Before(b, k)
           s == [p \in 1 .. m |-> <<b.id, n + p>>]
<1>1. m \in Nat /\ n \in Nat
  BY BeforeFacts
<1>2. Sentence(b, k) = s
  BY DEF Sentence
<1> HIDE DEF m, n
<1>3. \A p \in 1 .. m : n + p \in Nat /\ n + p # 0
  BY <1>1
<1>4. \A p \in 1 .. m : s[p] \in Letters(b) /\ ~Blank(s[p])
  BY <1>3 DEF Letters, Blank, Space
<1>5. s \in Seq(Letters(b)) /\ Len(s) = m
  <2>1. s \in [1 .. m -> Letters(b)]
    BY <1>4
  <2> HIDE DEF s
  <2> QED BY <1>1, <2>1
<1>6. \A p \in 1 .. m : s[p] = <<b.id, n + p>>
  OBVIOUS
<1> HIDE DEF s
<1>7. Stripped(s)
  <2>1. s # <<>> => 1 \in 1 .. m /\ m \in 1 .. m
    <3>1. s # <<>> => m # 0
      BY <1>5
    <3> QED BY <1>1, <3>1
  <2> QED BY <1>4, <1>5, <2>1 DEF Stripped
<1> QED BY <1>2, <1>4, <1>5, <1>6, <1>7 DEF TextOver, m, n

\* Characters come in order, and never two spaces in a row.
Ordered(s) ==
    \A i, j \in 1 .. Len(s) : i < j /\ ~Blank(s[i]) /\ ~Blank(s[j]) => s[i][2] < s[j][2]
NoGap(s) == \A i \in 1 .. Len(s) : i + 1 \in 1 .. Len(s) => ~Blank(s[i]) \/ ~Blank(s[i + 1])
Within(s, a, z) == \A i \in 1 .. Len(s) : ~Blank(s[i]) => s[i][2] \in Nat /\ a < s[i][2] /\ s[i][2] <= z

\* Joining texts whose positions follow each other.
LEMMA JoinInOrder ==
    ASSUME NEW X, Space \in X, NEW v \in TextOver(X), NEW t \in TextOver(X),
           NEW a \in Nat, NEW y \in Nat, NEW z \in Nat, a <= y, y <= z,
           Ordered(v), NoGap(v), Within(v, a, y), Ordered(t), NoGap(t), Within(t, y, z)
    PROVE  Ordered(Spaced(v, t)) /\ NoGap(Spaced(v, t)) /\ Within(Spaced(v, t), a, z)
<1>1. v \in Seq(X) /\ Stripped(v) /\ t \in Seq(X) /\ Stripped(t) /\ Len(v) \in Nat /\ Len(t) \in Nat
  BY TextIs
<1> DEFINE j == v \o <<Space>> \o t
           r == Spaced(v, t)
<1>2. r = IF v = <<>> THEN t ELSE IF t = <<>> THEN v ELSE j
  BY <1>1, SpacedIs
<1>3. /\ Len(j) = Len(v) + 1 + Len(t)
      /\ \A i \in 1 .. Len(v) : j[i] = v[i]
      /\ j[Len(v) + 1] = Space
      /\ \A i \in 1 .. Len(t) : j[Len(v) + 1 + i] = t[i]
  <2> HIDE DEF Space
  <2> QED BY <1>1
<1> HIDE DEF j, r
<1>4. CASE v = <<>>
  BY <1>2, <1>4 DEF Within, r
<1>5. CASE v # <<>> /\ t = <<>>
  BY <1>2, <1>5 DEF Within, r
<1>6. CASE v # <<>> /\ t # <<>>
  <2>1. r = j /\ Len(v) # 0 /\ Len(t) # 0
    BY <1>1, <1>2, <1>6
  <2>2. ASSUME NEW i \in 1 .. Len(j)
        PROVE  \/ i \in 1 .. Len(v) /\ j[i] = v[i]
               \/ i = Len(v) + 1 /\ Blank(j[i])
               \/ i - Len(v) - 1 \in 1 .. Len(t) /\ j[i] = t[i - Len(v) - 1]
    <3>1. CASE i <= Len(v)
      BY <1>1, <1>3, <3>1
    <3>2. CASE i = Len(v) + 1
      BY <1>3, <3>2 DEF Blank
    <3>3. CASE i > Len(v) + 1
      <4>0. i \in 1 .. Len(v) + 1 + Len(t)
        BY <1>3
      <4>1. i - Len(v) - 1 \in 1 .. Len(t) /\ Len(v) + 1 + (i - Len(v) - 1) = i
        BY <1>1, <3>3, <4>0
      <4> QED BY <1>3, <4>1
    <3> QED BY <1>1, <1>3, <3>1, <3>2, <3>3
  <2>3. Within(j, a, z)
    <3> SUFFICES ASSUME NEW i \in 1 .. Len(j), ~Blank(j[i])
                 PROVE  j[i][2] \in Nat /\ a < j[i][2] /\ j[i][2] <= z
      BY DEF Within
    <3>1. CASE i \in 1 .. Len(v) /\ j[i] = v[i]
      BY <3>1 DEF Within
    <3>2. CASE i - Len(v) - 1 \in 1 .. Len(t) /\ j[i] = t[i - Len(v) - 1]
      BY <3>2 DEF Within
    <3> QED BY <2>2, <3>1, <3>2
  <2>4. Ordered(j)
    <3> SUFFICES ASSUME NEW i \in 1 .. Len(j), NEW k \in 1 .. Len(j), i < k, ~Blank(j[i]), ~Blank(j[k])
                 PROVE  j[i][2] < j[k][2]
      BY DEF Ordered
    <3> DEFINE e == i - Len(v) - 1
               f == k - Len(v) - 1
    <3>1. CASE i \in 1 .. Len(v) /\ j[i] = v[i]
      <4>1. CASE k \in 1 .. Len(v) /\ j[k] = v[k]
        BY <3>1, <4>1 DEF Ordered
      <4>2. CASE f \in 1 .. Len(t) /\ j[k] = t[f]
        <5> HIDE DEF f
        <5>1. v[i][2] \in Nat /\ v[i][2] <= y
          BY <3>1 DEF Within
        <5>2. t[f][2] \in Nat /\ y < t[f][2]
          BY <4>2 DEF Within
        <5> QED BY <3>1, <4>2, <5>1, <5>2
      <4> QED BY <2>2, <4>1, <4>2
    <3>2. CASE e \in 1 .. Len(t) /\ j[i] = t[e]
      <4>1. f \in 1 .. Len(t) /\ j[k] = t[f] /\ e < f
        <5>1. e < f /\ ~(k \in 1 .. Len(v)) /\ k # Len(v) + 1
          BY <1>1, <1>3, <3>2
        <5> QED BY <2>2, <5>1
      <4> HIDE DEF e, f
      <4> QED BY <3>2, <4>1 DEF Ordered
    <3> QED BY <2>2, <3>1, <3>2
  <2>5. NoGap(j)
    <3> SUFFICES ASSUME NEW i \in 1 .. Len(j), i + 1 \in 1 .. Len(j)
                 PROVE  ~Blank(j[i]) \/ ~Blank(j[i + 1])
      BY DEF NoGap
    <3>1. CASE i < Len(v)
      <4>1. i \in 1 .. Len(v) /\ i + 1 \in 1 .. Len(v)
        BY <1>1, <3>1
      <4>2. j[i] = v[i] /\ j[i + 1] = v[i + 1]
        BY <1>3, <4>1
      <4> QED BY <4>1, <4>2 DEF NoGap
    <3>2. CASE i = Len(v)
      <4>1. j[i] = v[Len(v)]
        BY <1>1, <1>3, <2>1, <3>2
      <4> QED BY <1>1, <1>6, <4>1 DEF Stripped
    <3>3. CASE i = Len(v) + 1
      <4>1. i + 1 = Len(v) + 1 + 1 /\ 1 \in 1 .. Len(t)
        BY <1>1, <2>1, <3>3
      <4>2. j[i + 1] = t[1]
        BY <1>3, <4>1
      <4> QED BY <1>1, <1>6, <4>2 DEF Stripped
    <3>4. CASE i > Len(v) + 1
      <4> DEFINE e == i - Len(v) - 1
      <4>1. e \in 1 .. Len(t) /\ e + 1 \in 1 .. Len(t) /\ Len(v) + 1 + e = i /\ Len(v) + 1 + (e + 1) = i + 1
        BY <1>1, <1>3, <3>4
      <4> HIDE DEF e
      <4>2. j[i] = t[e] /\ j[i + 1] = t[e + 1]
        BY <1>3, <4>1
      <4> QED BY <4>1, <4>2 DEF NoGap
    <3>5. i < Len(v) \/ i = Len(v) \/ i = Len(v) + 1 \/ i > Len(v) + 1
      BY <1>1
    <3> QED BY <3>1, <3>2, <3>3, <3>4, <3>5
  <2> QED BY <2>1, <2>3, <2>4, <2>5 DEF r
<1> QED BY <1>4, <1>5, <1>6

\* The positions of a sentence ascend.
LEMMA SentenceInOrder ==
    ASSUME NEW b, b.sentences \in Seq(Nat), NEW k \in 1 .. Len(b.sentences)
    PROVE  /\ Ordered(Sentence(b, k)) /\ NoGap(Sentence(b, k))
           /\ Within(Sentence(b, k), Before(b, k), Before(b, k + 1))
<1> DEFINE s == Sentence(b, k)
           m == b.sentences[k]
           n == Before(b, k)
           z == Before(b, k + 1)
<1>1. /\ Len(s) = m /\ \A p \in 1 .. m : ~Blank(s[p]) /\ s[p] = <<b.id, n + p>>
  BY SentenceFacts
<1>2. m \in Nat /\ n \in Nat /\ z = n + m
  BY BeforeFacts
<1> HIDE DEF s, m, n, z
<1>3. \A p \in 1 .. m : s[p][2] = n + p
  BY <1>1
<1>4. Ordered(s)
  BY <1>1, <1>2, <1>3 DEF Ordered
<1>5. NoGap(s)
  BY <1>1 DEF NoGap
<1>6. Within(s, n, z)
  BY <1>1, <1>2, <1>3 DEF Within
<1> QED BY <1>4, <1>5, <1>6 DEF s, m, n, z

\* The sentences of a block.
LEMMA SentencesFacts ==
    ASSUME NEW b, b.sentences \in Seq(Nat)
    PROVE  /\ SentencesOf(b) \in Seq(TextOver(Letters(b))) /\ Len(SentencesOf(b)) = Len(b.sentences)
           /\ \A k \in 1 .. Len(b.sentences) : SentencesOf(b)[k] = Sentence(b, k)
<1> DEFINE N == Len(b.sentences)
           f == [k \in 1 .. N |-> Sentence(b, k)]
<1>1. N \in Nat /\ DOMAIN b.sentences = 1 .. N
  OBVIOUS
<1>2. SentencesOf(b) = f
  BY <1>1 DEF SentencesOf
<1>3. \A k \in 1 .. N : Sentence(b, k) \in TextOver(Letters(b))
  BY SentenceFacts
<1> HIDE DEF N
<1>4. f \in [1 .. N -> TextOver(Letters(b))] /\ \A k \in 1 .. N : f[k] = Sentence(b, k)
  BY <1>3
<1> HIDE DEF f
<1>5. f \in Seq(TextOver(Letters(b))) /\ Len(f) = N
  BY <1>1, <1>4
<1> QED BY <1>2, <1>4, <1>5 DEF N

\* clean_text keeps the characters of the sentences, in their order.
LEMMA CleanTextFacts ==
    ASSUME NEW b, b.sentences \in Seq(Nat)
    PROVE  /\ CleanText(b) \in TextOver(Letters(b)) /\ Solid(CleanText(b)) = All(SentencesOf(b))
           /\ Ordered(CleanText(b)) /\ NoGap(CleanText(b))
<1> DEFINE s == SentencesOf(b)
           n == Len(b.sentences)
           X == Letters(b)
           e == CleanText(b)
<1>1. s \in Seq(TextOver(X)) /\ Len(s) = n /\ \A k \in 1 .. n : s[k] = Sentence(b, k)
  BY SentencesFacts
<1>2. e = FoldLeft(Spaced, <<>>, s)
  BY DEF CleanText
<1>3. Space \in X
  BY DEF Letters
<1>4. n \in Nat
  OBVIOUS
<1>5. ASSUME NEW k \in 1 .. n
      PROVE  /\ Ordered(s[k]) /\ NoGap(s[k]) /\ Within(s[k], Before(b, k), Before(b, k + 1))
             /\ Before(b, k) \in Nat /\ Before(b, k + 1) \in Nat /\ Before(b, k) <= Before(b, k + 1)
             /\ Before(b, 1) = 0 /\ s[k] \in TextOver(X)
  <2>1. b.sentences[k] \in Nat
    OBVIOUS
  <2>2. s[k] = Sentence(b, k) /\ s[k] \in TextOver(X)
    BY <1>1
  <2>3. /\ Ordered(Sentence(b, k)) /\ NoGap(Sentence(b, k))
        /\ Within(Sentence(b, k), Before(b, k), Before(b, k + 1))
    BY SentenceInOrder
  <2>4. /\ Before(b, k) \in Nat /\ Before(b, k + 1) = Before(b, k) + b.sentences[k]
        /\ Before(b, 1) = 0 /\ Before(b, k + 1) \in Nat
    BY BeforeFacts
  <2>5. Before(b, k) <= Before(b, k + 1)
    BY <2>1, <2>4
  <2> QED BY <2>2, <2>3, <2>4, <2>5
<1> HIDE DEF s, n, X, e
<1>6. e \in TextOver(X) /\ Solid(e) = All(s)
  BY <1>1, <1>2, <1>3, JoinedFacts
<1>7. PICK w \in [0 .. Len(s) -> TextOver(X)] : SpacingTrace(w, s)
  BY <1>1, <1>3, Spacing
<1> DEFINE S == {k \in 0 .. n : /\ Ordered(w[k]) /\ NoGap(w[k])
                                /\ n # 0 => Within(w[k], 0, Before(b, k + 1))}
<1>8. 0 \in S
  <2>1. w[0] = <<>>
    BY <1>7 DEF SpacingTrace
  <2>2. Len(<<>>) = 0
    OBVIOUS
  <2>3. Ordered(<<>>) /\ NoGap(<<>>)
    BY <2>2 DEF Ordered, NoGap
  <2>4. Within(<<>>, 0, Before(b, 0 + 1))
    BY <2>2 DEF Within
  <2> QED BY <1>4, <2>1, <2>3, <2>4
<1>9. ASSUME NEW k \in 1 .. n, k - 1 \in S PROVE k \in S
  <2> DEFINE v == w[k - 1]
             t == s[k]
             y == Before(b, k)
             z == Before(b, k + 1)
  <2>1. w[k] = Spaced(v, t)
    BY <1>1, <1>7 DEF SpacingTrace
  <2>2. v \in TextOver(X)
    BY <1>1, <1>4, <1>7
  <2>3. (k - 1) + 1 = k /\ n # 0
    BY <1>4
  <2>4. Ordered(v) /\ NoGap(v) /\ Within(v, 0, y)
    <3>1. /\ Ordered(w[k - 1]) /\ NoGap(w[k - 1])
          /\ n # 0 => Within(w[k - 1], 0, Before(b, (k - 1) + 1))
      BY <1>9
    <3> QED BY <2>3, <3>1
  <2>5. /\ Ordered(t) /\ NoGap(t) /\ Within(t, y, z) /\ y \in Nat /\ z \in Nat /\ y <= z
        /\ t \in TextOver(X)
    BY <1>5
  <2> HIDE DEF v, t, y, z
  <2>6. 0 \in Nat /\ 0 <= y
    BY <2>5
  <2>7. Ordered(Spaced(v, t)) /\ NoGap(Spaced(v, t)) /\ Within(Spaced(v, t), 0, z)
    BY <1>3, <2>2, <2>4, <2>5, <2>6, JoinInOrder
  <2>8. k \in 0 .. n
    BY <1>4
  <2> QED BY <2>1, <2>7, <2>8 DEF z
<1>10. \A k \in 0 .. n : k \in S
  <2> HIDE DEF S
  <2> QED BY <1>4, <1>8, <1>9, Along
<1>11. n \in S /\ e = w[n]
  <2>1. n \in 0 .. n
    BY <1>4
  <2> QED BY <1>1, <1>2, <1>7, <1>10, <2>1 DEF SpacingTrace
<1>12. Ordered(e) /\ NoGap(e)
  BY <1>11
<1> QED BY <1>6, <1>12 DEF s, n, X, e

-----------------------------------------------------------------------------
(* _split_long_text: sentences are packed.                                 *)

\* One sentence more: it joins the piece, or closes one that it would overfill.
PackKeeps(acc, s, r) ==
    /\ All(r.done) \cup Solid(r.now) = (All(acc.done) \cup Solid(acc.now)) \cup Solid(s)
    /\ Solid(r.now) \subseteq Solid(acc.now) \cup Solid(s) /\ Solid(s) \subseteq Solid(r.now)
    /\ Len(r.now) >= Len(s)
    /\ \/ /\ r.done = acc.done /\ r.now = Spaced(acc.now, s)
          /\ Solid(acc.now) \subseteq Solid(r.now) /\ Len(r.now) >= Len(acc.now)
       \/ /\ acc.now # <<>> /\ r.done = Append(acc.done, acc.now)
          /\ Len(acc.now) + 1 + Len(s) > ChunkSize

\* Packing a sentence keeps every character.
LEMMA PackStep ==
    ASSUME NEW X, Space \in X, NEW acc \in [done : Seq(TextOver(X)), now : TextOver(X)],
           NEW s \in TextOver(X), s # <<>>
    PROVE  PackKeeps(acc, s, Pack(acc, s))
<1> DEFINE d == acc.done
           a == acc.now
           r == Pack(acc, s)
           tail == IF Overlap = 0 THEN <<>> ELSE StripLeft(Suffix(a, Overlap))
           j == Spaced(a, s)
           h == Spaced(tail, s)
<1>1. d \in Seq(TextOver(X)) /\ a \in TextOver(X)
  OBVIOUS
<1>2. tail \in TextOver(X) /\ Solid(tail) \subseteq Solid(a)
  <2>1. Overlap \in Nat
    BY ChunkAssumption
  <2>2. Solid(<<>>) = {} /\ <<>> \in TextOver(X)
    BY TextEmpty DEF Solid
  <2>3. StripLeft(Suffix(a, Overlap)) \in TextOver(X) /\ Solid(StripLeft(Suffix(a, Overlap))) \subseteq Solid(a)
    BY <1>1, <2>1, TextSuffix
  <2> QED BY <2>2, <2>3
<1>3. r = IF a # <<>> /\ Len(j) > ChunkSize
          THEN [done |-> Append(d, a), now |-> h] ELSE [done |-> d, now |-> j]
  BY Zenon DEF Pack
<1> HIDE DEF d, a, r, tail
<1>4. s \in Seq(X) /\ Stripped(s) /\ Len(s) \in Nat /\ a \in Seq(X) /\ Stripped(a) /\ Len(a) \in Nat
      /\ tail \in Seq(X) /\ Stripped(tail)
  BY <1>1, <1>2, TextIs
<1>5. /\ Solid(j) = Solid(a) \cup Solid(s) /\ Len(j) >= Len(a) /\ Len(j) >= Len(s)
      /\ a # <<>> => Len(j) = Len(a) + 1 + Len(s)
  BY <1>4, SpacedFacts
<1>6. Solid(h) = Solid(tail) \cup Solid(s) /\ Len(h) >= Len(s)
  BY <1>4, SpacedFacts
<1> HIDE DEF h
<1>7. CASE a # <<>> /\ Len(j) > ChunkSize
  <2>1. r.done = Append(d, a) /\ r.now = h
    BY <1>3, <1>7
  <2>2. All(Append(d, a)) = All(d) \cup Solid(a)
    BY <1>1, AllFacts
  <2>3. Len(a) + 1 + Len(s) > ChunkSize
    BY <1>5, <1>7
  <2>4. /\ All(r.done) \cup Solid(r.now) = (All(d) \cup Solid(a)) \cup Solid(s)
        /\ Solid(r.now) \subseteq Solid(a) \cup Solid(s) /\ Solid(s) \subseteq Solid(r.now)
    BY <1>2, <1>6, <2>1, <2>2
  <2> QED BY <1>6, <1>7, <2>1, <2>3, <2>4 DEF PackKeeps, r, d, a
<1>8. CASE ~(a # <<>> /\ Len(j) > ChunkSize)
  <2>1. r.done = d /\ r.now = j
    BY <1>3, <1>8
  <2>2. /\ All(r.done) \cup Solid(r.now) = (All(d) \cup Solid(a)) \cup Solid(s)
        /\ Solid(r.now) \subseteq Solid(a) \cup Solid(s) /\ Solid(s) \subseteq Solid(r.now)
        /\ Solid(a) \subseteq Solid(r.now)
    BY <1>5, <2>1
  <2> QED BY <1>5, <2>1, <2>2 DEF PackKeeps, r, d, a
<1> QED BY <1>7, <1>8

\* Two of the pieces, one with a character the other has not, that are longer
\* than a chunk together; or a single one that is.
Pair(P) ==
    \E p, q \in P :
        /\ p # <<>> /\ Len(p) + 1 + Len(q) > ChunkSize /\ \E c \in Solid(q) : c \notin Solid(p)
Plenty(P) == (\E p \in P : Len(p) > ChunkSize) \/ Pair(P)

\* The piece in the making becomes the last piece.
LEMMA ClosedFacts ==
    ASSUME NEW A, NEW acc, acc.done \in Seq(A), acc.now \in A
    PROVE  /\ Closed(acc) \in Seq(A)
           /\ ToSet(Closed(acc)) = ToSet(acc.done) \cup (IF acc.now = <<>> THEN {} ELSE {acc.now})
           /\ All(Closed(acc)) = All(acc.done) \cup Solid(acc.now)
<1> DEFINE d == acc.done
           a == acc.now
           r == Closed(acc)
<1>1. r = IF a = <<>> THEN d ELSE Append(d, a)
  BY DEF Closed
<1> HIDE DEF d, a, r
<1>2. d \in Seq(A) /\ a \in A
  BY DEF d, a
<1>3. Append(d, a) \in Seq(A)
  BY <1>2
<1>4. ToSet(Append(d, a)) = ToSet(d) \cup {a} /\ All(Append(d, a)) = All(d) \cup Solid(a)
  BY <1>2, ToSetFacts, AllFacts
<1>5. Solid(<<>>) = {}
  BY DEF Solid
<1> QED BY <1>1, <1>2, <1>3, <1>4, <1>5 DEF d, a, r

\* Packing loses no character, and what is longer than a chunk stays so.
LEMMA PackFacts ==
    ASSUME NEW b, b.sentences \in Seq(Nat \ {0})
    PROVE  /\ PackSentences(SentencesOf(b)) \in Seq(TextOver(Letters(b)))
           /\ All(PackSentences(SentencesOf(b))) = All(SentencesOf(b))
           /\ Len(CleanText(b)) > ChunkSize => Plenty(ToSet(PackSentences(SentencesOf(b))))
<1> DEFINE s == SentencesOf(b)
           n == Len(b.sentences)
           X == Letters(b)
           e == CleanText(b)
           V == [done : Seq(TextOver(X)), now : TextOver(X)]
<1>0. b.sentences \in Seq(Nat)
  OBVIOUS
<1>1. s \in Seq(TextOver(X)) /\ Len(s) = n /\ \A k \in 1 .. n : s[k] = Sentence(b, k)
  BY <1>0, SentencesFacts
<1>2. e = FoldLeft(Spaced, <<>>, s)
  BY DEF CleanText
<1>3. Space \in X
  BY DEF Letters
<1>4. n \in Nat
  OBVIOUS
<1>5. ASSUME NEW k \in 1 .. n
      PROVE  /\ Within(s[k], Before(b, k), Before(b, k + 1))
             /\ Before(b, k) \in Nat /\ Before(b, k + 1) \in Nat /\ Before(b, k) <= Before(b, k + 1)
             /\ s[k] \in TextOver(X) /\ Len(s[k]) # 0
  <2>1. b.sentences[k] \in Nat /\ b.sentences[k] # 0
    OBVIOUS
  <2>2. s[k] = Sentence(b, k) /\ s[k] \in TextOver(X)
    BY <1>1
  <2>3. Within(Sentence(b, k), Before(b, k), Before(b, k + 1))
    BY <1>0, SentenceInOrder
  <2>4. /\ Before(b, k) \in Nat /\ Before(b, k + 1) = Before(b, k) + b.sentences[k]
        /\ Before(b, k + 1) \in Nat
    BY <1>0, BeforeFacts
  <2>5. Before(b, k) <= Before(b, k + 1)
    BY <2>1, <2>4
  <2>6. Len(Sentence(b, k)) = b.sentences[k]
    BY <1>0, SentenceFacts
  <2> QED BY <2>1, <2>2, <2>3, <2>4, <2>5, <2>6
<1> HIDE DEF s, n, X, e
<1>6. PICK w \in [0 .. Len(s) -> [done : Seq(TextOver(X)), now : TextOver(X)]] : PackingTrace(w, s)
  BY <1>1, <1>3, Packing
<1>7. PICK z \in [0 .. Len(s) -> TextOver(X)] : SpacingTrace(z, s)
  BY <1>1, <1>3, Spacing
<1> DEFINE Covered(k) == All(w[k].done) \cup Solid(w[k].now) = UNION {Solid(s[i]) : i \in 1 .. k}
           Below(k) == n # 0 => \A c \in Solid(w[k].now) : c[2] \in Nat /\ c[2] <= Before(b, k + 1)
           Same(k) == w[k].done = <<>> /\ w[k].now = z[k]
           Split(k) == \E p \in ToSet(w[k].done) : \E q \in ToSet(w[k].done) \cup {w[k].now} :
                          /\ p # <<>> /\ Len(p) + 1 + Len(q) > ChunkSize
                          /\ \E c \in Solid(q) : c \notin Solid(p)
           S == {k \in 0 .. n : Covered(k) /\ Below(k) /\ (Same(k) \/ Split(k))}
<1>8. 0 \in S
  <2>1. w[0] = NothingYet /\ z[0] = <<>>
    BY <1>6, <1>7 DEF PackingTrace, SpacingTrace
  <2>2. w[0].done = <<>> /\ w[0].now = <<>>
    BY <2>1 DEF NothingYet
  <2>3. Solid(<<>>) = {} /\ All(<<>>) = {}
    BY DEF Solid, All, ToSet
  <2>4. 1 .. 0 = {} /\ 0 \in 0 .. n
    BY <1>4
  <2> QED BY <2>1, <2>2, <2>3, <2>4
<1>9. ASSUME NEW k \in 1 .. n, k - 1 \in S PROVE k \in S
  <2> DEFINE acc == w[k - 1]
             t == s[k]
             r == w[k]
             y == Before(b, k)
  <2>1. r = Pack(acc, t) /\ acc \in V /\ r \in V /\ z[k] = Spaced(z[k - 1], t)
    <3>1. k \in 0 .. Len(s) /\ k - 1 \in 0 .. Len(s) /\ k \in 1 .. Len(s)
      BY <1>1, <1>4
    <3> QED BY <1>6, <1>7, <3>1 DEF PackingTrace, SpacingTrace
  <2>2. /\ Within(t, y, Before(b, k + 1)) /\ y \in Nat /\ Before(b, k + 1) \in Nat
        /\ y <= Before(b, k + 1) /\ t \in TextOver(X) /\ Len(t) # 0
    BY <1>5
  <2>3. Covered(k - 1) /\ Below(k - 1) /\ (Same(k - 1) \/ Split(k - 1))
    BY <1>9
  <2>4. (k - 1) + 1 = k /\ n # 0 /\ k \in 0 .. n
    BY <1>4
  <2>5. \A c \in Solid(acc.now) : c[2] \in Nat /\ c[2] <= y
    BY <2>3, <2>4
  <2> HIDE DEF y
  <2>6. t # <<>>
    BY <2>2
  <2>7. PackKeeps(acc, t, r)
    <3> HIDE DEF acc, t, r
    <3> QED BY <1>3, <2>1, <2>2, <2>6, PackStep
  <2>8. t \in Seq(X) /\ Len(t) \in Nat /\ acc.now \in TextOver(X) /\ acc.done \in Seq(TextOver(X))
        /\ r.now \in TextOver(X) /\ r.done \in Seq(TextOver(X))
    BY <2>1, <2>2, TextIs
  <2>9. /\ \A c \in Solid(t) : c[2] \in Nat /\ y < c[2] /\ c[2] <= Before(b, k + 1)
        /\ Solid(t) # {}
    <3> HIDE DEF t
    <3>1. DOMAIN t = 1 .. Len(t)
      BY <2>8
    <3>2. ASSUME NEW c \in Solid(t) PROVE c[2] \in Nat /\ y < c[2] /\ c[2] <= Before(b, k + 1)
      <4>1. PICK i \in 1 .. Len(t) : c = t[i] /\ c # Space
        BY <3>1 DEF Solid
      <4> QED BY <2>2, <4>1 DEF Within, Blank
    <3>3. t[1] \in Solid(t)
      <4>1. 1 \in 1 .. Len(t)
        BY <2>2, <2>8
      <4>2. Stripped(t)
        BY <2>2, TextIs
      <4> QED BY <2>6, <3>1, <4>1, <4>2 DEF Solid, Stripped, Blank
    <3> QED BY <3>2, <3>3
  <2>10. Covered(k)
    <3>1. \A i \in 1 .. k : i \in 1 .. k - 1 \/ i = k
      OBVIOUS
    <3>2. (\A i \in 1 .. k - 1 : i \in 1 .. k) /\ k \in 1 .. k
      OBVIOUS
    <3>3. All(r.done) \cup Solid(r.now) = (All(acc.done) \cup Solid(acc.now)) \cup Solid(t)
      BY <2>7 DEF PackKeeps
    <3>4. All(acc.done) \cup Solid(acc.now) = UNION {Solid(s[i]) : i \in 1 .. k - 1}
      BY <2>3
    <3>5. UNION {Solid(s[i]) : i \in 1 .. k} = (UNION {Solid(s[i]) : i \in 1 .. k - 1}) \cup Solid(t)
      BY <3>1, <3>2
    <3> QED BY <3>3, <3>4, <3>5
  <2>11. Below(k)
    <3> SUFFICES ASSUME NEW c \in Solid(r.now) PROVE c[2] \in Nat /\ c[2] <= Before(b, k + 1)
      OBVIOUS
    <3>1. c \in Solid(acc.now) \/ c \in Solid(t)
      BY <2>7 DEF PackKeeps
    <3> QED BY <2>2, <2>5, <2>9, <3>1
  <2> DEFINE d == acc.done
             a == acc.now
  <2>12. CASE /\ a # <<>> /\ r.done = Append(d, a) /\ Len(a) + 1 + Len(t) > ChunkSize
    <3>1. PICK c \in Solid(t) : TRUE
      BY <2>9
    <3>2. c \in Solid(r.now) /\ c \notin Solid(a) /\ Len(r.now) >= Len(t)
      <4>1. c \in Solid(r.now) /\ Len(r.now) >= Len(t)
        BY <2>7, <3>1 DEF PackKeeps
      <4>2. c[2] \in Nat /\ y < c[2]
        BY <2>9, <3>1
      <4>3. ASSUME c \in Solid(a) PROVE FALSE
        <5>1. c[2] <= y
          BY <2>5, <4>3
        <5> QED BY <2>2, <4>2, <5>1
      <4> QED BY <4>1, <4>3
    <3>3. a \in ToSet(r.done)
      <4>1. ToSet(Append(d, a)) = ToSet(d) \cup {a}
        BY <2>8, ToSetFacts
      <4> QED BY <2>12, <4>1
    <3>4. Len(a) \in Nat /\ Len(r.now) \in Nat
      BY <2>8, TextIs
    <3>5. Len(a) + 1 + Len(r.now) > ChunkSize
      <4>1. ChunkSize \in Nat
        BY ChunkAssumption
      <4>2. Len(a) + 1 + Len(t) > ChunkSize /\ Len(r.now) >= Len(t) /\ Len(t) \in Nat
        BY <2>8, <2>12, <3>2
      <4> DEFINE la == Len(a)
                 lr == Len(r.now)
                 lt == Len(t)
      <4> HIDE DEF la, lr, lt
      <4>3. la \in Nat /\ lr \in Nat /\ lt \in Nat /\ la + 1 + lt > ChunkSize /\ lr >= lt
        BY <3>4, <4>2 DEF la, lr, lt
      <4>4. la + 1 + lr > ChunkSize
        BY <4>1, <4>3
      <4> QED BY <4>4 DEF la, lr
    <3>6. Split(k)
      <4>1. \E c2 \in Solid(r.now) : c2 \notin Solid(a)
        BY <3>2
      <4>2. r.now \in ToSet(r.done) \cup {r.now} /\ a # <<>>
        BY <2>12
      <4> QED BY <3>3, <3>5, <4>1, <4>2
    <3> QED BY <2>4, <2>10, <2>11, <3>6
  <2>13. CASE /\ r.done = d /\ r.now = Spaced(a, t)
              /\ Solid(a) \subseteq Solid(r.now) /\ Len(r.now) >= Len(a)
    <3>1. CASE Same(k - 1)
      <4>1. Same(k)
        BY <2>1, <2>13, <3>1
      <4> QED BY <2>4, <2>10, <2>11, <4>1
    <3>2. CASE Split(k - 1)
      <4>1. PICK p \in ToSet(d) : \E q \in ToSet(d) \cup {a} :
                /\ p # <<>> /\ Len(p) + 1 + Len(q) > ChunkSize /\ \E c \in Solid(q) : c \notin Solid(p)
        BY <3>2
      <4>2. PICK q \in ToSet(d) \cup {a} :
                p # <<>> /\ Len(p) + 1 + Len(q) > ChunkSize /\ \E c \in Solid(q) : c \notin Solid(p)
        BY <4>1
      <4>3. CASE q \in ToSet(d)
        <5>1. p \in ToSet(r.done) /\ q \in ToSet(r.done) \cup {r.now}
          BY <2>13, <4>1, <4>3
        <5>2. Split(k)
          BY <4>2, <5>1
        <5> QED BY <2>4, <2>10, <2>11, <5>2
      <4>4. CASE q = a
        <5>1. Len(p) \in Nat /\ Len(a) \in Nat /\ Len(r.now) \in Nat /\ ChunkSize \in Nat
          <6>1. p \in TextOver(X)
            BY <2>8, <4>1 DEF ToSet
          <6> QED BY <2>8, <6>1, TextIs, ChunkAssumption
        <5>2. Len(p) + 1 + Len(r.now) > ChunkSize
          <6> HIDE DEF r, a
          <6> QED BY <2>13, <4>2, <4>4, <5>1
        <5>3. \E c \in Solid(r.now) : c \notin Solid(p)
          BY <2>13, <4>2, <4>4
        <5>4. Split(k)
          BY <2>13, <4>1, <4>2, <5>2, <5>3
        <5> QED BY <2>4, <2>10, <2>11, <5>4
      <4> QED BY <4>2, <4>3, <4>4
    <3> QED BY <2>3, <3>1, <3>2
  <2> QED BY <2>7, <2>12, <2>13 DEF PackKeeps
<1>10. \A k \in 0 .. n : k \in S
  <2> HIDE DEF S
  <2> QED BY <1>4, <1>8, <1>9, Along
<1> DEFINE acc == w[n]
           P == PackSentences(s)
<1>11. n \in S /\ P = Closed(acc) /\ e = z[n] /\ acc \in V
  <2>1. n \in 0 .. n /\ n \in 0 .. Len(s)
    BY <1>1, <1>4
  <2>2. FoldLeft(Pack, NothingYet, s) = w[n] /\ FoldLeft(Spaced, <<>>, s) = z[n]
    BY <1>1, <1>6, <1>7 DEF PackingTrace, SpacingTrace
  <2>3. P = Closed(acc)
    BY <2>2 DEF PackSentences
  <2> QED BY <1>2, <1>6, <1>10, <2>1, <2>2, <2>3
<1> HIDE DEF P
<1>12. /\ P \in Seq(TextOver(X))
       /\ ToSet(P) = ToSet(acc.done) \cup (IF acc.now = <<>> THEN {} ELSE {acc.now})
       /\ All(P) = All(acc.done) \cup Solid(acc.now)
  <2>1. acc.done \in Seq(TextOver(X)) /\ acc.now \in TextOver(X)
    BY <1>11
  <2> HIDE DEF acc
  <2> QED BY <1>11, <2>1, ClosedFacts
<1>13. All(P) = All(s)
  <2>1. All(s) = UNION {Solid(s[i]) : i \in 1 .. n}
    <3>1. DOMAIN s = 1 .. n
      BY <1>1
    <3> QED BY <3>1 DEF All, ToSet
  <2> QED BY <1>11, <1>12, <2>1
<1>14. ASSUME Len(e) > ChunkSize PROVE Plenty(ToSet(P))
  <2>1. CASE Same(n)
    <3>1. acc.now = e
      BY <1>11, <2>1
    <3>2. e # <<>>
      BY <1>14, ChunkAssumption
    <3> QED BY <1>12, <1>14, <3>1, <3>2 DEF Plenty
  <2>2. CASE Split(n)
    <3>1. Solid(<<>>) = {}
      BY DEF Solid
    <3>2. PICK p \in ToSet(acc.done) : \E q \in ToSet(acc.done) \cup {acc.now} :
              /\ p # <<>> /\ Len(p) + 1 + Len(q) > ChunkSize /\ \E c \in Solid(q) : c \notin Solid(p)
      BY <2>2
    <3>3. PICK q \in ToSet(acc.done) \cup {acc.now} :
              p # <<>> /\ Len(p) + 1 + Len(q) > ChunkSize /\ \E c \in Solid(q) : c \notin Solid(p)
      BY <3>2
    <3>4. q # <<>>
      BY <3>1, <3>3
    <3>5. p \in ToSet(P) /\ q \in ToSet(P)
      BY <1>12, <3>2, <3>3, <3>4
    <3> QED BY <3>3, <3>5 DEF Plenty, Pair
  <2> QED BY <1>11, <2>1, <2>2
<1> QED BY <1>12, <1>13, <1>14 DEF P, s, X, e

-----------------------------------------------------------------------------
(* _split_long_text: windows.                                              *)

\* A window: the characters at its positions.
LEMMA WindowFacts ==
    ASSUME NEW X, NEW s \in Seq(X), NEW a \in 1 .. Len(s) + 1, NEW z \in 0 .. Len(s), a <= z + 1
    PROVE  /\ StripText(SubSeq(s, a, z)) \in TextOver(X)
           /\ Solid(StripText(SubSeq(s, a, z))) = {s[i] : i \in a .. z} \ {Space}
<1> DEFINE r == SubSeq(s, a, z)
<1>1. /\ r \in Seq(X) /\ Len(r) = z - a + 1
      /\ \A i \in 1 .. Len(r) : r[i] = s[a + i - 1] /\ a + i - 1 \in a .. z
  OBVIOUS
<1>2. \A i \in a .. z : i - a + 1 \in 1 .. (z - a + 1) /\ a + (i - a + 1) - 1 = i
  OBVIOUS
<1> HIDE DEF r
<1>3. DOMAIN r = 1 .. Len(r)
  BY <1>1
<1>4. Solid(r) = {s[i] : i \in a .. z} \ {Space}
  <2>1. ASSUME NEW c \in Solid(r) PROVE c \in {s[i] : i \in a .. z} \ {Space}
    BY <1>1, <1>3 DEF Solid
  <2>2. ASSUME NEW i \in a .. z, s[i] # Space PROVE s[i] \in Solid(r)
    <3>1. i - a + 1 \in 1 .. Len(r) /\ r[i - a + 1] = s[i]
      BY <1>1, <1>2
    <3> QED BY <1>3, <2>2, <3>1 DEF Solid
  <2> QED BY <2>1, <2>2
<1>5. StripText(r) \in Seq(X) /\ Solid(StripText(r)) = Solid(r) /\ Stripped(StripText(r))
  BY <1>1, StripTextFacts
<1> QED BY <1>4, <1>5 DEF TextOver, r

\* The first window loses a space at its end at most.
LEMMA FirstWindow ==
    ASSUME NEW X, Space \in X, NEW s \in TextOver(X), NoGap(s), NEW m \in 1 .. Len(s)
    PROVE  /\ Len(StripText(SubSeq(s, 1, m))) >= m - 1
           /\ StripText(SubSeq(s, 1, m)) # <<>>
<1> DEFINE r == SubSeq(s, 1, m)
           p == StripText(r)
<1>1. s \in Seq(X) /\ Stripped(s) /\ Len(s) \in Nat
  BY TextIs
<1>2. m \in Nat /\ 1 <= m /\ m <= Len(s) /\ s # <<>>
  BY <1>1
<1>3. r \in Seq(X) /\ Len(r) = m /\ \A i \in 1 .. m : r[i] = s[i]
  BY <1>1, <1>2
<1> HIDE DEF r, p
<1>4. ~Blank(r[1]) /\ r # <<>>
  BY <1>1, <1>2, <1>3 DEF Stripped
<1>5. /\ p \in Seq(X) /\ Solid(p) = Solid(r)
      /\ r # <<>> /\ ~Blank(r[Len(r)]) => p = StripLeft(r)
  BY <1>3, StripTextFacts DEF p
<1>6. StripLeft(r) = r
  BY <1>3, <1>4, StripLeftFacts
<1>7. r[1] \in Solid(r)
  <2>1. 1 \in DOMAIN r
    BY <1>2, <1>3
  <2> QED BY <1>4, <2>1 DEF Solid, Blank
<1>8. p # <<>>
  <2>1. Solid(<<>>) = {}
    BY DEF Solid
  <2> QED BY <1>5, <1>7, <2>1
<1>9. CASE ~Blank(r[m])
  BY <1>2, <1>3, <1>4, <1>5, <1>6, <1>8, <1>9 DEF p, r
<1>10. CASE Blank(r[m])
  <2>1. m # 1
    BY <1>4, <1>10
  <2> DEFINE q == SubSeq(s, 1, m - 1)
  <2>2. q \in Seq(X) /\ Len(q) = m - 1 /\ \A i \in 1 .. m - 1 : q[i] = s[i]
    BY <1>1, <1>2
  <2>3. q \o <<Space>> \o <<>> = r
    <3> DEFINE j == q \o <<Space>> \o <<>>
    <3>1. j \in Seq(X) /\ Len(j) = m /\ (\A i \in 1 .. m - 1 : j[i] = q[i]) /\ j[m] = Space
      <4> HIDE DEF q, Space
      <4> QED BY <1>2, <2>2
    <3>2. r[m] = Space
      BY <1>10 DEF Blank
    <3>3. \A i \in 1 .. m : i \in 1 .. m - 1 \/ i = m
      BY <1>2
    <3>4. \A i \in 1 .. m : j[i] = r[i]
      BY <1>3, <2>2, <3>1, <3>2, <3>3
    <3> HIDE DEF j
    <3>5. j = r
      BY <1>3, <3>1, <3>4
    <3> QED BY <3>5 DEF j
  <2>4. ~Blank(q[1]) /\ ~Blank(q[m - 1])
    <3>1. 1 \in 1 .. m - 1 /\ m - 1 \in 1 .. m - 1 /\ m - 1 \in 1 .. Len(s) /\ (m - 1) + 1 = m
          /\ m \in 1 .. m /\ 1 \in 1 .. m
      BY <1>1, <1>2, <2>1
    <3>2. s[m] = r[m] /\ s[1] = r[1]
      BY <1>3, <3>1
    <3>3. ~Blank(s[m - 1])
      BY <1>10, <3>1, <3>2 DEF NoGap
    <3> QED BY <1>4, <2>2, <3>1, <3>2, <3>3
  <2> HIDE DEF q
  <2>5. Stripped(q)
    BY <2>2, <2>4 DEF Stripped
  <2>6. q # <<>>
    BY <1>2, <2>1, <2>2
  <2>7. Spaced(q, <<>>) = q
    <3>1. <<>> \in Seq(X) /\ Stripped(<<>>)
      BY DEF Stripped
    <3> QED BY <2>2, <2>5, <2>6, <3>1, SpacedIs
  <2>8. p = q
    BY <2>3, <2>7 DEF Spaced, p
  <2> QED BY <1>8, <2>2, <2>8 DEF p, r
<1> QED BY <1>9, <1>10

\* Empty windows are left out.
NotEmpty(s) == FoldLeft(LAMBDA ps, p : IF p # <<>> THEN Append(ps, p) ELSE ps, <<>>, s)

\* Empty pieces are left out.
LEMMA NotEmptyFacts ==
    ASSUME NEW A, NEW s \in Seq(A)
    PROVE  NotEmpty(s) \in Seq(A) /\ ToSet(NotEmpty(s)) = ToSet(s) \ {<<>>}
<1>1. PICK w \in [0 .. Len(s) -> Seq(A)] : WindowingTrace(w, s)
  BY Windowing
<1> DEFINE n == Len(s)
           S == {k \in 0 .. n : ToSet(w[k]) = {s[i] : i \in 1 .. k} \ {<<>>}}
<1>2. n \in Nat /\ \A k \in 1 .. n : s[k] \in A
  OBVIOUS
<1>3. 0 \in S
  <2>1. w[0] = <<>>
    BY <1>1 DEF WindowingTrace
  <2>2. ToSet(<<>>) = {} /\ 1 .. 0 = {}
    BY DEF ToSet
  <2> QED BY <1>2, <2>1, <2>2
<1>4. ASSUME NEW k \in 1 .. n, k - 1 \in S PROVE k \in S
  <2>1. k \in 0 .. n /\ k - 1 \in 0 .. n
    BY <1>2
  <2>2. w[k] = (IF s[k] # <<>> THEN Append(w[k - 1], s[k]) ELSE w[k - 1]) /\ w[k - 1] \in Seq(A)
    BY <1>1, <2>1 DEF WindowingTrace
  <2>3. ToSet(Append(w[k - 1], s[k])) = ToSet(w[k - 1]) \cup {s[k]}
    BY <1>2, <2>2, ToSetFacts
  <2>4. ToSet(w[k - 1]) = {s[i] : i \in 1 .. k - 1} \ {<<>>}
    BY <1>4
  <2>5. {s[i] : i \in 1 .. k} = {s[i] : i \in 1 .. k - 1} \cup {s[k]}
    <3>1. \A i \in 1 .. k : i \in 1 .. k - 1 \/ i = k
      OBVIOUS
    <3>2. (\A i \in 1 .. k - 1 : i \in 1 .. k) /\ k \in 1 .. k
      OBVIOUS
    <3> QED BY <3>1, <3>2
  <2>6. ToSet(w[k]) = {s[i] : i \in 1 .. k} \ {<<>>}
    BY <2>2, <2>3, <2>4, <2>5
  <2> QED BY <2>1, <2>6
<1>5. \A k \in 0 .. n : k \in S
  <2> HIDE DEF S
  <2> QED BY <1>2, <1>3, <1>4, Along
<1>6. NotEmpty(s) = w[n]
  BY <1>1, Zenon DEF WindowingTrace, NotEmpty
<1>7. n \in 0 .. n
  BY <1>2
<1>8. ToSet(s) = {s[i] : i \in 1 .. n}
  BY DEF ToSet
<1> QED BY <1>1, <1>5, <1>6, <1>7, <1>8

\* Division rounded up.
LEMMA Quotient ==
    ASSUME NEW x \in Nat, NEW d \in Nat \ {0}
    PROVE  x \div d \in Nat /\ (x \div d) * d <= x /\ x < (x \div d) * d + d
<1>1. x \div d \in Nat
  OBVIOUS
<1>2. (x \div d) * d <= x
  OBVIOUS
<1>3. x < (x \div d) * d + d
  OBVIOUS
<1> QED BY <1>1, <1>2, <1>3

\* Every position is within a window's step.
LEMMA Multiples ==
    ASSUME NEW d \in Nat, NEW m \in Nat, NEW k \in 0 .. m
    PROVE  k * d \in Nat /\ m * d \in Nat /\ k * d <= m * d /\ (k + 1) * d = k * d + d
OBVIOUS

\* Windows at every step lose no character, and the first of them and another
\* are longer than a chunk.
LEMMA WindowsFacts ==
    ASSUME NEW b, NEW s \in TextOver(Letters(b)), Ordered(s), NoGap(s), Len(s) > ChunkSize
    PROVE  /\ Windows(s) \in Seq(TextOver(Letters(b))) /\ All(Windows(s)) = Solid(s)
           /\ Plenty(ToSet(Windows(s)))
<1> DEFINE X == Letters(b)
           step == ChunkSize - Overlap
           more == (Len(s) - ChunkSize + step - 1) \div step
           upto(i) == IF i + ChunkSize > Len(s) THEN Len(s) ELSE i + ChunkSize
           from(k) == (k - 1) * step
           pieces == [k \in 1 .. more + 1 |-> StripText(SubSeq(s, (k - 1) * step + 1, upto((k - 1) * step)))]
           r == Windows(s)
<1>1. s \in Seq(X) /\ Stripped(s) /\ Len(s) \in Nat
  BY TextIs
<1>2. Space \in X
  BY DEF Letters
<1>3. ChunkSize \in Nat \ {0} /\ Overlap \in 0 .. ChunkSize - 1
  BY ChunkAssumption
<1>4. r = NotEmpty(pieces)
  BY Zenon DEF Windows, NotEmpty
<1>5. step \in Nat \ {0} /\ step <= ChunkSize
  BY <1>3
<1>6. /\ more \in Nat /\ more * step \in Nat
      /\ more * step + ChunkSize >= Len(s) /\ more * step <= Len(s)
  <2> DEFINE x == Len(s) - ChunkSize + step - 1
  <2>1. x \in Nat /\ x < Len(s)
    BY <1>1, <1>3, <1>5
  <2> HIDE DEF x
  <2>2. x \div step \in Nat /\ (x \div step) * step <= x /\ x < (x \div step) * step + step
    <3> HIDE DEF step
    <3> QED BY <1>5, <2>1, Quotient
  <2>3. more = x \div step
    BY DEF x
  <2> HIDE DEF more
  <2>4. more \in Nat /\ more * step <= x /\ x < more * step + step
    BY <2>2, <2>3
  <2>5. more * step \in Nat
    BY <1>5, <2>4, Multiples
  <2> DEFINE y == more * step
  <2> HIDE DEF y
  <2>6. y \in Nat /\ y <= x /\ x < y + step
    BY <2>4, <2>5 DEF y
  <2>7. x = Len(s) - ChunkSize + step - 1
    BY DEF x
  <2> HIDE DEF step
  <2>8. y + ChunkSize >= Len(s) /\ y <= Len(s)
    BY <1>1, <1>3, <1>5, <2>1, <2>6, <2>7
  <2> QED BY <2>4, <2>5, <2>8 DEF y
<1> HIDE DEF step, more, r
<1>7. ASSUME NEW k \in 1 .. more + 1
      PROVE  /\ from(k) \in Nat /\ from(k) + 1 \in 1 .. Len(s) + 1
             /\ upto(from(k)) \in 0 .. Len(s) /\ from(k) + 1 <= upto(from(k)) + 1
             /\ pieces[k] = StripText(SubSeq(s, from(k) + 1, upto(from(k))))
  <2>1. k - 1 \in 0 .. more
    BY <1>6
  <2>2. from(k) \in Nat /\ from(k) <= more * step
    BY <1>5, <1>6, <2>1, Multiples
  <2>3. pieces[k] = StripText(SubSeq(s, from(k) + 1, upto(from(k))))
    BY Zenon
  <2> HIDE DEF pieces
  <2> DEFINE f == from(k)
             y == more * step
  <2>4. f \in Nat /\ f <= y /\ y \in Nat /\ y <= Len(s)
    BY <1>6, <2>2
  <2> HIDE DEF f, y
  <2>5. f + 1 \in 1 .. Len(s) + 1 /\ upto(f) \in 0 .. Len(s) /\ f + 1 <= upto(f) + 1
    BY <1>1, <1>3, <2>4
  <2> QED BY <2>3, <2>4, <2>5 DEF f
<1>8. ASSUME NEW k \in 1 .. more + 1
      PROVE  /\ pieces[k] \in TextOver(X)
             /\ Solid(pieces[k]) = {s[i] : i \in from(k) + 1 .. upto(from(k))} \ {Space}
  <2> DEFINE a == from(k) + 1
             z == upto(from(k))
  <2>1. a \in 1 .. Len(s) + 1 /\ z \in 0 .. Len(s) /\ a <= z + 1 /\ pieces[k] = StripText(SubSeq(s, a, z))
    BY <1>7
  <2> HIDE DEF a, z, pieces
  <2>2. StripText(SubSeq(s, a, z)) \in TextOver(X) /\ Solid(StripText(SubSeq(s, a, z))) = {s[i] : i \in a .. z} \ {Space}
    BY <1>1, <2>1, WindowFacts
  <2> QED BY <2>1, <2>2 DEF a, z
<1>9. pieces \in Seq(TextOver(X)) /\ Len(pieces) = more + 1 /\ DOMAIN pieces = 1 .. more + 1
  <2>1. DOMAIN pieces = 1 .. more + 1 /\ pieces = [k \in DOMAIN pieces |-> pieces[k]]
    OBVIOUS
  <2> HIDE DEF pieces
  <2>2. pieces \in [1 .. more + 1 -> TextOver(X)]
    BY <1>8, <2>1
  <2> QED BY <1>6, <2>1, <2>2
<1>10. r \in Seq(TextOver(X)) /\ ToSet(r) = ToSet(pieces) \ {<<>>}
  <2> HIDE DEF pieces
  <2> QED BY <1>4, <1>9, NotEmptyFacts
<1>11. ToSet(pieces) = {pieces[k] : k \in 1 .. more + 1}
  BY <1>9 DEF ToSet
<1>12. ASSUME NEW i \in 1 .. Len(s), ~Blank(s[i])
       PROVE  \E k \in 1 .. more + 1 : s[i] \in Solid(pieces[k])
  <2> DEFINE S == {k \in 0 .. more : k * step < i}
  <2>1. S # {} /\ S \subseteq 0 .. more
    <3>1. 0 * step = 0 /\ 0 \in 0 .. more
      BY <1>5, <1>6
    <3>2. 0 \in S
      BY <3>1
    <3> QED BY <3>2
  <2>2. PICK m \in S : \A k \in S : m >= k
    <3> HIDE DEF S
    <3> QED BY <1>6, <2>1, Greatest
  <2> DEFINE f == m * step
  <2>3. m \in 0 .. more /\ f < i /\ f \in Nat /\ (m + 1) * step = f + step
    <3>1. m \in 0 .. more
      OBVIOUS
    <3> QED BY <1>5, <1>6, <3>1, Multiples
  <2>4. i <= f + ChunkSize
    <3>1. CASE m = more
      <4> DEFINE y == more * step
      <4>1. f = y /\ y \in Nat /\ y + ChunkSize >= Len(s)
        BY <1>6, <3>1
      <4> HIDE DEF f, y
      <4> QED BY <1>1, <1>3, <4>1
    <3>2. CASE m # more
      <4>1. m + 1 \in 0 .. more /\ m + 1 > m
        BY <1>6, <2>3, <3>2
      <4>2. ~((m + 1) * step < i)
        <5>1. m + 1 \notin S
          BY <2>2, <2>3, <4>1
        <5> QED BY <4>1, <5>1
      <4>3. ~(f + step < i)
        BY <2>3, <4>2
      <4> HIDE DEF f
      <4> QED BY <1>3, <1>5, <2>3, <4>3
    <3> QED BY <3>1, <3>2
  <2>5. m + 1 \in 1 .. more + 1 /\ from(m + 1) = f
    <3>1. m + 1 \in 1 .. more + 1 /\ (m + 1) - 1 = m
      BY <1>6, <2>3
    <3> QED BY <3>1
  <2> HIDE DEF f
  <2>6. i \in f + 1 .. upto(f)
    BY <1>1, <1>3, <2>3, <2>4
  <2>7. Solid(pieces[m + 1]) = {s[j] : j \in f + 1 .. upto(f)} \ {Space}
    BY <1>8, <2>5
  <2>8. s[i] \in Solid(pieces[m + 1])
    BY <1>12, <2>6, <2>7 DEF Blank
  <2> QED BY <2>5, <2>8
<1> HIDE DEF pieces
<1>13. ASSUME NEW k \in 1 .. more + 1 PROVE Solid(pieces[k]) \subseteq Solid(s)
  <2> DEFINE a == from(k) + 1
             z == upto(from(k))
  <2>1. a \in 1 .. Len(s) + 1 /\ z \in 0 .. Len(s) /\ Solid(pieces[k]) = {s[i] : i \in a .. z} \ {Space}
    BY <1>7, <1>8
  <2> HIDE DEF a, z
  <2>2. DOMAIN s = 1 .. Len(s) /\ \A i \in a .. z : i \in 1 .. Len(s)
    BY <1>1, <2>1
  <2> QED BY <2>1, <2>2 DEF Solid
<1>14. All(r) = Solid(s)
  <2>1. ASSUME NEW c \in All(r) PROVE c \in Solid(s)
    <3>1. PICK t \in ToSet(r) : c \in Solid(t)
      BY DEF All
    <3>2. PICK k \in 1 .. more + 1 : t = pieces[k]
      BY <1>10, <1>11, <3>1
    <3> QED BY <1>13, <3>1, <3>2
  <2>2. ASSUME NEW c \in Solid(s) PROVE c \in All(r)
    <3>1. PICK i \in 1 .. Len(s) : c = s[i] /\ ~Blank(s[i])
      BY <1>1 DEF Solid, Blank
    <3>2. PICK k \in 1 .. more + 1 : s[i] \in Solid(pieces[k])
      BY <1>12, <3>1
    <3>3. pieces[k] # <<>>
      <4>1. Solid(<<>>) = {}
        BY DEF Solid
      <4> QED BY <3>2, <4>1
    <3>4. pieces[k] \in ToSet(r)
      BY <1>10, <1>11, <3>3
    <3> QED BY <3>1, <3>2, <3>4 DEF All
  <2> QED BY <2>1, <2>2
<1>15. Plenty(ToSet(r))
  <2> DEFINE p == pieces[1]
             L == Len(s)
             z == upto(0)
  <2>0. z = ChunkSize /\ 1 \in 1 .. more + 1
    BY <1>1, <1>3, <1>6
  <2>1. p = StripText(SubSeq(s, 1, ChunkSize)) /\ Solid(p) = {s[i] : i \in 1 .. ChunkSize} \ {Space}
    <3>1. from(1) = 0
      BY <1>5
    <3>2. 0 + 1 = 1
      OBVIOUS
    <3> QED BY <1>7, <1>8, <2>0, <3>1, <3>2
  <2>2. ChunkSize \in 1 .. Len(s)
    BY <1>1, <1>3
  <2>3. Len(p) >= ChunkSize - 1 /\ p # <<>>
    BY <1>2, <2>1, <2>2, FirstWindow
  <2>4. L \in 1 .. Len(s) /\ ~Blank(s[L])
    <3>1. s # <<>>
      BY <1>1, <1>3
    <3> QED BY <1>1, <1>3, <3>1 DEF Stripped
  <2>5. PICK k \in 1 .. more + 1 : s[L] \in Solid(pieces[k])
    BY <1>12, <2>4
  <2> DEFINE q == pieces[k]
  <2>6. p \in TextOver(X) /\ q \in TextOver(X)
    BY <1>8, <2>0
  <2>7. s[L] \notin Solid(p)
    <3> SUFFICES ASSUME NEW i \in 1 .. ChunkSize, s[i] = s[L] PROVE FALSE
      BY <2>1
    <3>1. i \in 1 .. Len(s) /\ i < L
      BY <1>1, <1>3, <2>4
    <3>2. s[i][2] < s[L][2]
      BY <2>4, <3>1 DEF Ordered
    <3>3. s[L][2] \in Nat
      <4>1. s[L] \in X /\ s[L] # Space
        BY <1>1, <2>4 DEF Blank
      <4>2. s[L] \in {b.id} \X Nat
        BY <4>1 DEF Letters
      <4> QED BY <4>2
    <3> QED BY <3>2, <3>3
  <2>8. q # <<>>
    <3>1. Solid(<<>>) = {}
      BY DEF Solid
    <3> QED BY <2>5, <3>1
  <2>9. p \in ToSet(r) /\ q \in ToSet(r)
    BY <1>10, <1>11, <2>0, <2>3, <2>8
  <2>10. Len(q) \in Nat /\ Len(q) # 0 /\ Len(p) \in Nat
    <3>1. q \in Seq(X) /\ p \in Seq(X)
      BY <2>6, TextIs
    <3> HIDE DEF q, p
    <3> QED BY <2>8, <3>1
  <2> HIDE DEF p, q
  <2>11. Len(p) + 1 + Len(q) > ChunkSize
    BY <1>3, <2>3, <2>10
  <2>12. s[L] \in Solid(q)
    BY <2>5 DEF q
  <2> QED BY <2>3, <2>7, <2>9, <2>11, <2>12 DEF Plenty, Pair
<1> QED BY <1>10, <1>14, <1>15 DEF r

-----------------------------------------------------------------------------
(* _split_long_text as a whole, and flattening.                            *)

\* Enough text for an index entry, in one piece or in two different ones.
Fills(P) ==
    \/ \E p \in P : Len(p) >= MinIndexable
    \/ \E p, q \in P : p # q /\ p # <<>> /\ q # <<>> /\ Len(p) + 1 + Len(q) >= MinIndexable

\* _split_long_text
LEMMA SplitFacts ==
    ASSUME NEW b, b.sentences \in Seq(Nat \ {0})
    PROVE  /\ SplitLongText(CleanText(b), SentencesOf(b)) \in Seq(TextOver(Letters(b)))
           /\ All(SplitLongText(CleanText(b), SentencesOf(b))) = Solid(CleanText(b))
           /\ MinIndexable <= ChunkSize /\ Len(CleanText(b)) >= MinIndexable =>
                Fills(ToSet(SplitLongText(CleanText(b), SentencesOf(b))))
<1> DEFINE s == CleanText(b)
           t == SentencesOf(b)
           r == SplitLongText(s, t)
           X == Letters(b)
<1>1. b.sentences \in Seq(Nat)
  OBVIOUS
<1>2. s \in TextOver(X) /\ Solid(s) = All(t) /\ Ordered(s) /\ NoGap(s)
  BY <1>1, CleanTextFacts
<1>3. ChunkSize \in Nat /\ MinIndexable \in Nat /\ Len(s) \in Nat
  BY <1>2, TextIs, ChunkAssumption
<1>4. CASE Len(s) <= ChunkSize
  <2>1. r = <<s>> 
    BY <1>4 DEF SplitLongText
  <2>2. ToSet(<<s>>) = {s}
    BY DEF ToSet
  <2> HIDE DEF s, t, X, r
  <2>3. <<s>> \in Seq(TextOver(X))
    BY <1>2
  <2>4. All(<<s>>) = Solid(s)
    BY <2>2 DEF All
  <2>5. Len(s) >= MinIndexable => Fills(ToSet(<<s>>))
    <3>1. s \in ToSet(<<s>>)
      BY <2>2
    <3> HIDE DEF Space
    <3> QED BY <3>1 DEF Fills
  <2> QED BY <2>1, <2>3, <2>4, <2>5 DEF s, t, r, X
<1>5. CASE Len(s) > ChunkSize
  <2>1. r = PackSentences(t) \/ r = Windows(s)
    BY <1>3, <1>5 DEF SplitLongText
  <2>2. /\ PackSentences(t) \in Seq(TextOver(X)) /\ All(PackSentences(t)) = All(t)
        /\ Plenty(ToSet(PackSentences(t)))
    BY <1>5, PackFacts
  <2>3. Windows(s) \in Seq(TextOver(X)) /\ All(Windows(s)) = Solid(s) /\ Plenty(ToSet(Windows(s)))
    BY <1>2, <1>5, WindowsFacts
  <2> HIDE DEF s, t, r
  <2>4. r \in Seq(TextOver(X)) /\ All(r) = Solid(s) /\ Plenty(ToSet(r))
    BY <1>2, <2>1, <2>2, <2>3
  <2>5. ASSUME MinIndexable <= ChunkSize PROVE Fills(ToSet(r))
    <3>1. ASSUME NEW p \in ToSet(r) PROVE p \in TextOver(X) /\ Len(p) \in Nat
      <4>1. p \in TextOver(X)
        BY <2>4 DEF ToSet
      <4> QED BY <4>1, TextIs
    <3>2. CASE \E p \in ToSet(r) : Len(p) > ChunkSize
      BY <1>3, <2>5, <3>1, <3>2 DEF Fills
    <3>3. CASE Pair(ToSet(r))
      <4>1. PICK p \in ToSet(r), q \in ToSet(r) :
                p # <<>> /\ Len(p) + 1 + Len(q) > ChunkSize /\ \E c \in Solid(q) : c \notin Solid(p)
        BY <3>3 DEF Pair
      <4>2. p # q /\ q # <<>>
        <5>1. Solid(<<>>) = {}
          BY DEF Solid
        <5> QED BY <4>1, <5>1
      <4>3. Len(p) + 1 + Len(q) >= MinIndexable
        <5>1. Len(p) \in Nat /\ Len(q) \in Nat
          BY <3>1
        <5> QED BY <1>3, <2>5, <4>1, <5>1
      <4> QED BY <4>1, <4>2, <4>3 DEF Fills
    <3> QED BY <2>4, <3>2, <3>3 DEF Plenty
  <2> QED BY <2>4, <2>5 DEF s, t, r
<1> QED BY <1>3, <1>4, <1>5

\* Sequences one after another.
FlatTrace(w, s) ==
    /\ w[0] = <<>> /\ FlattenSeq(s) = w[Len(s)]
    /\ \A k \in 1 .. Len(s) : w[k] = w[k - 1] \o s[k]

\* Flattening a sequence of sequences, step by step.
LEMMA Flattening ==
    ASSUME NEW A, NEW s \in Seq(Seq(A))
    PROVE  \E w \in [0 .. Len(s) -> Seq(A)] : FlatTrace(w, s)
<1> DEFINE size == Len(s)
           V == Seq(A)
           base == <<>>
           G == [p \in (1 .. size) \X V |-> p[2] \o s[p[1]]]
           flat == CHOOSE f : f = [i \in 1 .. size |-> IF i = 1 THEN s[i] ELSE f[i - 1] \o s[i]]
<1>1. size \in Nat /\ DOMAIN s = 1 .. size /\ (size = 0 => s = <<>>)
  OBVIOUS
<1>2. base \in V /\ \A v \in V : \A i \in 1 .. size : v \o s[i] \in V
  <2>1. \A i \in 1 .. size : s[i] \in Seq(A)
    OBVIOUS
  <2> QED BY <2>1
<1>3. size # 0 => FlattenSeq(s) = flat[size]
  BY Zenon DEF FlattenSeq
<1>4. size = 0 => FlattenSeq(s) = s
  BY Zenon DEF FlattenSeq
<1>s. \A i \in 1 .. size : s[i] \in V
  OBVIOUS
<1>e. \A v \in V : base \o v = v
  OBVIOUS
<1> HIDE DEF V, size, base
<1>5. G \in [(1 .. size) \X V -> V] /\ \A i \in 1 .. size : \A v \in V : G[<<i, v>>] = v \o s[i]
  BY <1>2
<1> HIDE DEF G
<1>6. PICK u \in [SUBSET (1 .. size) -> V] : Builds(u, size, base, G)
  BY <1>1, <1>2, <1>5, FoldExists
<1>7. PICK w \in [0 .. size -> V] : Traces(w, u, size, base, G)
  BY <1>1, <1>5, <1>6, FoldTrace
<1>8. ASSUME NEW k \in 1 .. size PROVE w[k] = w[k - 1] \o s[k]
  <2>1. w[k - 1] \in V
    BY <1>1
  <2>2. w[k] = G[<<k, w[k - 1]>>]
    BY <1>7 DEF Traces
  <2> QED BY <1>5, <2>1, <2>2
<1>9. w[0] = base
  BY <1>7 DEF Traces
<1>10. ASSUME NEW i \in 1 .. size PROVE i = 1 => w[i] = s[i]
  <2> SUFFICES ASSUME i = 1 PROVE w[i] = s[i]
    OBVIOUS
  <2>1. i - 1 = 0
    OBVIOUS
  <2>2. w[i] = w[i - 1] \o s[i]
    BY <1>8
  <2>3. w[i] = base \o s[i] /\ s[i] \in V
    BY <1>9, <1>s, <2>1, <2>2
  <2> QED BY <1>e, <2>3
<1> DEFINE g == [i \in 1 .. size |-> w[i]]
<1>11. g = [i \in 1 .. size |-> IF i = 1 THEN s[i] ELSE g[i - 1] \o s[i]]
  <2>1. ASSUME NEW i \in 1 .. size PROVE w[i] = IF i = 1 THEN s[i] ELSE g[i - 1] \o s[i]
    <3>1. i # 1 => i - 1 \in 1 .. size
      BY <1>1
    <3>2. i # 1 => g[i - 1] = w[i - 1]
      BY <3>1
    <3> QED BY <1>8, <1>10, <3>2
  <2>2. \A i \in 1 .. size : w[i] = IF i = 1 THEN s[i] ELSE g[i - 1] \o s[i]
    BY <2>1
  <2>3. g = [i \in 1 .. size |-> w[i]]
    OBVIOUS
  <2> HIDE DEF g
  <2> QED BY <2>2, <2>3, Zenon
<1>12. flat = [i \in 1 .. size |-> IF i = 1 THEN s[i] ELSE flat[i - 1] \o s[i]]
  <2> HIDE DEF g
  <2> QED BY <1>11, Zenon
<1> HIDE DEF flat
<1> DEFINE S == {k \in 0 .. size : k = 0 \/ flat[k] = w[k]}
<1>13. \A k \in 0 .. size : k \in S
  <2>1. 0 \in S
    BY <1>1
  <2>2. ASSUME NEW k \in 1 .. size, k - 1 \in S PROVE k \in S
    <3>1. flat[k] = IF k = 1 THEN s[k] ELSE flat[k - 1] \o s[k]
      BY <1>12
    <3>2. k # 1 => flat[k - 1] = w[k - 1]
      BY <2>2
    <3>3. flat[k] = w[k]
      BY <1>8, <1>10, <3>1, <3>2
    <3> QED BY <1>1, <3>3
  <2> HIDE DEF S
  <2> QED BY <1>1, <2>1, <2>2, Along
<1>14. FlattenSeq(s) = w[size]
  <2>1. CASE size = 0
    BY <1>1, <1>4, <1>9, <2>1 DEF base
  <2>2. CASE size # 0
    <3>1. size \in S
      BY <1>1, <1>13
    <3> QED BY <1>3, <2>2, <3>1
  <2> QED BY <2>1, <2>2
<1>15. FlatTrace(w, s)
  BY <1>8, <1>9, <1>14 DEF FlatTrace, size, base
<1> QED BY <1>15 DEF size, V

\* The flattened sequence has the members of the parts.
LEMMA FlattenFacts ==
    ASSUME NEW A, NEW s \in Seq(Seq(A))
    PROVE  /\ FlattenSeq(s) \in Seq(A)
           /\ ToSet(FlattenSeq(s)) = UNION {ToSet(s[k]) : k \in 1 .. Len(s)}
<1>1. PICK w \in [0 .. Len(s) -> Seq(A)] : FlatTrace(w, s)
  BY Flattening
<1> DEFINE n == Len(s)
           S == {k \in 0 .. n : ToSet(w[k]) = UNION {ToSet(s[i]) : i \in 1 .. k}}
<1>2. n \in Nat /\ \A k \in 1 .. n : s[k] \in Seq(A)
  OBVIOUS
<1>3. 0 \in S
  <2>1. w[0] = <<>>
    BY <1>1 DEF FlatTrace
  <2>2. ToSet(<<>>) = {} /\ 1 .. 0 = {}
    BY DEF ToSet
  <2> QED BY <1>2, <2>1, <2>2
<1>4. ASSUME NEW k \in 1 .. n, k - 1 \in S PROVE k \in S
  <2>1. k \in 0 .. n /\ k - 1 \in 0 .. n
    BY <1>2
  <2>2. w[k] = w[k - 1] \o s[k] /\ w[k - 1] \in Seq(A)
    BY <1>1, <2>1 DEF FlatTrace
  <2>3. ToSet(w[k - 1] \o s[k]) = ToSet(w[k - 1]) \cup ToSet(s[k])
    <3> DEFINE u == w[k - 1]
               v == s[k]
    <3>1. u \in Seq(A) /\ v \in Seq(A)
      BY <1>2, <2>2
    <3> HIDE DEF u, v
    <3>2. ToSet(u \o v) = ToSet(u) \cup ToSet(v)
      <4>1. CASE A = {}
        <5>1. u = <<>> /\ v = <<>> /\ u \o v = <<>>
          BY <3>1, <4>1
        <5> QED BY <5>1
      <4>2. CASE A # {}
        <5>1. PICK e \in A : TRUE
          BY <4>2
        <5> QED BY <3>1, <5>1, ToSetFacts
      <4> QED BY <4>1, <4>2
    <3> QED BY <3>2 DEF u, v
  <2>4. ToSet(w[k - 1]) = UNION {ToSet(s[i]) : i \in 1 .. k - 1}
    BY <1>4
  <2>5. UNION {ToSet(s[i]) : i \in 1 .. k} = (UNION {ToSet(s[i]) : i \in 1 .. k - 1}) \cup ToSet(s[k])
    <3>1. \A i \in 1 .. k : i \in 1 .. k - 1 \/ i = k
      OBVIOUS
    <3>2. (\A i \in 1 .. k - 1 : i \in 1 .. k) /\ k \in 1 .. k
      OBVIOUS
    <3> QED BY <3>1, <3>2
  <2>6. ToSet(w[k]) = UNION {ToSet(s[i]) : i \in 1 .. k}
    BY <2>2, <2>3, <2>4, <2>5
  <2> QED BY <2>1, <2>6
<1>5. \A k \in 0 .. n : k \in S
  <2> HIDE DEF S
  <2> QED BY <1>2, <1>3, <1>4, Along
<1>6. FlattenSeq(s) = w[n] /\ n \in 0 .. n
  BY <1>1, <1>2 DEF FlatTrace
<1> QED BY <1>1, <1>5, <1>6

-----------------------------------------------------------------------------
(* _chunk_block_group: pieces are collected.                               *)

\* The members of the members.
Leaves(ts) == UNION {ToSet(t) : t \in ToSet(ts)}

\* The texts of one collection more.
LEMMA LeavesFacts ==
    ASSUME NEW A, NEW s \in Seq(Seq(A)), NEW e \in Seq(A)
    PROVE  Leaves(<<>>) = {} /\ Leaves(Append(s, e)) = Leaves(s) \cup ToSet(e)
<1>1. ToSet(<<>>) = {} /\ ToSet(Append(s, e)) = ToSet(s) \cup {e}
  BY ToSetFacts
<1> QED BY <1>1 DEF Leaves

\* A piece more: what is carried over was there before.
PieceKeeps(acc, t, r) ==
    Leaves(r.done) \cup ToSet(r.now) = (Leaves(acc.done) \cup ToSet(acc.now)) \cup {t}

\* _chunk_block_group: a piece more, and none is lost.
LEMMA AddPieceStep ==
    ASSUME NEW A, NEW acc \in [done : Seq(Seq(A) \ {<<>>}), now : Seq(A)], NEW t \in A
    PROVE  PieceKeeps(acc, t, AddPiece(acc, t))
<1> DEFINE d == acc.done
           a == acc.now
           o == Trim(OverlapBlocks(a), t)
           r == AddPiece(acc, t)
<1>1. d \in Seq(Seq(A) \ {<<>>}) /\ a \in Seq(A) /\ d \in Seq(Seq(A))
  OBVIOUS
<1>2. \/ /\ r.done = Append(d, a) /\ r.now = Append(o, t)
      \/ r.done = d /\ r.now = Append(a, t)
  BY DEF AddPiece
<1> HIDE DEF d, a, r
<1>3. o \in Seq(ToSet(a))
  <2>1. a \in Seq(ToSet(a))
    BY <1>1 DEF ToSet
  <2>2. OverlapBlocks(a) \in Seq(ToSet(a))
    BY <2>1, OverlapStays
  <2> QED BY <2>2, OverlapStays
<1> HIDE DEF o
<1>4. ToSet(o) \subseteq ToSet(a) /\ ToSet(a) \subseteq A
  BY <1>1, <1>3 DEF ToSet
<1>5. o \in Seq(A)
  BY <1>3, <1>4
<1>6. ToSet(Append(o, t)) = ToSet(o) \cup {t} /\ ToSet(Append(a, t)) = ToSet(a) \cup {t}
  BY <1>1, <1>5, ToSetFacts
<1>7. Leaves(Append(d, a)) = Leaves(d) \cup ToSet(a)
  BY <1>1, LeavesFacts
<1>8. Leaves(r.done) \cup ToSet(r.now) = (Leaves(d) \cup ToSet(a)) \cup {t}
  BY <1>2, <1>4, <1>6, <1>7
<1> QED BY <1>8 DEF PieceKeeps, d, a, r

\* The texts of the chunks of a group are its pieces.
LEMMA PieceFacts ==
    ASSUME NEW A, NEW s \in Seq(A)
    PROVE  /\ Closed(FoldLeft(AddPiece, NothingYet, s)) \in Seq(Seq(A) \ {<<>>})
           /\ Leaves(Closed(FoldLeft(AddPiece, NothingYet, s))) = ToSet(s)
<1> DEFINE V == [done : Seq(Seq(A) \ {<<>>}), now : Seq(A)]
<1>1. PICK w \in [0 .. Len(s) -> [done : Seq(Seq(A) \ {<<>>}), now : Seq(A)]] : PiecingTrace(w, s)
  BY Piecing
<1> DEFINE n == Len(s)
           S == {k \in 0 .. n : Leaves(w[k].done) \cup ToSet(w[k].now) = {s[i] : i \in 1 .. k}}
<1>2. n \in Nat /\ \A k \in 1 .. n : s[k] \in A
  OBVIOUS
<1>3. 0 \in S
  <2>1. w[0] = NothingYet
    BY <1>1 DEF PiecingTrace
  <2>2. w[0].done = <<>> /\ w[0].now = <<>>
    BY <2>1 DEF NothingYet
  <2>3. ToSet(<<>>) = {} /\ 1 .. 0 = {} /\ Leaves(<<>>) = {}
    BY DEF ToSet, Leaves
  <2> QED BY <1>2, <2>2, <2>3
<1>4. ASSUME NEW k \in 1 .. n, k - 1 \in S PROVE k \in S
  <2>1. k \in 0 .. n /\ k - 1 \in 0 .. n
    BY <1>2
  <2>2. w[k] = AddPiece(w[k - 1], s[k]) /\ w[k - 1] \in V
    BY <1>1, <2>1 DEF PiecingTrace
  <2>3. Leaves(w[k].done) \cup ToSet(w[k].now)
            = (Leaves(w[k - 1].done) \cup ToSet(w[k - 1].now)) \cup {s[k]}
    <3> DEFINE v == w[k - 1]
               t == s[k]
    <3>1. v \in V /\ t \in A
      BY <1>2, <2>2
    <3> HIDE DEF v, t
    <3>2. PieceKeeps(v, t, AddPiece(v, t))
      BY <3>1, AddPieceStep
    <3> QED BY <2>2, <3>2 DEF PieceKeeps, v, t
  <2>4. Leaves(w[k - 1].done) \cup ToSet(w[k - 1].now) = {s[i] : i \in 1 .. k - 1}
    BY <1>4
  <2>5. {s[i] : i \in 1 .. k} = {s[i] : i \in 1 .. k - 1} \cup {s[k]}
    <3>1. \A i \in 1 .. k : i \in 1 .. k - 1 \/ i = k
      OBVIOUS
    <3>2. (\A i \in 1 .. k - 1 : i \in 1 .. k) /\ k \in 1 .. k
      OBVIOUS
    <3> QED BY <3>1, <3>2
  <2>6. Leaves(w[k].done) \cup ToSet(w[k].now) = {s[i] : i \in 1 .. k}
    BY <2>3, <2>4, <2>5
  <2> QED BY <2>1, <2>6
<1>5. \A k \in 0 .. n : k \in S
  <2> HIDE DEF S
  <2> QED BY <1>2, <1>3, <1>4, Along
<1> DEFINE acc == w[n]
           d == acc.done
           a == acc.now
           r == Closed(FoldLeft(AddPiece, NothingYet, s))
<1>6. r = Closed(acc) /\ n \in 0 .. n
  BY <1>1, <1>2 DEF PiecingTrace
<1> HIDE DEF r
<1>7. acc \in V /\ d \in Seq(Seq(A) \ {<<>>}) /\ d \in Seq(Seq(A)) /\ a \in Seq(A)
  <2>1. acc \in V
    BY <1>1, <1>6
  <2> HIDE DEF acc
  <2> QED BY <2>1
<1>8. r = IF a = <<>> THEN d ELSE Append(d, a)
  BY <1>6 DEF Closed
<1>9. Leaves(d) \cup ToSet(a) = ToSet(s)
  <2>1. ToSet(s) = {s[i] : i \in 1 .. n}
    BY DEF ToSet
  <2> QED BY <1>5, <1>6, <2>1
<1> HIDE DEF d, a
<1>10. r \in Seq(Seq(A) \ {<<>>})
  BY <1>7, <1>8
<1>11. Leaves(r) = Leaves(d) \cup ToSet(a)
  <2>1. ToSet(<<>>) = {}
    BY DEF ToSet
  <2>2. Leaves(Append(d, a)) = Leaves(d) \cup ToSet(a)
    BY <1>7, LeavesFacts
  <2> QED BY <1>8, <2>1, <2>2
<1> QED BY <1>9, <1>10, <1>11 DEF r

-----------------------------------------------------------------------------
(* Lengths.                                                                *)

\* Stripping does not lengthen a text.
LEMMA StripShorter ==
    ASSUME NEW X, NEW s \in Seq(X)
    PROVE  Len(StripLeft(s)) <= Len(s) /\ Len(StripText(s)) <= Len(s)
<1>1. ASSUME NEW t \in Seq(X) PROVE StripLeft(t) \in Seq(X) /\ Len(StripLeft(t)) <= Len(t)
  <2> DEFINE solid == {i \in DOMAIN t : ~Blank(t[i])}
             m == CHOOSE i \in solid : \A j \in solid : i <= j
  <2>1. StripLeft(t) = IF solid = {} THEN <<>> ELSE SubSeq(t, m, Len(t))
    BY DEF StripLeft
  <2>2. StripLeft(t) \in Seq(X)
    BY StripLeftFacts
  <2>3. DOMAIN t = 1 .. Len(t) /\ Len(t) \in Nat
    OBVIOUS
  <2>4. solid # {} => m \in solid
    <3>1. solid \subseteq Nat
      BY <2>3
    <3> HIDE DEF solid
    <3>2. solid # {} => \E x \in solid : \A y \in solid : x <= y
      BY <3>1, Least
    <3> QED BY <3>2
  <2>5. solid # {} => m \in 1 .. Len(t)
    BY <2>3, <2>4
  <2> HIDE DEF solid, m
  <2>6. solid # {} => Len(SubSeq(t, m, Len(t))) <= Len(t)
    BY <2>3, <2>5
  <2> QED BY <2>1, <2>2, <2>3, <2>6
<1> DEFINE a == StripLeft(s)
           b == Reverse(a)
           c == StripLeft(b)
<1>2. a \in Seq(X) /\ Len(a) <= Len(s) /\ Len(a) \in Nat
  BY <1>1
<1> HIDE DEF a
<1>3. b \in Seq(X) /\ Len(b) = Len(a)
  BY <1>2, ReverseFacts
<1> HIDE DEF b
<1>4. c \in Seq(X) /\ Len(c) <= Len(b) /\ Len(c) \in Nat
  BY <1>1, <1>3
<1> HIDE DEF c
<1>5. Len(Reverse(c)) = Len(c)
  BY <1>4, ReverseFacts
<1>6. StripText(s) = Reverse(c)
  BY DEF StripText, a, b, c
<1>7. Len(s) \in Nat
  OBVIOUS
<1> QED BY <1>2, <1>3, <1>4, <1>5, <1>6, <1>7 DEF a

\* The length of " ".join of two texts.
LEMMA SpacedLength ==
    ASSUME NEW X, Space \in X, NEW s \in TextOver(X), NEW t \in TextOver(X)
    PROVE  /\ Len(Spaced(s, t)) <= Len(s) + 1 + Len(t) /\ Len(Spaced(s, t)) \in Nat
           /\ s = <<>> => Spaced(s, t) = t
           /\ t = <<>> => Spaced(s, t) = s
           /\ s # <<>> /\ t # <<>> => Len(Spaced(s, t)) = Len(s) + 1 + Len(t)
<1>1. s \in Seq(X) /\ Stripped(s) /\ t \in Seq(X) /\ Stripped(t) /\ Len(s) \in Nat /\ Len(t) \in Nat
  BY TextIs
<1>2. Spaced(s, t) = IF s = <<>> THEN t ELSE IF t = <<>> THEN s ELSE s \o <<Space>> \o t
  BY <1>1, SpacedIs
<1>3. s # <<>> /\ t # <<>> => Len(Spaced(s, t)) = Len(s) + 1 + Len(t)
  BY <1>1, SpacedFacts
<1> HIDE DEF Space
<1> QED BY <1>1, <1>2, <1>3

\* A piece is a chunk long at most, or has an overlap before a sentence.
PieceBound == ChunkSize + Overlap + 1

\* A packed piece is at most a sentence and the overlap.
LEMMA PackLength ==
    ASSUME NEW X, Space \in X, NEW acc \in [done : Seq(TextOver(X)), now : TextOver(X)],
           NEW s \in TextOver(X), Len(s) <= ChunkSize, Len(acc.now) <= PieceBound
    PROVE  /\ Len(Pack(acc, s).now) <= PieceBound
           /\ ToSet(Pack(acc, s).done) \subseteq ToSet(acc.done) \cup {acc.now}
<1> DEFINE d == acc.done
           a == acc.now
           r == Pack(acc, s)
           suffix == Suffix(a, Overlap)
           tail == IF Overlap = 0 THEN <<>> ELSE StripLeft(suffix)
           j == Spaced(a, s)
           h == Spaced(tail, s)
<1>1. d \in Seq(TextOver(X)) /\ a \in TextOver(X)
  OBVIOUS
<1>0. ChunkSize \in Nat /\ Overlap \in Nat
  BY ChunkAssumption
<1>2. tail \in TextOver(X) /\ Len(tail) <= Overlap
  <2>1. <<>> \in TextOver(X) /\ Len(<<>>) = 0
    BY TextEmpty
  <2>2. StripLeft(suffix) \in TextOver(X)
    BY <1>0, <1>1, TextSuffix
  <2>3. suffix \in Seq(X) /\ Len(suffix) <= Overlap
    <3>1. a \in Seq(X) /\ Len(a) \in Nat
      BY <1>1, TextIs
    <3>2. suffix \in Seq(X)
      BY <1>0, <3>1, SuffixFacts
    <3> HIDE DEF a
    <3>3. Len(suffix) <= Overlap
      BY <1>0, <3>1 DEF Suffix
    <3> QED BY <3>2, <3>3
  <2> HIDE DEF suffix
  <2>4. Len(StripLeft(suffix)) <= Len(suffix) /\ Len(StripLeft(suffix)) \in Nat /\ Len(suffix) \in Nat
    BY <2>2, <2>3, StripShorter, TextIs
  <2>5. Len(StripLeft(suffix)) <= Overlap
    BY <1>0, <2>3, <2>4
  <2> QED BY <1>0, <2>1, <2>2, <2>5
<1>3. r = IF a # <<>> /\ Len(j) > ChunkSize
          THEN [done |-> Append(d, a), now |-> h] ELSE [done |-> d, now |-> j]
  BY Zenon DEF Pack
<1> HIDE DEF d, a, r, tail
<1>4. Len(s) \in Nat /\ Len(tail) \in Nat /\ Len(a) \in Nat
  BY <1>1, <1>2, TextIs
<1>5. Len(j) \in Nat /\ (a = <<>> => j = s)
  BY <1>1, SpacedLength
<1>6. Len(h) \in Nat /\ Len(h) <= Len(tail) + 1 + Len(s)
  BY <1>2, SpacedLength
<1> HIDE DEF h, j
<1>7. CASE a # <<>> /\ Len(j) > ChunkSize
  <2>1. r.done = Append(d, a) /\ r.now = h
    BY <1>3, <1>7
  <2>2. ToSet(Append(d, a)) = ToSet(d) \cup {a}
    BY <1>1, ToSetFacts
  <2>3. Len(h) <= PieceBound
    BY <1>0, <1>2, <1>4, <1>6 DEF PieceBound
  <2> QED BY <2>1, <2>2, <2>3 DEF r, d, a
<1>8. CASE ~(a # <<>> /\ Len(j) > ChunkSize)
  <2>1. r.done = d /\ r.now = j
    BY <1>3, <1>8
  <2>2. Len(j) <= ChunkSize
    BY <1>0, <1>5, <1>8
  <2>3. Len(j) <= PieceBound
    BY <1>0, <1>5, <2>2 DEF PieceBound
  <2> QED BY <2>1, <2>3 DEF r, d, a
<1> QED BY <1>7, <1>8

Short(P) == \A p \in P : Len(p) <= PieceBound

\* So are all the packed pieces.
LEMMA PackShort ==
    ASSUME NEW X, Space \in X, NEW s \in Seq(TextOver(X)), \A k \in DOMAIN s : Len(s[k]) <= ChunkSize
    PROVE  Short(ToSet(PackSentences(s)))
<1> DEFINE n == Len(s)
           V == [done : Seq(TextOver(X)), now : TextOver(X)]
<1>1. n \in Nat /\ DOMAIN s = 1 .. n /\ \A k \in 1 .. n : s[k] \in TextOver(X)
  OBVIOUS
<1>2. PICK w \in [0 .. Len(s) -> [done : Seq(TextOver(X)), now : TextOver(X)]] : PackingTrace(w, s)
  BY Packing
<1> DEFINE S == {k \in 0 .. n : Short(ToSet(w[k].done)) /\ Len(w[k].now) <= PieceBound}
<1>3. 0 \in S
  <2>1. w[0] = NothingYet
    BY <1>2 DEF PackingTrace
  <2>2. w[0].done = <<>> /\ w[0].now = <<>>
    BY <2>1 DEF NothingYet
  <2>3. ToSet(<<>>) = {} /\ Len(<<>>) = 0
    BY DEF ToSet
  <2>4. 0 <= PieceBound
    BY ChunkAssumption DEF PieceBound
  <2> QED BY <1>1, <2>2, <2>3, <2>4 DEF Short
<1>4. ASSUME NEW k \in 1 .. n, k - 1 \in S PROVE k \in S
  <2> DEFINE v == w[k - 1]
             t == s[k]
  <2>1. w[k] = Pack(v, t) /\ v \in V /\ k \in 0 .. n
    BY <1>1, <1>2 DEF PackingTrace
  <2>2. t \in TextOver(X) /\ Len(t) <= ChunkSize
    BY <1>1
  <2>3. Short(ToSet(v.done)) /\ Len(v.now) <= PieceBound
    BY <1>4
  <2> HIDE DEF v, t
  <2>4. Len(Pack(v, t).now) <= PieceBound /\ ToSet(Pack(v, t).done) \subseteq ToSet(v.done) \cup {v.now}
    BY <2>1, <2>2, <2>3, PackLength
  <2>5. Short(ToSet(Pack(v, t).done))
    BY <2>3, <2>4 DEF Short
  <2> QED BY <2>1, <2>4, <2>5
<1>5. \A k \in 0 .. n : k \in S
  <2> HIDE DEF S
  <2> QED BY <1>1, <1>3, <1>4, Along
<1> DEFINE acc == w[n]
<1>6. PackSentences(s) = Closed(acc) /\ n \in 0 .. n
  BY <1>1, <1>2 DEF PackingTrace, PackSentences
<1>7. acc \in V /\ Short(ToSet(acc.done)) /\ Len(acc.now) <= PieceBound
  BY <1>2, <1>5, <1>6
<1> HIDE DEF acc
<1>8. acc.done \in Seq(TextOver(X)) /\ acc.now \in TextOver(X)
  BY <1>7
<1>9. ToSet(Closed(acc)) = ToSet(acc.done) \cup (IF acc.now = <<>> THEN {} ELSE {acc.now})
  BY <1>8, ClosedFacts
<1> QED BY <1>6, <1>7, <1>9 DEF Short

\* Windows are no longer than ChunkSize.
LEMMA WindowsShort ==
    ASSUME NEW X, NEW s \in Seq(X), Len(s) > ChunkSize
    PROVE  Short(ToSet(Windows(s)))
<1> DEFINE step == ChunkSize - Overlap
           more == (Len(s) - ChunkSize + step - 1) \div step
           upto(i) == IF i + ChunkSize > Len(s) THEN Len(s) ELSE i + ChunkSize
           from(k) == (k - 1) * step
           pieces == [k \in 1 .. more + 1 |-> StripText(SubSeq(s, (k - 1) * step + 1, upto((k - 1) * step)))]
<1>1. Windows(s) = NotEmpty(pieces)
  BY Zenon DEF Windows, NotEmpty
<1>2. ChunkSize \in Nat /\ Overlap \in Nat /\ Overlap <= ChunkSize - 1 /\ Len(s) \in Nat
  BY ChunkAssumption
<1>3. step \in Nat \ {0}
  BY <1>2
<1>4. more \in Nat
  <2> DEFINE x == Len(s) - ChunkSize + step - 1
  <2>1. x \in Nat
    BY <1>2, <1>3
  <2> HIDE DEF x, step
  <2>2. x \div step \in Nat
    BY <1>3, <2>1, Quotient
  <2> QED BY <2>2 DEF x, step
<1> HIDE DEF step, more
<1>5. ASSUME NEW k \in 1 .. more + 1
      PROVE  /\ StripText(SubSeq(s, (k - 1) * step + 1, upto((k - 1) * step))) \in Seq(X)
             /\ Len(StripText(SubSeq(s, (k - 1) * step + 1, upto((k - 1) * step)))) <= PieceBound
  <2> DEFINE f == (k - 1) * step
             r == SubSeq(s, f + 1, upto(f))
  <2>1. f \in Nat
    BY <1>3, <1>4, Multiples
  <2> HIDE DEF f
  <2>2. r \in Seq(X) /\ Len(r) <= ChunkSize
    <3>1. upto(f) \in Nat /\ upto(f) <= Len(s) /\ upto(f) <= f + ChunkSize
      BY <1>2, <2>1
    <3> DEFINE z == upto(f)
    <3> HIDE DEF z
    <3>2. z \in Nat /\ z <= Len(s) /\ z <= f + ChunkSize
      BY <3>1 DEF z
    <3>3. SubSeq(s, f + 1, z) \in Seq(X) /\ Len(SubSeq(s, f + 1, z)) <= ChunkSize
      BY <1>2, <2>1, <3>2
    <3> QED BY <3>3 DEF z
  <2> HIDE DEF r
  <2>3. StripText(r) \in Seq(X) /\ Len(StripText(r)) <= Len(r)
    BY <2>2, StripShorter, StripTextFacts
  <2>4. Len(StripText(r)) \in Nat /\ Len(r) \in Nat
    BY <2>2, <2>3
  <2>5. Len(StripText(r)) <= PieceBound
    BY <1>2, <2>2, <2>3, <2>4 DEF PieceBound
  <2> QED BY <2>3, <2>5 DEF r, f
<1>6. \A k \in 1 .. more + 1 : pieces[k] \in Seq(X) /\ Len(pieces[k]) <= PieceBound
  BY <1>5
<1>7. pieces \in [1 .. more + 1 -> Seq(X)]
  BY <1>5
<1> HIDE DEF pieces
<1>8. pieces \in Seq(Seq(X)) /\ DOMAIN pieces = 1 .. more + 1
  BY <1>4, <1>7
<1>9. ToSet(Windows(s)) = ToSet(pieces) \ {<<>>}
  BY <1>1, <1>8, NotEmptyFacts
<1> QED BY <1>6, <1>8, <1>9 DEF Short, ToSet

\* No piece of a text is too long.
LEMMA SplitShort ==
    ASSUME NEW b, b.sentences \in Seq(Nat \ {0})
    PROVE  Short(ToSet(SplitLongText(CleanText(b), SentencesOf(b))))
<1> DEFINE s == CleanText(b)
           t == SentencesOf(b)
           r == SplitLongText(s, t)
           X == Letters(b)
<1>1. b.sentences \in Seq(Nat) /\ Space \in X
  BY DEF Letters
<1>2. s \in TextOver(X) /\ t \in Seq(TextOver(X))
  BY <1>1, CleanTextFacts, SentencesFacts
<1>3. ChunkSize \in Nat /\ Overlap \in Nat /\ Len(s) \in Nat /\ s \in Seq(X)
  BY <1>2, TextIs, ChunkAssumption
<1>4. CASE Len(s) <= ChunkSize
  <2>1. r = <<s>>
    BY <1>4 DEF SplitLongText
  <2>2. ToSet(<<s>>) = {s}
    BY DEF ToSet
  <2> HIDE DEF s, t, r
  <2>3. Len(s) <= PieceBound
    BY <1>3, <1>4 DEF PieceBound
  <2> QED BY <2>1, <2>2, <2>3 DEF Short, s, t, r
<1>5. CASE Len(s) > ChunkSize
  <2>1. \/ r = PackSentences(t) /\ \A k \in DOMAIN t : Len(t[k]) <= ChunkSize
        \/ r = Windows(s)
    BY <1>3, <1>5 DEF SplitLongText
  <2>2. (\A k \in DOMAIN t : Len(t[k]) <= ChunkSize) => Short(ToSet(PackSentences(t)))
    BY <1>1, <1>2, PackShort
  <2>3. Short(ToSet(Windows(s)))
    BY <1>3, <1>5, WindowsShort
  <2> QED BY <2>1, <2>2, <2>3
<1> QED BY <1>3, <1>4, <1>5

TotallingTrace(w, s) ==
    /\ w[0] = 0 /\ FoldLeft(LAMBDA n, t : n + Len(t), 0, s) = w[Len(s)]
    /\ \A k \in 1 .. Len(s) : w[k] = w[k - 1] + Len(s[k])

\* Adding up lengths.
LEMMA Totalling ==
    ASSUME NEW A, NEW s \in Seq(Seq(A))
    PROVE  \E w \in [0 .. Len(s) -> Nat] :
              TotallingTrace(w, s)
<1> DEFINE size == Len(s)
           V == Nat
           base == 0
           G == [p \in (1 .. size) \X V |-> p[2] + Len(s[p[1]])]
           iter == CHOOSE f : f = [T \in SUBSET (1 .. size) |->
                      IF T = {} THEN base ELSE f[T \ {Max(T)}] + Len(s[Max(T)])]
<1>1. size \in Nat /\ DOMAIN s = 1 .. size
  OBVIOUS
<1>2. base \in V /\ \A v \in V : \A i \in 1 .. size : v + Len(s[i]) \in V
  <2>1. \A i \in 1 .. size : Len(s[i]) \in Nat
    OBVIOUS
  <2> QED BY <2>1
<1>3. FoldLeft(LAMBDA n, t : n + Len(t), 0, s) = iter[1 .. size]
  BY <1>1, Zenon DEF FoldLeft, MapThenFoldSet
<1> HIDE DEF V, size, base
<1>4. G \in [(1 .. size) \X V -> V] /\ \A i \in 1 .. size : \A v \in V : G[<<i, v>>] = v + Len(s[i])
  BY <1>2
<1> HIDE DEF G
<1>5. PICK u \in [SUBSET (1 .. size) -> V] : Builds(u, size, base, G)
  BY <1>1, <1>2, <1>4, FoldExists
<1>6. ASSUME NEW T \in SUBSET (1 .. size)
      PROVE  u[T] = IF T = {} THEN base ELSE u[T \ {Max(T)}] + Len(s[Max(T)])
  <2>1. T # {} => Max(T) \in 1 .. size /\ T \ {Max(T)} \in SUBSET (1 .. size)
    BY <1>1, Shrinks
  <2>2. T # {} => u[T \ {Max(T)}] \in V
    BY <2>1
  <2>3. u[T] = IF T = {} THEN base ELSE G[<<Max(T), u[T \ {Max(T)}]>>]
    BY <1>5 DEF Builds
  <2> QED BY <1>4, <2>1, <2>2, <2>3
<1>7. u = [T \in SUBSET (1 .. size) |-> IF T = {} THEN base ELSE u[T \ {Max(T)}] + Len(s[Max(T)])]
  BY <1>6, Zenon
<1>8. iter = [T \in SUBSET (1 .. size) |-> IF T = {} THEN base ELSE iter[T \ {Max(T)}] + Len(s[Max(T)])]
  BY <1>7
<1> HIDE DEF iter
<1>9. iter[1 .. size] = u[1 .. size]
  <2>1. iter[{}] = u[{}]
    BY <1>6, <1>8
  <2>2. \A T \in SUBSET (1 .. size) :
            T # {} /\ iter[T \ {Max(T)}] = u[T \ {Max(T)}] => iter[T] = u[T]
    BY <1>6, <1>8
  <2> QED BY <1>1, <2>1, <2>2, SameFold
<1>10. PICK w \in [0 .. size -> V] : Traces(w, u, size, base, G)
  BY <1>1, <1>4, <1>5, FoldTrace
<1>11. ASSUME NEW k \in 1 .. size PROVE w[k] = w[k - 1] + Len(s[k])
  <2>1. w[k - 1] \in V
    BY <1>1
  <2>2. w[k] = G[<<k, w[k - 1]>>]
    BY <1>10 DEF Traces
  <2> QED BY <1>4, <2>1, <2>2
<1>12. TotallingTrace(w, s)
  BY <1>3, <1>9, <1>10, <1>11 DEF TotallingTrace, Traces, size, base
<1> QED BY <1>12 DEF size, V

ParsingTrace(w, s, h, n, o) ==
    /\ w[0] = [heading |-> h, blocks |-> <<>>] /\ FoldLeft(LAMBDA acc, b : ParseBlock(acc, b, n, o), [heading |-> h, blocks |-> <<>>], s) = w[Len(s)]
    /\ \A k \in 1 .. Len(s) : w[k] = ParseBlock(w[k - 1], s[k], n, o)

\* Parsing the blocks of a page.
LEMMA Parsing ==
    ASSUME NEW R, NEW s \in Seq(R), NEW H, NEW h \in H, NEW B, NEW n, NEW o,
           \A acc \in [heading : H, blocks : Seq(B)] : \A b \in R :
               ParseBlock(acc, b, n, o) \in [heading : H, blocks : Seq(B)]
    PROVE  \E w \in [0 .. Len(s) -> [heading : H, blocks : Seq(B)]] :
              ParsingTrace(w, s, h, n, o)
<1> DEFINE size == Len(s)
           V == [heading : H, blocks : Seq(B)]
           base == [heading |-> h, blocks |-> <<>>]
           G == [p \in (1 .. size) \X V |-> ParseBlock(p[2], s[p[1]], n, o)]
           iter == CHOOSE f : f = [T \in SUBSET (1 .. size) |->
                      IF T = {} THEN base ELSE ParseBlock(f[T \ {Max(T)}], s[Max(T)], n, o)]
<1>1. size \in Nat /\ DOMAIN s = 1 .. size
  OBVIOUS
<1>2. base \in V /\ \A v \in V : \A i \in 1 .. size : ParseBlock(v, s[i], n, o) \in V
  <2>1. \A i \in 1 .. size : s[i] \in R
    OBVIOUS
  <2>2. base \in V
    <3>1. <<>> \in Seq(B)
      OBVIOUS
    <3> QED BY <3>1
  <2>3. ASSUME NEW v \in V, NEW i \in 1 .. size PROVE ParseBlock(v, s[i], n, o) \in V
    BY <2>1, Zenon
  <2> QED BY <2>2, <2>3
<1>3. FoldLeft(LAMBDA acc, b : ParseBlock(acc, b, n, o), [heading |-> h, blocks |-> <<>>], s) = iter[1 .. size]
  BY <1>1, Zenon DEF FoldLeft, MapThenFoldSet
<1> HIDE DEF V, size, base
<1>4. G \in [(1 .. size) \X V -> V] /\ \A i \in 1 .. size : \A v \in V : G[<<i, v>>] = ParseBlock(v, s[i], n, o)
  BY <1>2
<1> HIDE DEF G
<1>5. PICK u \in [SUBSET (1 .. size) -> V] : Builds(u, size, base, G)
  BY <1>1, <1>2, <1>4, FoldExists
<1>6. ASSUME NEW T \in SUBSET (1 .. size)
      PROVE  u[T] = IF T = {} THEN base ELSE ParseBlock(u[T \ {Max(T)}], s[Max(T)], n, o)
  <2>1. T # {} => Max(T) \in 1 .. size /\ T \ {Max(T)} \in SUBSET (1 .. size)
    BY <1>1, Shrinks
  <2>2. T # {} => u[T \ {Max(T)}] \in V
    BY <2>1
  <2>3. u[T] = IF T = {} THEN base ELSE G[<<Max(T), u[T \ {Max(T)}]>>]
    BY <1>5 DEF Builds
  <2> QED BY <1>4, <2>1, <2>2, <2>3
<1>7. u = [T \in SUBSET (1 .. size) |-> IF T = {} THEN base ELSE ParseBlock(u[T \ {Max(T)}], s[Max(T)], n, o)]
  BY <1>6, Zenon
<1>8. iter = [T \in SUBSET (1 .. size) |-> IF T = {} THEN base ELSE ParseBlock(iter[T \ {Max(T)}], s[Max(T)], n, o)]
  BY <1>7
<1> HIDE DEF iter
<1>9. iter[1 .. size] = u[1 .. size]
  <2>1. iter[{}] = u[{}]
    BY <1>6, <1>8
  <2>2. \A T \in SUBSET (1 .. size) :
            T # {} /\ iter[T \ {Max(T)}] = u[T \ {Max(T)}] => iter[T] = u[T]
    BY <1>6, <1>8
  <2> QED BY <1>1, <2>1, <2>2, SameFold
<1>10. PICK w \in [0 .. size -> V] : Traces(w, u, size, base, G)
  BY <1>1, <1>4, <1>5, FoldTrace
<1>11. ASSUME NEW k \in 1 .. size PROVE w[k] = ParseBlock(w[k - 1], s[k], n, o)
  <2>1. w[k - 1] \in V
    BY <1>1
  <2>2. w[k] = G[<<k, w[k - 1]>>]
    BY <1>10 DEF Traces
  <2> QED BY <1>4, <2>1, <2>2
<1>12. ParsingTrace(w, s, h, n, o)
  BY <1>3, <1>9, <1>10, <1>11 DEF ParsingTrace, Traces, size, base
<1> QED BY <1>12 DEF size, V

\* The content of a chunk: the characters of its paragraphs.
LEMMA ContentIs ==
    ASSUME NEW X, Space \in X, NEW s \in Seq(TextOver(X))
    PROVE  /\ Content(s) \in TextOver(X) /\ Solid(Content(s)) = All(s)
           /\ LongEnough(Content(s), s, Len(s)) /\ Len(Content(s)) \in Nat
<1>1. Content(s) = FoldLeft(Spaced, <<>>, s)
  BY DEF Content
<1>2. /\ Content(s) \in TextOver(X) /\ Solid(Content(s)) = All(s) /\ LongEnough(Content(s), s, Len(s))
  BY <1>1, JoinedFacts
<1> QED BY <1>2, TextIs

\* The content with a paragraph more.
LEMMA ContentAppend ==
    ASSUME NEW X, Space \in X, NEW s \in Seq(TextOver(X)), NEW p \in TextOver(X)
    PROVE  Content(<<>>) = <<>> /\ Content(Append(s, p)) = Spaced(Content(s), p)
<1> DEFINE n == Len(s)
           t == Append(s, p)
<1>1. n \in Nat /\ t \in Seq(TextOver(X)) /\ Len(t) = n + 1 /\ t[n + 1] = p /\ \A k \in 1 .. n : t[k] = s[k]
  OBVIOUS
<1> HIDE DEF t
<1>2. PICK w \in [0 .. Len(s) -> TextOver(X)] : SpacingTrace(w, s)
  BY Spacing
<1>3. PICK z \in [0 .. Len(t) -> TextOver(X)] : SpacingTrace(z, t)
  BY <1>1, Spacing
<1> DEFINE S == {k \in 0 .. n : w[k] = z[k]}
<1>4. 0 \in S
  BY <1>1, <1>2, <1>3 DEF SpacingTrace
<1>5. ASSUME NEW k \in 1 .. n, k - 1 \in S PROVE k \in S
  <2>1. k \in 1 .. Len(s) /\ k \in 1 .. Len(t) /\ k \in 0 .. n
    BY <1>1
  <2>2. w[k] = Spaced(w[k - 1], s[k]) /\ z[k] = Spaced(z[k - 1], t[k])
    BY <1>2, <1>3, <2>1 DEF SpacingTrace
  <2> QED BY <1>1, <1>5, <2>1, <2>2
<1>6. \A k \in 0 .. n : k \in S
  <2> HIDE DEF S
  <2> QED BY <1>1, <1>4, <1>5, Along
<1>7. w[n] = z[n]
  BY <1>1, <1>6
<1>8. n + 1 \in 1 .. Len(t) /\ (n + 1) - 1 = n
  BY <1>1
<1>9. z[n + 1] = Spaced(z[n], p)
  <2>1. z[n + 1] = Spaced(z[(n + 1) - 1], t[n + 1])
    BY <1>3, <1>8 DEF SpacingTrace
  <2> QED BY <1>1, <1>8, <2>1
<1>10. Content(s) = w[n] /\ Content(t) = z[n + 1]
  BY <1>1, <1>2, <1>3 DEF SpacingTrace, Content
<1>11. Content(<<>>) = <<>>
  <2> DEFINE e == <<>>
  <2>1. e \in Seq(TextOver(X)) /\ Len(e) = 0
    OBVIOUS
  <2> HIDE DEF e
  <2>2. PICK v \in [0 .. Len(e) -> TextOver(X)] : SpacingTrace(v, e)
    BY <2>1, Spacing
  <2>3. Content(e) = v[0] /\ v[0] = <<>>
    BY <2>1, <2>2 DEF SpacingTrace, Content
  <2> QED BY <2>3 DEF e
<1> QED BY <1>7, <1>9, <1>10, <1>11 DEF t

\* Lengths are natural numbers.
LEMMA TotalIs ==
    ASSUME NEW A, NEW s \in Seq(Seq(A))
    PROVE  TotalLength(s) \in Nat /\ JoinedLength(s) \in Nat
<1>1. PICK w \in [0 .. Len(s) -> Nat] : TotallingTrace(w, s)
  BY Totalling
<1>2. TotalLength(s) = w[Len(s)]
  BY <1>1, Zenon DEF TotallingTrace, TotalLength
<1>3. Len(s) \in Nat /\ (s # <<>> => Len(s) # 0)
  OBVIOUS
<1>4. TotalLength(s) \in Nat
  BY <1>1, <1>2, <1>3
<1> DEFINE n == TotalLength(s)
<1> HIDE DEF n
<1>5. JoinedLength(s) = IF s = <<>> THEN 0 ELSE n + 2 * (Len(s) - 1)
  BY DEF JoinedLength, n
<1> QED BY <1>3, <1>4, <1>5 DEF n

\* The content of a chunk is shorter than its text with blank lines.
LEMMA ContentShort ==
    ASSUME NEW X, Space \in X, NEW s \in Seq(TextOver(X)), s # <<>>
    PROVE  Len(Content(s)) <= JoinedLength(s)
<1> DEFINE n == Len(s)
<1>1. n \in Nat /\ n # 0 /\ s \in Seq(Seq(X)) /\ \A k \in 1 .. n : s[k] \in TextOver(X)
  <2>1. TextOver(X) \subseteq Seq(X)
    BY DEF TextOver
  <2> QED BY <2>1
<1>2. PICK w \in [0 .. Len(s) -> Nat] : TotallingTrace(w, s)
  BY <1>1, Totalling
<1>3. PICK z \in [0 .. Len(s) -> TextOver(X)] : SpacingTrace(z, s)
  BY Spacing
<1>4. TotalLength(s) = w[n] /\ w[0] = 0
  BY <1>2, Zenon DEF TotallingTrace, TotalLength
<1>5. \A k \in 1 .. n : w[k] = w[k - 1] + Len(s[k])
  BY <1>2, Zenon DEF TotallingTrace
<1>6. Content(s) = z[n] /\ z[0] = <<>> /\ \A k \in 1 .. n : z[k] = Spaced(z[k - 1], s[k])
  BY <1>3 DEF SpacingTrace, Content
<1> DEFINE S == {k \in 0 .. n : Len(z[k]) <= w[k] + (IF k = 0 THEN 0 ELSE k - 1)}
<1>7. 0 \in S
  <2>1. Len(<<>>) = 0
    OBVIOUS
  <2> QED BY <1>1, <1>4, <1>6, <2>1
<1>8. ASSUME NEW k \in 1 .. n, k - 1 \in S PROVE k \in S
  <2> DEFINE v == z[k - 1]
             t == s[k]
             a == w[k - 1]
  <2>1. v \in TextOver(X) /\ t \in TextOver(X) /\ a \in Nat /\ z[k] = Spaced(v, t) /\ w[k] = a + Len(t)
        /\ k \in 0 .. n /\ k - 1 \in 0 .. n
    <3>1. k \in 0 .. n /\ k - 1 \in 0 .. n
      BY <1>1
    <3>2. v \in TextOver(X) /\ a \in Nat
      BY <1>2, <1>3, <3>1
    <3>3. t \in TextOver(X)
      BY <1>1
    <3>4. z[k] = Spaced(v, t)
      BY <1>6
    <3>5. w[k] = a + Len(t)
      BY <1>5
    <3> QED BY <3>1, <3>2, <3>3, <3>4, <3>5
  <2>2. Len(v) <= a + (IF k - 1 = 0 THEN 0 ELSE (k - 1) - 1)
    BY <1>8
  <2>3. k = 1 => v = <<>>
    BY <1>6
  <2> HIDE DEF v, t, a
  <2>4. /\ Len(Spaced(v, t)) <= Len(v) + 1 + Len(t) /\ Len(Spaced(v, t)) \in Nat
        /\ (v = <<>> => Spaced(v, t) = t) /\ Len(v) \in Nat /\ Len(t) \in Nat
    BY <2>1, SpacedLength, TextIs
  <2>5. CASE k = 1
    <3>1. z[k] = t
      BY <2>1, <2>3, <2>4, <2>5
    <3> QED BY <2>1, <2>4, <2>5, <3>1
  <2>6. CASE k # 1
    <3>1. Len(v) <= a + ((k - 1) - 1)
      BY <2>2, <2>6
    <3>2. Len(Spaced(v, t)) <= (a + Len(t)) + (k - 1)
      BY <2>1, <2>4, <3>1
    <3> QED BY <2>1, <2>6, <3>2
  <2> QED BY <2>5, <2>6
<1>9. \A k \in 0 .. n : k \in S
  <2> HIDE DEF S
  <2> QED BY <1>1, <1>7, <1>8, Along
<1>10. n \in S /\ w[n] \in Nat /\ Len(z[n]) \in Nat
  <2>0. n \in 0 .. n
    BY <1>1
  <2>1. n \in 0 .. n /\ z[n] \in TextOver(X)
    BY <1>3, <2>0
  <2>2. w[n] \in Nat
    BY <1>2, <2>1
  <2>3. Len(z[n]) \in Nat
    BY <2>1, TextIs
  <2>4. n \in S
    <3> HIDE DEF S
    <3> QED BY <1>9, <2>1
  <2> QED BY <2>2, <2>3, <2>4
<1> DEFINE y == TotalLength(s)
<1> HIDE DEF y
<1>11. JoinedLength(s) = y + 2 * (n - 1)
  BY DEF JoinedLength, y
<1>12. y = w[n]
  BY <1>4 DEF y
<1>13. Len(z[n]) <= w[n] + (n - 1)
  BY <1>1, <1>10
<1> QED BY <1>1, <1>6, <1>10, <1>11, <1>12, <1>13

\* Paragraphs dropped and neighbours joined: the content does not grow.
LEMMA ParagraphsShort ==
    ASSUME NEW X, Space \in X, NEW s \in Seq(TextOver(X))
    PROVE  Len(Content(FoldLeft(AddParagraph, <<>>, s))) <= Len(Content(s))
<1> DEFINE n == Len(s)
<1>1. n \in Nat /\ \A k \in 1 .. n : s[k] \in TextOver(X)
  OBVIOUS
<1>2. PICK w \in [0 .. Len(s) -> Seq(TextOver(X))] : MergingTrace(w, s)
  BY Merging
<1>3. PICK z \in [0 .. Len(s) -> TextOver(X)] : SpacingTrace(z, s)
  BY Spacing
<1>4. FoldLeft(AddParagraph, <<>>, s) = w[n] /\ w[0] = <<>> /\ \A k \in 1 .. n : w[k] = AddParagraph(w[k - 1], s[k])
  BY <1>2 DEF MergingTrace
<1>5. Content(s) = z[n] /\ z[0] = <<>> /\ \A k \in 1 .. n : z[k] = Spaced(z[k - 1], s[k])
  BY <1>3 DEF SpacingTrace, Content
<1> DEFINE S == {k \in 0 .. n : Len(Content(w[k])) <= Len(z[k])}
<1>6. 0 \in S
  <2>1. Content(<<>>) = <<>>
    BY ContentAppend, TextEmpty
  <2>2. Len(<<>>) <= Len(<<>>)
    OBVIOUS
  <2> QED BY <1>1, <1>4, <1>5, <2>1, <2>2
<1>7. ASSUME NEW k \in 1 .. n, k - 1 \in S PROVE k \in S
  <2> DEFINE m == w[k - 1]
             v == z[k - 1]
             t == s[k]
             c == Content(m)
  <2>1. /\ m \in Seq(TextOver(X)) /\ v \in TextOver(X) /\ t \in TextOver(X) /\ k \in 0 .. n
        /\ w[k] = AddParagraph(m, t) /\ z[k] = Spaced(v, t)
    BY <1>1, <1>2, <1>3, <1>4, <1>5
  <2>2. Len(c) <= Len(v)
    BY <1>7
  <2> HIDE DEF m, v, t
  <2>3. c \in TextOver(X)
    BY <2>1, ContentIs
  <2>4. Content(Append(m, t)) = Spaced(c, t)
    BY <2>1, ContentAppend
  <2> HIDE DEF c
  <2>5. /\ Len(c) \in Nat /\ Len(v) \in Nat /\ Len(t) \in Nat /\ c \in Seq(X) /\ v \in Seq(X)
    BY <2>1, <2>3, TextIs
  <2>6. /\ Len(Spaced(v, t)) \in Nat /\ (v = <<>> => Spaced(v, t) = t) /\ (t = <<>> => Spaced(v, t) = v)
        /\ v # <<>> /\ t # <<>> => Len(Spaced(v, t)) = Len(v) + 1 + Len(t)
    BY <2>1, SpacedLength
  <2>7. /\ Len(Spaced(c, t)) \in Nat /\ (c = <<>> => Spaced(c, t) = t) /\ (t = <<>> => Spaced(c, t) = c)
        /\ c # <<>> /\ t # <<>> => Len(Spaced(c, t)) = Len(c) + 1 + Len(t)
    BY <2>1, <2>3, SpacedLength
  <2>8. v = <<>> => c = <<>>
    <3>1. v = <<>> => Len(c) = 0
      <4>1. v = <<>> => Len(v) = 0
        OBVIOUS
      <4> QED BY <2>2, <2>5, <4>1
    <3> QED BY <2>5, <3>1
  <2>9. Len(Spaced(c, t)) <= Len(Spaced(v, t)) /\ Len(v) <= Len(Spaced(v, t))
    <3>1. CASE t = <<>>
      BY <2>2, <2>5, <2>6, <2>7, <3>1
    <3>2. CASE t # <<>> /\ v = <<>>
      <4>1. Spaced(c, t) = t /\ Spaced(v, t) = t
        BY <2>6, <2>7, <2>8, <3>2
      <4>2. Len(v) = 0
        BY <3>2
      <4> QED BY <2>5, <4>1, <4>2
    <3>3. CASE t # <<>> /\ v # <<>> /\ c = <<>>
      <4>1. Spaced(c, t) = t /\ Len(Spaced(v, t)) = Len(v) + 1 + Len(t)
        BY <2>6, <2>7, <3>3
      <4> QED BY <2>5, <4>1
    <3>4. CASE t # <<>> /\ v # <<>> /\ c # <<>>
      <4>1. Len(Spaced(c, t)) = Len(c) + 1 + Len(t) /\ Len(Spaced(v, t)) = Len(v) + 1 + Len(t)
        BY <2>6, <2>7, <3>4
      <4> QED BY <2>2, <2>5, <4>1
    <3> QED BY <3>1, <3>2, <3>3, <3>4
  <2>10. Content(w[k]) = c \/ Content(w[k]) = Spaced(c, t)
    BY <2>1, <2>4 DEF AddParagraph, c
  <2>11. Len(Content(w[k])) <= Len(z[k])
    BY <2>1, <2>2, <2>5, <2>6, <2>9, <2>10
  <2> QED BY <2>1, <2>11
<1>8. \A k \in 0 .. n : k \in S
  <2> HIDE DEF S
  <2> QED BY <1>1, <1>6, <1>7, Along
<1> QED BY <1>1, <1>4, <1>5, <1>8

\* The content of two texts is at most both and a space.
LEMMA ContentConcat ==
    ASSUME NEW X, Space \in X, NEW s \in Seq(TextOver(X)), NEW t \in Seq(TextOver(X))
    PROVE  Len(Content(s \o t)) <= Len(Content(s)) + 1 + Len(Content(t))
<1> DEFINE n == Len(t)
           a == Content(s)
           part(k) == SubSeq(t, 1, k)
           S == {k \in 0 .. n :
                    IF Content(part(k)) = <<>> THEN Len(Content(s \o part(k))) <= Len(a)
                    ELSE Len(Content(s \o part(k))) <= Len(a) + 1 + Len(Content(part(k)))}
<1>1. n \in Nat /\ a \in TextOver(X) /\ Len(a) \in Nat
  BY ContentIs
<1>2. 0 \in S
  <2>1. part(0) = <<>> /\ s \o <<>> = s
    OBVIOUS
  <2>2. Content(<<>>) = <<>>
    BY ContentAppend, TextEmpty
  <2>3. Content(part(0)) = <<>> /\ Content(s \o part(0)) = a
    BY <2>1, <2>2
  <2>4. 0 \in 0 .. n /\ Len(a) <= Len(a)
    BY <1>1
  <2> HIDE DEF part, a
  <2> QED BY <2>3, <2>4
<1>3. ASSUME NEW k \in 1 .. n, k - 1 \in S PROVE k \in S
  <2> DEFINE q == part(k - 1)
             p == t[k]
             u == s \o q
             b == Content(q)
             c == Content(u)
  <2>1. q \in Seq(TextOver(X)) /\ p \in TextOver(X) /\ part(k) = Append(q, p) /\ k \in 0 .. n
    BY <1>1
  <2>2. IF b = <<>> THEN Len(c) <= Len(a) ELSE Len(c) <= Len(a) + 1 + Len(b)
    BY <1>3
  <2>x. s \o part(k) = Append(s \o q, p)
    <3> HIDE DEF q, p
    <3>1. s \o Append(q, p) = Append(s \o q, p)
      BY <2>1
    <3> QED BY <2>1, <3>1
  <2> HIDE DEF q, p
  <2>3. u \in Seq(TextOver(X)) /\ s \o part(k) = Append(u, p)
    BY <2>1, <2>x
  <2> HIDE DEF u
  <2>4. Content(part(k)) = Spaced(b, p) /\ Content(s \o part(k)) = Spaced(c, p)
    BY <2>1, <2>3, ContentAppend
  <2>5. b \in TextOver(X) /\ c \in TextOver(X)
    BY <2>1, <2>3, ContentIs
  <2> HIDE DEF b, c, part
  <2>6. Len(b) \in Nat /\ Len(c) \in Nat /\ Len(p) \in Nat /\ p \in Seq(X)
    BY <2>1, <2>5, TextIs
  <2>7. /\ Len(Spaced(b, p)) \in Nat /\ (b = <<>> => Spaced(b, p) = p) /\ (p = <<>> => Spaced(b, p) = b)
        /\ b # <<>> /\ p # <<>> => Len(Spaced(b, p)) = Len(b) + 1 + Len(p)
    BY <2>1, <2>5, SpacedLength
  <2>8. /\ Len(Spaced(c, p)) \in Nat /\ Len(Spaced(c, p)) <= Len(c) + 1 + Len(p)
        /\ (p = <<>> => Spaced(c, p) = c)
    BY <2>1, <2>5, SpacedLength
  <2>9. IF Spaced(b, p) = <<>> THEN Len(Spaced(c, p)) <= Len(a)
        ELSE Len(Spaced(c, p)) <= Len(a) + 1 + Len(Spaced(b, p))
    <3>1. CASE p = <<>>
      BY <2>2, <2>7, <2>8, <3>1
    <3>2. CASE p # <<>> /\ b = <<>>
      <4>1. Spaced(b, p) = p /\ Len(c) <= Len(a)
        BY <2>2, <2>7, <3>2
      <4>2. Len(Spaced(c, p)) <= Len(a) + 1 + Len(p)
        BY <1>1, <2>6, <2>8, <4>1
      <4> QED BY <3>2, <4>1, <4>2
    <3>3. CASE p # <<>> /\ b # <<>>
      <4>1. Len(Spaced(b, p)) = Len(b) + 1 + Len(p) /\ Len(c) <= Len(a) + 1 + Len(b)
        BY <2>2, <2>7, <3>3
      <4>2. Len(Spaced(c, p)) <= Len(a) + 1 + Len(Spaced(b, p))
        BY <1>1, <2>6, <2>8, <4>1
      <4>3. Spaced(b, p) # <<>>
        <5>1. Len(Spaced(b, p)) # 0
          BY <2>6, <4>1
        <5> QED BY <5>1
      <4> QED BY <4>2, <4>3
    <3> QED BY <3>1, <3>2, <3>3
  <2> QED BY <2>1, <2>4, <2>9
<1>4. \A k \in 0 .. n : k \in S
  <2> HIDE DEF S
  <2> QED BY <1>1, <1>2, <1>3, Along
<1>5. part(n) = t
  OBVIOUS
<1>y. n \in S
  <2> HIDE DEF S
  <2>1. n \in 0 .. n
    BY <1>1
  <2> QED BY <1>4, <2>1
<1>z. IF Content(t) = <<>> THEN Len(Content(s \o t)) <= Len(a)
      ELSE Len(Content(s \o t)) <= Len(a) + 1 + Len(Content(t))
  <2>1. IF Content(part(n)) = <<>> THEN Len(Content(s \o part(n))) <= Len(a)
                    ELSE Len(Content(s \o part(n))) <= Len(a) + 1 + Len(Content(part(n)))
    BY <1>y
  <2> HIDE DEF part, a
  <2> QED BY <1>5, <2>1
<1>6. Len(Content(t)) \in Nat /\ s \o t \in Seq(TextOver(X))
  BY ContentIs
<1>7. Len(Content(s \o t)) \in Nat
  BY <1>6, ContentIs
<1> DEFINE lx == Len(Content(s \o t))
           ly == Len(a)
           lz == Len(Content(t))
<1>8. lx <= ly \/ lx <= ly + 1 + lz
  BY <1>z
<1>9. lx \in Nat /\ ly \in Nat /\ lz \in Nat
  BY <1>1, <1>6, <1>7
<1> HIDE DEF lx, ly, lz
<1>10. lx <= ly + 1 + lz
  BY <1>8, <1>9
<1> QED BY <1>10 DEF lx, ly, lz

\* The joined length of one text.
LEMMA JoinedOne ==
    ASSUME NEW A, NEW t \in Seq(A)
    PROVE  JoinedLength(<<t>>) = Len(t)
<1> DEFINE s == <<t>>
<1>1. s \in Seq(Seq(A)) /\ Len(s) = 1 /\ s[1] = t /\ s # <<>> /\ Len(t) \in Nat
  <2>1. s \in Seq(Seq(A)) /\ Len(s) = 1 /\ s[1] = t /\ Len(t) \in Nat
    OBVIOUS
  <2>2. Len(<<>>) = 0
    OBVIOUS
  <2> QED BY <2>1, <2>2
<1> HIDE DEF s
<1>2. PICK w \in [0 .. Len(s) -> Nat] : TotallingTrace(w, s)
  BY <1>1, Totalling
<1>3. TotalLength(s) = w[Len(s)] /\ w[0] = 0
  BY <1>2, Zenon DEF TotallingTrace, TotalLength
<1>4. \A k \in 1 .. Len(s) : w[k] = w[k - 1] + Len(s[k])
  BY <1>2, Zenon DEF TotallingTrace
<1>5. 1 \in 1 .. Len(s) /\ 1 - 1 = 0
  BY <1>1
<1>6. w[1] = w[1 - 1] + Len(s[1])
  BY <1>4, <1>5
<1>7. w[1] = Len(t)
  <2>1. w[1] = w[0] + Len(t)
    BY <1>1, <1>5, <1>6
  <2> QED BY <1>1, <1>3, <2>1
<1> DEFINE y == TotalLength(s)
<1> HIDE DEF y
<1>8. JoinedLength(s) = y + 2 * (Len(s) - 1)
  BY <1>1 DEF JoinedLength, y
<1>9. y = Len(t)
  BY <1>1, <1>3, <1>7 DEF y
<1>10. JoinedLength(s) = Len(t)
  BY <1>1, <1>8, <1>9
<1> QED BY <1>10 DEF s

\* What current.pop(0) leaves has room for the next block, or is nothing.
LEMMA TrimFits ==
    ASSUME NEW A, NEW o \in Seq(Seq(A)), NEW t \in Seq(A)
    PROVE  Trim(o, t) = <<>> \/ JoinedLength(Append(Trim(o, t), t)) <= ChunkSize
<1> DEFINE fits == {k \in 0 .. Len(o) : k = 0 \/ JoinedLength(Append(Suffix(o, k), t)) <= ChunkSize}
           m == CHOOSE k \in fits : \A j \in fits : j <= k
<1>1. Len(o) \in Nat
  OBVIOUS
<1>2. \E k \in fits : \A j \in fits : j <= k
  <2>1. 0 \in fits /\ fits \subseteq 0 .. Len(o)
    BY <1>1
  <2> HIDE DEF fits
  <2>2. \A x \in fits : x \in Int /\ x <= Len(o)
    BY <1>1, <2>1
  <2> QED BY <1>1, <2>1, <2>2, Greatest
<1>3. m \in fits
  BY <1>2
<1>4. Trim(o, t) = Suffix(o, m)
  BY Zenon DEF Trim
<1> HIDE DEF m
<1>5. CASE m = 0
  <2>1. Suffix(o, 0) = <<>>
    <3>1. CASE Len(o) = 0
      <4>1. Suffix(o, 0) = SubSeq(o, 1, Len(o))
        BY <3>1 DEF Suffix
      <4>2. SubSeq(o, 1, 0) = <<>>
        OBVIOUS
      <4> QED BY <3>1, <4>1, <4>2
    <3>2. CASE Len(o) # 0
      <4>1. Suffix(o, 0) = SubSeq(o, Len(o) + 1, Len(o))
        <5>1. Len(o) > 0 /\ Len(o) - 0 + 1 = Len(o) + 1
          BY <1>1, <3>2
        <5> QED BY <5>1 DEF Suffix
      <4>2. SubSeq(o, Len(o) + 1, Len(o)) = <<>>
        BY <1>1
      <4> QED BY <4>1, <4>2
    <3> QED BY <3>1, <3>2
  <2> QED BY <1>4, <1>5, <2>1
<1>6. CASE m # 0
  <2>1. JoinedLength(Append(Suffix(o, m), t)) <= ChunkSize
    BY <1>3, <1>6
  <2> QED BY <1>4, <2>1
<1> QED BY <1>5, <1>6

\* The texts that are being collected are within the bound of a piece.
Bounded(x) == x = <<>> \/ JoinedLength(x) <= PieceBound
PieceSteps(acc, r) ==
    /\ Bounded(r.now)
    /\ \/ r.done = acc.done
       \/ r.done = Append(acc.done, acc.now)

\* _chunk_block_group never collects more than a piece may have.
LEMMA AddPieceLength ==
    ASSUME NEW A, NEW acc \in [done : Seq(Seq(Seq(A)) \ {<<>>}), now : Seq(Seq(A))],
           NEW t \in Seq(A), Len(t) <= PieceBound
    PROVE  PieceSteps(acc, AddPiece(acc, t))
<1> DEFINE a == acc.now
           o == OverlapBlocks(a)
           u == Trim(o, t)
           r == AddPiece(acc, t)
<1>1. a \in Seq(Seq(A))
  OBVIOUS
<1>2. \/ /\ r.done = Append(acc.done, a) /\ r.now = Append(u, t)
      \/ /\ r.done = acc.done /\ r.now = Append(a, t)
         /\ a = <<>> \/ ~(JoinedLength(Append(a, t)) > ChunkSize)
  BY DEF AddPiece
<1> HIDE DEF a, r
<1>3. o \in Seq(Seq(A))
  BY <1>1, OverlapStays
<1> HIDE DEF o
<1>4. u = <<>> \/ JoinedLength(Append(u, t)) <= ChunkSize
  BY <1>3, TrimFits
<1>5. u \in Seq(Seq(A))
  BY <1>3, OverlapStays
<1> HIDE DEF u
<1>6. ChunkSize \in Nat /\ Overlap \in Nat
  BY ChunkAssumption
<1>7. ChunkSize <= PieceBound /\ PieceBound \in Nat
  BY <1>6 DEF PieceBound
<1>8. ASSUME NEW x \in Seq(Seq(A)), x = <<>> \/ ~(JoinedLength(Append(x, t)) > ChunkSize)
      PROVE  Bounded(Append(x, t))
  <2> DEFINE q == Append(x, t)
             j == JoinedLength(q)
  <2>1. q \in Seq(Seq(A))
    OBVIOUS
  <2>2. j \in Nat
    <3> HIDE DEF q
    <3> QED BY <2>1, TotalIs
  <2>3. CASE x = <<>>
    <3>1. q = <<t>>
      BY <2>3
    <3>2. JoinedLength(<<t>>) = Len(t)
      BY JoinedOne
    <3> HIDE DEF q
    <3> QED BY <3>1, <3>2 DEF Bounded, q
  <2>4. CASE x # <<>>
    <3>1. ~(j > ChunkSize)
      BY <1>8, <2>4
    <3> HIDE DEF q, j
    <3>2. j <= PieceBound
      BY <1>6, <1>7, <2>2, <3>1
    <3> QED BY <3>2 DEF Bounded, q, j
  <2> QED BY <2>3, <2>4
<1>9. JoinedLength(Append(u, t)) <= ChunkSize => ~(JoinedLength(Append(u, t)) > ChunkSize)
  <2> DEFINE j == JoinedLength(Append(u, t))
  <2>1. j \in Nat
    <3>1. Append(u, t) \in Seq(Seq(A))
      BY <1>5
    <3> QED BY <3>1, TotalIs
  <2> HIDE DEF j
  <2>2. j <= ChunkSize => ~(j > ChunkSize)
    BY <1>6, <2>1
  <2> QED BY <2>2 DEF j
<1>10. Bounded(r.now)
  BY <1>1, <1>2, <1>4, <1>5, <1>8, <1>9
<1> QED BY <1>2, <1>10 DEF PieceSteps, a, r

\* So no text of a chunk is longer, before the merging.
LEMMA PieceShort ==
    ASSUME NEW A, NEW s \in Seq(Seq(A)), \A k \in 1 .. Len(s) : Len(s[k]) <= PieceBound
    PROVE  \A x \in ToSet(Closed(FoldLeft(AddPiece, NothingYet, s))) : Bounded(x)
<1> DEFINE D == Seq(Seq(A)) \ {<<>>}
           V == [done : Seq(Seq(Seq(A)) \ {<<>>}), now : Seq(Seq(A))]
<1>1. PICK w \in [0 .. Len(s) -> [done : Seq(Seq(Seq(A)) \ {<<>>}), now : Seq(Seq(A))]] : PiecingTrace(w, s)
  BY Piecing
<1> DEFINE n == Len(s)
           S == {k \in 0 .. n : Bounded(w[k].now) /\ \A x \in ToSet(w[k].done) : Bounded(x)}
<1>2. n \in Nat /\ \A k \in 1 .. n : s[k] \in Seq(A)
  OBVIOUS
<1>3. 0 \in S
  <2>1. w[0] = NothingYet
    BY <1>1 DEF PiecingTrace
  <2>2. w[0].done = <<>> /\ w[0].now = <<>>
    BY <2>1 DEF NothingYet
  <2>3. ToSet(<<>>) = {} /\ Bounded(<<>>)
    BY DEF ToSet, Bounded
  <2> QED BY <1>2, <2>2, <2>3
<1>4. ASSUME NEW k \in 1 .. n, k - 1 \in S PROVE k \in S
  <2>1. k \in 0 .. n /\ k - 1 \in 0 .. n
    BY <1>2
  <2> DEFINE v == w[k - 1]
             t == s[k]
             r == w[k]
  <2>2. v \in V /\ t \in Seq(A) /\ Len(t) <= PieceBound /\ r = AddPiece(v, t) /\ r \in V
    BY <1>1, <1>2, <2>1 DEF PiecingTrace
  <2>3. Bounded(v.now) /\ \A x \in ToSet(v.done) : Bounded(x)
    BY <1>4
  <2> HIDE DEF v, t, r
  <2>4. PieceSteps(v, AddPiece(v, t))
    BY <2>2, AddPieceLength
  <2>5. v.done \in Seq(Seq(Seq(A))) /\ v.now \in Seq(Seq(A))
    BY <2>2
  <2>6. ToSet(Append(v.done, v.now)) = ToSet(v.done) \cup {v.now}
    <3> DEFINE d == v.done
               e == v.now
               Q == Seq(Seq(A))
    <3>1. d \in Seq(Q) /\ e \in Q
      BY <2>5
    <3> HIDE DEF d, e, Q
    <3>2. ToSet(Append(d, e)) = ToSet(d) \cup {e}
      BY <3>1, ToSetFacts
    <3> QED BY <3>2 DEF d, e
  <2>7. Bounded(r.now) /\ \A x \in ToSet(r.done) : Bounded(x)
    BY <2>2, <2>3, <2>4, <2>6 DEF PieceSteps
  <2> QED BY <2>1, <2>7 DEF r
<1>5. \A k \in 0 .. n : k \in S
  <2> HIDE DEF S
  <2> QED BY <1>2, <1>3, <1>4, Along
<1> DEFINE acc == w[n]
           d == acc.done
           a == acc.now
           r == Closed(FoldLeft(AddPiece, NothingYet, s))
<1>6. r = Closed(acc) /\ n \in 0 .. n
  BY <1>1, <1>2 DEF PiecingTrace
<1> HIDE DEF r
<1>7. d \in Seq(Seq(Seq(A))) /\ a \in Seq(Seq(A))
  <2>1. acc \in V
    BY <1>1, <1>6
  <2> HIDE DEF acc
  <2> QED BY <2>1
<1>8. r = IF a = <<>> THEN d ELSE Append(d, a)
  BY <1>6 DEF Closed
<1>9. Bounded(a) /\ \A x \in ToSet(d) : Bounded(x)
  BY <1>5, <1>6
<1> HIDE DEF d, a
<1>10. ToSet(Append(d, a)) = ToSet(d) \cup {a}
  <2> DEFINE Q == Seq(Seq(A))
  <2>1. d \in Seq(Q) /\ a \in Q
    BY <1>7
  <2> HIDE DEF Q
  <2> QED BY <2>1, ToSetFacts
<1>11. \A x \in ToSet(r) : Bounded(x)
  BY <1>8, <1>9, <1>10
<1> QED BY <1>11 DEF r

-----------------------------------------------------------------------------
(* The chunks of a page.                                                   *)

\* A block more, in the last group or in one of its own.
GroupKeeps(gs, b, r) == Leaves(r) = Leaves(gs) \cup {b}

\* A block joins the last group or starts one.
LEMMA AddToGroupStep ==
    ASSUME NEW B, NEW gs \in Seq(Seq(B) \ {<<>>}), NEW b \in B
    PROVE  GroupKeeps(gs, b, AddToGroup(gs, b))
<1> DEFINE r == AddToGroup(gs, b)
           f == Front(gs)
           l == Last(gs)
<1>1. r = Append(gs, <<b>>) \/ (gs # <<>> /\ r = Append(f, Append(l, b)))
  BY DEF AddToGroup
<1> HIDE DEF r
<1>2. gs \in Seq(Seq(B)) /\ <<b>> \in Seq(B) /\ ToSet(<<b>>) = {b}
  BY DEF ToSet
<1>3. Leaves(Append(gs, <<b>>)) = Leaves(gs) \cup ToSet(<<b>>)
  BY <1>2, LeavesFacts
<1>4. ASSUME gs # <<>>
      PROVE  Leaves(Append(f, Append(l, b))) = Leaves(gs) \cup {b}
  <2>1. f \in Seq(Seq(B)) /\ l \in Seq(B) /\ gs = Append(f, l)
    <3> DEFINE D == Seq(B)
    <3> HIDE DEF D
    <3>1. gs \in Seq(D)
      BY <1>2 DEF D
    <3>2. f \in Seq(D) /\ l \in D
      BY <1>4, <3>1 DEF Front, Last
    <3>3. gs = Append(f, l)
      BY <1>4, <3>1 DEF Front, Last
    <3> QED BY <3>2, <3>3 DEF D
  <2> HIDE DEF f, l
  <2>2. Append(l, b) \in Seq(B) /\ ToSet(Append(l, b)) = ToSet(l) \cup {b}
    BY <2>1, ToSetFacts
  <2>3. Leaves(Append(f, Append(l, b))) = Leaves(f) \cup ToSet(Append(l, b))
    BY <2>1, <2>2, LeavesFacts
  <2>4. Leaves(Append(f, l)) = Leaves(f) \cup ToSet(l)
    BY <2>1, LeavesFacts
  <2> QED BY <2>1, <2>2, <2>3, <2>4
<1>5. Leaves(r) = Leaves(gs) \cup {b}
  <2> HIDE DEF f, l
  <2> QED BY <1>1, <1>2, <1>3, <1>4
<1> QED BY <1>5 DEF GroupKeeps, r

\* chunk_document groups all blocks of a page.
LEMMA GroupsFacts ==
    ASSUME NEW B, NEW s \in Seq(B)
    PROVE  Groups(s) \in Seq(Seq(B) \ {<<>>}) /\ Leaves(Groups(s)) = ToSet(s)
<1>1. PICK w \in [0 .. Len(s) -> Seq(Seq(B) \ {<<>>})] : GroupingTrace(w, s)
  BY Grouping
<1> DEFINE n == Len(s)
           S == {k \in 0 .. n : Leaves(w[k]) = {s[i] : i \in 1 .. k}}
<1>2. n \in Nat /\ \A k \in 1 .. n : s[k] \in B
  OBVIOUS
<1>3. 0 \in S
  <2>1. w[0] = <<>>
    BY <1>1 DEF GroupingTrace
  <2>2. 1 .. 0 = {} /\ Leaves(<<>>) = {}
    BY DEF ToSet, Leaves
  <2> QED BY <1>2, <2>1, <2>2
<1>4. ASSUME NEW k \in 1 .. n, k - 1 \in S PROVE k \in S
  <2>1. k \in 0 .. n /\ k - 1 \in 0 .. n
    BY <1>2
  <2> DEFINE v == w[k - 1]
             t == s[k]
  <2>2. w[k] = AddToGroup(v, t) /\ v \in Seq(Seq(B) \ {<<>>}) /\ t \in B
    BY <1>1, <1>2, <2>1 DEF GroupingTrace
  <2>3. GroupKeeps(v, t, AddToGroup(v, t))
    <3> HIDE DEF v, t
    <3> QED BY <2>2, AddToGroupStep
  <2>4. Leaves(w[k - 1]) = {s[i] : i \in 1 .. k - 1}
    BY <1>4
  <2>5. {s[i] : i \in 1 .. k} = {s[i] : i \in 1 .. k - 1} \cup {s[k]}
    <3>1. \A i \in 1 .. k : i \in 1 .. k - 1 \/ i = k
      OBVIOUS
    <3>2. (\A i \in 1 .. k - 1 : i \in 1 .. k) /\ k \in 1 .. k
      OBVIOUS
    <3> QED BY <3>1, <3>2
  <2>6. Leaves(w[k]) = {s[i] : i \in 1 .. k}
    BY <2>2, <2>3, <2>4, <2>5 DEF GroupKeeps
  <2> QED BY <2>1, <2>6
<1>5. \A k \in 0 .. n : k \in S
  <2> HIDE DEF S
  <2> QED BY <1>2, <1>3, <1>4, Along
<1>6. Groups(s) = w[n] /\ n \in 0 .. n
  BY <1>1, <1>2 DEF GroupingTrace, Groups
<1>7. ToSet(s) = {s[i] : i \in 1 .. n}
  BY DEF ToSet
<1> QED BY <1>1, <1>5, <1>6, <1>7

\* Chunks of page n with text over X and a section of H, and their paragraphs.
ChunkOf(X, n, H) == [text : Seq(TextOver(X)) \ {<<>>}, page : {n}, section : H, ocr : BOOLEAN]
Paragraphs(cs) == UNION {ToSet(c.text) : c \in ToSet(cs)}

\* Blocks of page n that split into texts over X.
Sound(b, X, n, H) ==
    /\ SplitLongText(b.text, b.sentences) \in Seq(TextOver(X))
    /\ Short(ToSet(SplitLongText(b.text, b.sentences)))
    /\ b.page = n /\ b.section \in H /\ b.ocr \in BOOLEAN
Pieces(b) == ToSet(SplitLongText(b.text, b.sentences))

\* Chunks whose content is not longer than a piece.
ShortChunks(cs) == \A c \in ToSet(cs) : Len(Content(c.text)) <= PieceBound

\* The chunks of a group of blocks: their page, their pieces, their lengths.
LEMMA GroupChunks ==
    ASSUME NEW X, Space \in X, NEW n, NEW H, NEW B, \A b \in B : Sound(b, X, n, H),
           NEW blocks \in Seq(B), blocks # <<>>
    PROVE  /\ ChunkBlockGroup(blocks) \in Seq(ChunkOf(X, n, H))
           /\ Paragraphs(ChunkBlockGroup(blocks)) = UNION {Pieces(b) : b \in ToSet(blocks)}
           /\ ShortChunks(ChunkBlockGroup(blocks))
<1> DEFINE A == TextOver(X)
           split == [k \in DOMAIN blocks |-> SplitLongText(blocks[k].text, blocks[k].sentences)]
           expanded == FlattenSeq(split)
           texts == Closed(FoldLeft(AddPiece, NothingYet, expanded))
           r == [k \in DOMAIN texts |-> MakeChunk(texts[k], blocks[1])]
<1>1. ChunkBlockGroup(blocks) = r
  BY DEF ChunkBlockGroup
<1>2. /\ DOMAIN blocks = 1 .. Len(blocks) /\ Len(blocks) \in Nat /\ 1 \in 1 .. Len(blocks)
      /\ \A k \in 1 .. Len(blocks) : blocks[k] \in B
  OBVIOUS
<1>3. /\ split \in Seq(Seq(A)) /\ Len(split) = Len(blocks)
      /\ \A k \in 1 .. Len(blocks) : ToSet(split[k]) = Pieces(blocks[k])
  <2>1. \A k \in 1 .. Len(blocks) : SplitLongText(blocks[k].text, blocks[k].sentences) \in Seq(A)
    BY <1>2 DEF Sound
  <2>2. \A k \in 1 .. Len(blocks) : split[k] = SplitLongText(blocks[k].text, blocks[k].sentences)
    BY <1>2
  <2>3. split \in [1 .. Len(blocks) -> Seq(A)]
    BY <1>2, <2>1
  <2> HIDE DEF split, A
  <2>4. split \in Seq(Seq(A)) /\ Len(split) = Len(blocks)
    BY <1>2, <2>3
  <2> QED BY <2>2, <2>4 DEF Pieces
<1> HIDE DEF split, A
<1>4. expanded \in Seq(A) /\ ToSet(expanded) = UNION {ToSet(split[k]) : k \in 1 .. Len(split)}
  BY <1>3, FlattenFacts
<1>5. ToSet(expanded) = UNION {Pieces(b) : b \in ToSet(blocks)}
  <2>1. UNION {ToSet(split[k]) : k \in 1 .. Len(split)} = UNION {Pieces(blocks[k]) : k \in 1 .. Len(blocks)}
    BY <1>3
  <2>2. ToSet(blocks) = {blocks[k] : k \in 1 .. Len(blocks)}
    BY <1>2 DEF ToSet
  <2> QED BY <1>4, <2>1, <2>2
<1>s. \A k \in 1 .. Len(expanded) : Len(expanded[k]) <= PieceBound
  <2>1. \A p \in ToSet(expanded) : Len(p) <= PieceBound
    <3>1. ASSUME NEW p \in ToSet(expanded) PROVE Len(p) <= PieceBound
      <4>1. PICK b \in ToSet(blocks) : p \in Pieces(b)
        BY <1>5
      <4>2. b \in B
        BY DEF ToSet
      <4> QED BY <4>1, <4>2 DEF Pieces, Sound, Short
    <3> QED BY <3>1
  <2> HIDE DEF expanded
  <2>2. DOMAIN expanded = 1 .. Len(expanded)
    BY <1>4
  <2> QED BY <2>1, <2>2 DEF ToSet
<1> HIDE DEF expanded
<1>6. texts \in Seq(Seq(A) \ {<<>>}) /\ Leaves(texts) = ToSet(expanded)
  BY <1>4, PieceFacts
<1>t. ASSUME NEW x \in ToSet(texts) PROVE Len(Content(x)) <= PieceBound
  <2>1. expanded \in Seq(Seq(X))
    <3>1. A \subseteq Seq(X)
      BY DEF A, TextOver
    <3> QED BY <1>4, <3>1
  <2>2. Bounded(x)
    BY <1>s, <2>1, PieceShort
  <2>3. x \in Seq(A) /\ x # <<>>
    <3> HIDE DEF texts
    <3> QED BY <1>6 DEF ToSet
  <2>4. Len(Content(x)) <= JoinedLength(x) /\ Len(Content(x)) \in Nat
    BY <2>3, ContentShort, ContentIs DEF A
  <2>5. JoinedLength(x) \in Nat
    <3>1. A \subseteq Seq(X)
      BY DEF A, TextOver
    <3>2. x \in Seq(Seq(X))
      BY <2>3, <3>1
    <3> QED BY <3>2, TotalIs
  <2>6. PieceBound \in Nat
    BY ChunkAssumption DEF PieceBound
  <2>7. JoinedLength(x) <= PieceBound
    BY <2>2, <2>3 DEF Bounded
  <2> QED BY <2>4, <2>5, <2>6, <2>7
<1> HIDE DEF texts
<1>7. DOMAIN texts = 1 .. Len(texts) /\ Len(texts) \in Nat /\ \A k \in 1 .. Len(texts) : texts[k] \in Seq(A) \ {<<>>}
  BY <1>6
<1>8. Sound(blocks[1], X, n, H)
  BY <1>2
<1>9. ASSUME NEW k \in 1 .. Len(texts)
      PROVE  MakeChunk(texts[k], blocks[1]) \in ChunkOf(X, n, H) /\ MakeChunk(texts[k], blocks[1]).text = texts[k]
  <2>1. texts[k] \in Seq(A) \ {<<>>}
    BY <1>7
  <2> QED BY <1>8, <2>1 DEF MakeChunk, Sound, ChunkOf, A
<1>10. r \in [1 .. Len(texts) -> ChunkOf(X, n, H)] /\ \A k \in 1 .. Len(texts) : r[k].text = texts[k]
  BY <1>7, <1>9
<1>11. DOMAIN r = 1 .. Len(texts)
  BY <1>7
<1> HIDE DEF r
<1>12. r \in Seq(ChunkOf(X, n, H))
  BY <1>7, <1>10
<1>13. Paragraphs(r) = Leaves(texts)
  <2>1. ToSet(r) = {r[k] : k \in 1 .. Len(texts)} /\ ToSet(texts) = {texts[k] : k \in 1 .. Len(texts)}
    BY <1>7, <1>11 DEF ToSet
  <2>2. ASSUME NEW p \in Paragraphs(r) PROVE p \in Leaves(texts)
    <3>1. PICK c \in ToSet(r) : p \in ToSet(c.text)
      BY DEF Paragraphs
    <3>2. PICK k \in 1 .. Len(texts) : c = r[k]
      BY <2>1, <3>1
    <3>3. p \in ToSet(texts[k]) /\ texts[k] \in ToSet(texts)
      BY <1>10, <2>1, <3>1, <3>2
    <3> QED BY <3>3 DEF Leaves
  <2>3. ASSUME NEW p \in Leaves(texts) PROVE p \in Paragraphs(r)
    <3>1. PICK t \in ToSet(texts) : p \in ToSet(t)
      BY DEF Leaves
    <3>2. PICK k \in 1 .. Len(texts) : t = texts[k]
      BY <2>1, <3>1
    <3>3. p \in ToSet(r[k].text) /\ r[k] \in ToSet(r)
      BY <1>10, <2>1, <3>1, <3>2
    <3> QED BY <3>3 DEF Paragraphs
  <2> QED BY <2>2, <2>3
<1>14. ASSUME NEW c \in ToSet(r) PROVE Len(Content(c.text)) <= PieceBound
  <2>1. PICK k \in 1 .. Len(texts) : c = r[k]
    BY <1>11 DEF ToSet
  <2>2. c.text = texts[k] /\ texts[k] \in ToSet(texts)
    BY <1>7, <1>10, <2>1 DEF ToSet
  <2> QED BY <1>t, <2>2
<1>15. ShortChunks(r)
  BY <1>14 DEF ShortChunks
<1> QED BY <1>1, <1>5, <1>6, <1>12, <1>13, <1>15

\* chunk_document on a page: chunks with exactly the pieces of its blocks.
PageChunks(blocks) ==
    FlattenSeq([g \in DOMAIN Groups(blocks) |-> ChunkBlockGroup(Groups(blocks)[g])])

\* The chunks of a page have the pieces of its blocks and nothing else.
LEMMA PageChunksFacts ==
    ASSUME NEW X, Space \in X, NEW n, NEW H, NEW B, \A b \in B : Sound(b, X, n, H), NEW blocks \in Seq(B)
    PROVE  /\ PageChunks(blocks) \in Seq(ChunkOf(X, n, H))
           /\ Paragraphs(PageChunks(blocks)) = UNION {Pieces(b) : b \in ToSet(blocks)}
           /\ ShortChunks(PageChunks(blocks))
<1> DEFINE gs == Groups(blocks)
           C == ChunkOf(X, n, H)
           cs == [g \in DOMAIN gs |-> ChunkBlockGroup(gs[g])]
           r == PageChunks(blocks)
<1>1. gs \in Seq(Seq(B) \ {<<>>}) /\ Leaves(gs) = ToSet(blocks)
  BY GroupsFacts
<1>2. r = FlattenSeq(cs)
  BY DEF PageChunks
<1> HIDE DEF gs, r
<1>3. DOMAIN gs = 1 .. Len(gs) /\ Len(gs) \in Nat /\ \A g \in 1 .. Len(gs) : gs[g] \in Seq(B) \ {<<>>}
  BY <1>1
<1>4. ASSUME NEW g \in 1 .. Len(gs)
      PROVE  /\ cs[g] = ChunkBlockGroup(gs[g]) /\ ChunkBlockGroup(gs[g]) \in Seq(C)
             /\ Paragraphs(ChunkBlockGroup(gs[g])) = UNION {Pieces(b) : b \in ToSet(gs[g])}
             /\ ShortChunks(ChunkBlockGroup(gs[g]))
  <2> DEFINE h == gs[g]
  <2>1. h \in Seq(B) /\ h # <<>>
    BY <1>3
  <2> HIDE DEF h, C
  <2>2. ChunkBlockGroup(h) \in Seq(ChunkOf(X, n, H)) /\ Paragraphs(ChunkBlockGroup(h)) = UNION {Pieces(b) : b \in ToSet(h)}
        /\ ShortChunks(ChunkBlockGroup(h))
    BY <2>1, GroupChunks
  <2>3. cs[g] = ChunkBlockGroup(gs[g])
    BY <1>3
  <2> QED BY <2>2, <2>3 DEF h, C
<1> HIDE DEF C
<1>5. cs \in Seq(Seq(C)) /\ Len(cs) = Len(gs)
  <2>1. cs \in [1 .. Len(gs) -> Seq(C)]
    BY <1>3, <1>4
  <2> HIDE DEF cs
  <2> QED BY <1>3, <2>1
<1> HIDE DEF cs
<1>6. r \in Seq(C) /\ ToSet(r) = UNION {ToSet(cs[k]) : k \in 1 .. Len(cs)}
  BY <1>2, <1>5, FlattenFacts
<1>7. Paragraphs(r) = UNION {Paragraphs(cs[k]) : k \in 1 .. Len(gs)}
  BY <1>5, <1>6 DEF Paragraphs
<1>8. UNION {Paragraphs(cs[k]) : k \in 1 .. Len(gs)} = UNION {Pieces(b) : b \in Leaves(gs)}
  <2>1. ToSet(gs) = {gs[k] : k \in 1 .. Len(gs)}
    BY <1>3 DEF ToSet
  <2>2. ASSUME NEW p, NEW k \in 1 .. Len(gs), p \in Paragraphs(cs[k])
        PROVE  p \in UNION {Pieces(b) : b \in Leaves(gs)}
    <3>0. Paragraphs(cs[k]) = UNION {Pieces(b) : b \in ToSet(gs[k])}
      BY <1>4, Zenon
    <3>1. PICK b \in ToSet(gs[k]) : p \in Pieces(b)
      BY <2>2, <3>0
    <3>2. b \in Leaves(gs)
      BY <2>1, <3>1 DEF Leaves
    <3> QED BY <3>1, <3>2
  <2>3. ASSUME NEW p, NEW b \in Leaves(gs), p \in Pieces(b)
        PROVE  \E k \in 1 .. Len(gs) : p \in Paragraphs(cs[k])
    <3>1. PICK k \in 1 .. Len(gs) : b \in ToSet(gs[k])
      BY <2>1 DEF Leaves
    <3>0. Paragraphs(cs[k]) = UNION {Pieces(e) : e \in ToSet(gs[k])}
      BY <1>4, Zenon
    <3>2. p \in Paragraphs(cs[k])
      BY <2>3, <3>0, <3>1
    <3> QED BY <3>2
  <2> QED BY <2>2, <2>3
<1>9. ShortChunks(r)
  <2>1. ASSUME NEW c \in ToSet(r) PROVE Len(Content(c.text)) <= PieceBound
    <3>1. PICK k \in 1 .. Len(gs) : c \in ToSet(cs[k])
      BY <1>5, <1>6
    <3>2. ShortChunks(cs[k])
      BY <1>4, Zenon
    <3> QED BY <3>1, <3>2 DEF ShortChunks
  <2> QED BY <2>1 DEF ShortChunks
<1> QED BY <1>1, <1>6, <1>7, <1>8, <1>9 DEF r, C

-----------------------------------------------------------------------------
(* _merge_chunks.                                                          *)

\* A paragraph more.
LEMMA AddParagraphStep ==
    ASSUME NEW A, NEW ps \in Seq(A), NEW p \in A
    PROVE  ToSet(AddParagraph(ps, p)) = ToSet(ps) \cup {p}
<1>1. CASE Contains(ps, p)
  <2>1. p \in ToSet(ps)
    BY <1>1 DEF Contains, ToSet
  <2> QED BY <1>1, <2>1 DEF AddParagraph
<1>2. CASE ~Contains(ps, p)
  <2>1. ToSet(Append(ps, p)) = ToSet(ps) \cup {p}
    BY ToSetFacts
  <2> QED BY <1>2, <2>1 DEF AddParagraph
<1> QED BY <1>1, <1>2

\* _merge_chunks drops repeated paragraphs only.
LEMMA ParagraphsOnce ==
    ASSUME NEW A, NEW s \in Seq(A)
    PROVE  /\ FoldLeft(AddParagraph, <<>>, s) \in Seq(A)
           /\ ToSet(FoldLeft(AddParagraph, <<>>, s)) = ToSet(s)
<1>1. PICK w \in [0 .. Len(s) -> Seq(A)] : MergingTrace(w, s)
  BY Merging
<1> DEFINE n == Len(s)
           S == {k \in 0 .. n : ToSet(w[k]) = {s[i] : i \in 1 .. k}}
<1>2. n \in Nat /\ \A k \in 1 .. n : s[k] \in A
  OBVIOUS
<1>3. 0 \in S
  <2>1. w[0] = <<>>
    BY <1>1 DEF MergingTrace
  <2>2. 1 .. 0 = {} /\ ToSet(<<>>) = {}
    BY DEF ToSet
  <2> QED BY <1>2, <2>1, <2>2
<1>4. ASSUME NEW k \in 1 .. n, k - 1 \in S PROVE k \in S
  <2>1. k \in 0 .. n /\ k - 1 \in 0 .. n
    BY <1>2
  <2> DEFINE v == w[k - 1]
             t == s[k]
  <2>2. w[k] = AddParagraph(v, t) /\ v \in Seq(A) /\ t \in A
    BY <1>1, <1>2, <2>1 DEF MergingTrace
  <2>3. ToSet(AddParagraph(v, t)) = ToSet(v) \cup {t}
    <3> HIDE DEF v, t
    <3> QED BY <2>2, AddParagraphStep
  <2>4. ToSet(w[k - 1]) = {s[i] : i \in 1 .. k - 1}
    BY <1>4
  <2>5. {s[i] : i \in 1 .. k} = {s[i] : i \in 1 .. k - 1} \cup {s[k]}
    <3>1. \A i \in 1 .. k : i \in 1 .. k - 1 \/ i = k
      OBVIOUS
    <3>2. (\A i \in 1 .. k - 1 : i \in 1 .. k) /\ k \in 1 .. k
      OBVIOUS
    <3> QED BY <3>1, <3>2
  <2>6. ToSet(w[k]) = {s[i] : i \in 1 .. k}
    BY <2>2, <2>3, <2>4, <2>5
  <2> QED BY <2>1, <2>6
<1>5. \A k \in 0 .. n : k \in S
  <2> HIDE DEF S
  <2> QED BY <1>2, <1>3, <1>4, Along
<1>6. FoldLeft(AddParagraph, <<>>, s) = w[n] /\ n \in 0 .. n
  BY <1>1, <1>2 DEF MergingTrace
<1>7. ToSet(s) = {s[i] : i \in 1 .. n}
  BY DEF ToSet
<1> QED BY <1>1, <1>5, <1>6, <1>7

\* What merging a and b into c keeps, and how long it may be.
MergeKeeps(a, b, c) ==
    /\ ToSet(c.text) = ToSet(a.text) \cup ToSet(b.text)
    /\ Len(Content(c.text)) <= Len(Content(a.text)) + 1 + Len(Content(b.text))

\* _merge_chunks has the paragraphs of both chunks, and at most their content.
LEMMA MergeFacts ==
    ASSUME NEW X, Space \in X, NEW n, NEW H, NEW a \in ChunkOf(X, n, H), NEW b \in ChunkOf(X, n, H)
    PROVE  /\ MergeChunks(a, b) \in ChunkOf(X, n, H)
           /\ MergeKeeps(a, b, MergeChunks(a, b))
<1> DEFINE A == TextOver(X)
           s == a.text
           t == b.text
           f == FoldLeft(AddParagraph, <<>>, s \o t)
           r == MergeChunks(a, b)
<1>1. /\ s \in Seq(A) /\ t \in Seq(A) /\ s # <<>> /\ a.page = n /\ b.page = n
      /\ a.section \in H /\ b.section \in H /\ a.ocr \in BOOLEAN /\ b.ocr \in BOOLEAN
      /\ DOMAIN a = {"text", "page", "section", "ocr"}
  BY DEF ChunkOf
<1>2. /\ r.text = f /\ r.page = a.page /\ r.section \in {a.section, b.section}
      /\ r.ocr = (a.ocr \/ b.ocr) /\ DOMAIN r = DOMAIN a
      /\ r = [x \in DOMAIN a |-> r[x]]
  <2> HIDE DEF f
  <2> QED BY <1>1 DEF MergeChunks, f
<1> HIDE DEF s, t, A, r
<1>3. s \o t \in Seq(A)
  BY <1>1
<1>4. f \in Seq(A) /\ ToSet(f) = ToSet(s \o t)
  BY <1>3, ParagraphsOnce
<1>l. Len(Content(f)) <= Len(Content(s)) + 1 + Len(Content(t))
  <2> DEFINE lf == Len(Content(f))
             lst == Len(Content(s \o t))
             ls == Len(Content(s))
             lt == Len(Content(t))
  <2>1. lf <= lst
    BY <1>3, ParagraphsShort DEF A
  <2>2. lst <= ls + 1 + lt
    BY <1>1, ContentConcat DEF A
  <2>3. lst \in Nat /\ ls \in Nat /\ lt \in Nat
    BY <1>1, <1>3, ContentIs DEF A
  <2>4. lf \in Nat
    <3> HIDE DEF f
    <3> QED BY <1>4, ContentIs DEF A
  <2> HIDE DEF lf, lst, ls, lt
  <2>5. lf <= ls + 1 + lt
    BY <2>1, <2>2, <2>3, <2>4
  <2> QED BY <2>5 DEF lf, ls, lt
<1> HIDE DEF f
<1>5. ToSet(s \o t) = ToSet(s) \cup ToSet(t)
  <2>1. s[1] \in A
    BY <1>1
  <2> QED BY <1>1, <2>1, ToSetFacts
<1>6. f # <<>>
  <2>1. s[1] \in ToSet(s)
    BY <1>1 DEF ToSet
  <2>2. ToSet(<<>>) = {}
    BY DEF ToSet
  <2> QED BY <1>4, <1>5, <2>1, <2>2
<1>7. r \in ChunkOf(X, n, H)
  BY <1>1, <1>2, <1>4, <1>6 DEF ChunkOf, A
<1> QED BY <1>2, <1>4, <1>5, <1>7, <1>l DEF MergeKeeps, r, s, t

\* Two neighbours become one.
MergedAt(cs, i) ==
    SubSeq(cs, 1, i - 1) \o <<MergeChunks(cs[i], cs[i + 1])>> \o SubSeq(cs, i + 2, Len(cs))

\* Merging two neighbours keeps the others and every paragraph.
LEMMA MergedAtFacts ==
    ASSUME NEW X, Space \in X, NEW n, NEW H, NEW cs \in Seq(ChunkOf(X, n, H)),
           NEW i \in 1 .. Len(cs), i + 1 \in 1 .. Len(cs)
    PROVE  /\ MergedAt(cs, i) \in Seq(ChunkOf(X, n, H)) /\ Len(MergedAt(cs, i)) = Len(cs) - 1
           /\ \A k \in 1 .. i - 1 : MergedAt(cs, i)[k] = cs[k]
           /\ MergedAt(cs, i)[i] = MergeChunks(cs[i], cs[i + 1])
           /\ \A k \in i + 1 .. Len(cs) - 1 : MergedAt(cs, i)[k] = cs[k + 1]
           /\ Paragraphs(MergedAt(cs, i)) = Paragraphs(cs)
<1> DEFINE C == ChunkOf(X, n, H)
           u == SubSeq(cs, 1, i - 1)
           m == MergeChunks(cs[i], cs[i + 1])
           v == SubSeq(cs, i + 2, Len(cs))
           r == MergedAt(cs, i)
<1>0. cs \in Seq(C) /\ Len(cs) \in Nat /\ i \in Nat /\ i <= Len(cs) - 1 /\ cs[i] \in C /\ cs[i + 1] \in C
  OBVIOUS
<1>1. m \in C /\ ToSet(m.text) = ToSet(cs[i].text) \cup ToSet(cs[i + 1].text)
  <2> DEFINE a == cs[i]
             b == cs[i + 1]
  <2>1. a \in ChunkOf(X, n, H) /\ b \in ChunkOf(X, n, H)
    BY <1>0
  <2> HIDE DEF a, b
  <2>2. MergeChunks(a, b) \in ChunkOf(X, n, H) /\ MergeKeeps(a, b, MergeChunks(a, b))
    BY <2>1, MergeFacts
  <2> QED BY <2>2 DEF MergeKeeps, a, b
<1>2. r = u \o <<m>> \o v
  BY DEF MergedAt
<1> HIDE DEF C, m, r
<1>3. /\ u \in Seq(C) /\ Len(u) = i - 1 /\ \A k \in 1 .. i - 1 : u[k] = cs[k]
  BY <1>0
<1>4. /\ v \in Seq(C) /\ Len(v) = Len(cs) - i - 1 /\ \A k \in 1 .. Len(v) : v[k] = cs[i + 1 + k] /\ i + 1 + k \in 1 .. Len(cs)
  <2>1. v \in Seq(C)
    BY <1>0
  <2>2. Len(v) = Len(cs) - i - 1
    BY <1>0
  <2>3. ASSUME NEW k \in 1 .. Len(v) PROVE v[k] = cs[i + 1 + k] /\ i + 1 + k \in 1 .. Len(cs)
    BY <1>0, <2>2
  <2> QED BY <2>1, <2>2, <2>3
<1> HIDE DEF u, v
<1>5. /\ r \in Seq(C) /\ Len(r) = Len(u) + 1 + Len(v)
      /\ \A k \in 1 .. Len(u) : r[k] = u[k]
      /\ r[Len(u) + 1] = m
      /\ \A k \in 1 .. Len(v) : r[Len(u) + 1 + k] = v[k]
  <2>1. /\ u \o <<m>> \o v \in Seq(C) /\ Len(u \o <<m>> \o v) = Len(u) + 1 + Len(v)
        /\ \A k \in 1 .. Len(u) : (u \o <<m>> \o v)[k] = u[k]
        /\ (u \o <<m>> \o v)[Len(u) + 1] = m
        /\ \A k \in 1 .. Len(v) : (u \o <<m>> \o v)[Len(u) + 1 + k] = v[k]
    <3>1. u \in Seq(C) /\ v \in Seq(C) /\ m \in C
      BY <1>1, <1>3, <1>4
    <3> QED BY <3>1
  <2> QED BY <1>2, <2>1
<1>6. Len(r) = Len(cs) - 1 /\ \A k \in 1 .. i - 1 : r[k] = cs[k]
  <2>1. Len(u) = i - 1 /\ Len(v) = Len(cs) - i - 1 /\ Len(r) = Len(u) + 1 + Len(v)
    BY <1>3, <1>4, <1>5
  <2>2. Len(r) = Len(cs) - 1
    BY <1>0, <2>1
  <2> QED BY <1>3, <1>5, <2>2
<1>7. r[i] = m /\ i \in 1 .. Len(r)
  <2>1. Len(u) + 1 = i
    BY <1>0, <1>3
  <2> QED BY <1>0, <1>5, <1>6, <2>1
<1>8. ToSet(r) = {r[k] : k \in 1 .. Len(r)} /\ ToSet(cs) = {cs[k] : k \in 1 .. Len(cs)}
  <2>1. DOMAIN r = 1 .. Len(r) /\ DOMAIN cs = 1 .. Len(cs)
    BY <1>0, <1>5
  <2> QED BY <2>1 DEF ToSet
<1>9. ASSUME NEW p \in Paragraphs(r) PROVE p \in Paragraphs(cs)
  <2>1. PICK k \in 1 .. Len(r) : p \in ToSet(r[k].text)
    BY <1>8 DEF Paragraphs
  <2>2. ASSUME NEW j \in 1 .. Len(cs), p \in ToSet(cs[j].text) PROVE p \in Paragraphs(cs)
    BY <1>8, <2>2 DEF Paragraphs
  <2>3. CASE k < i
    <3>1. k \in 1 .. i - 1 /\ k \in 1 .. Len(cs)
      BY <1>0, <2>3
    <3> QED BY <1>6, <2>1, <2>2, <3>1
  <2>4. CASE k = i
    BY <1>0, <1>1, <1>7, <2>1, <2>2, <2>4
  <2>5. CASE k > i
    <3> DEFINE j == k - i
    <3>1. j \in 1 .. Len(v) /\ Len(u) + 1 + j = k
      BY <1>0, <1>3, <1>4, <1>6, <2>5
    <3> HIDE DEF j
    <3>2. r[k] = cs[i + 1 + j] /\ i + 1 + j \in 1 .. Len(cs)
      BY <1>4, <1>5, <3>1
    <3> QED BY <2>1, <2>2, <3>2
  <2> QED BY <1>0, <2>3, <2>4, <2>5
<1>10. ASSUME NEW p \in Paragraphs(cs) PROVE p \in Paragraphs(r)
  <2>1. PICK k \in 1 .. Len(cs) : p \in ToSet(cs[k].text)
    BY <1>8 DEF Paragraphs
  <2>2. ASSUME NEW j \in 1 .. Len(r), p \in ToSet(r[j].text) PROVE p \in Paragraphs(r)
    BY <1>8, <2>2 DEF Paragraphs
  <2>3. CASE k < i
    <3>1. k \in 1 .. i - 1 /\ k \in 1 .. Len(r)
      BY <1>0, <1>6, <2>3
    <3> QED BY <1>6, <2>1, <2>2, <3>1
  <2>4. CASE k = i \/ k = i + 1
    BY <1>0, <1>1, <1>7, <2>1, <2>2, <2>4
  <2>5. CASE k > i + 1
    <3> DEFINE j == k - i - 1
    <3>1. j \in 1 .. Len(v) /\ Len(u) + 1 + j \in 1 .. Len(r) /\ i + 1 + j = k
      BY <1>0, <1>3, <1>4, <1>6, <2>5
    <3> HIDE DEF j
    <3>2. r[Len(u) + 1 + j] = cs[k]
      BY <1>4, <1>5, <3>1
    <3> QED BY <2>1, <2>2, <3>1, <3>2
  <2> QED BY <1>0, <2>3, <2>4, <2>5
<1>11. Paragraphs(r) = Paragraphs(cs)
  BY <1>9, <1>10
<1>12. ASSUME NEW k \in i + 1 .. Len(cs) - 1 PROVE r[k] = cs[k + 1]
  <2> DEFINE j == k - i
  <2>1. j \in 1 .. Len(v) /\ Len(u) + 1 + j = k /\ i + 1 + j = k + 1
    BY <1>0, <1>3, <1>4
  <2> HIDE DEF j
  <2> QED BY <1>4, <1>5, <2>1
<1> QED BY <1>5, <1>6, <1>7, <1>11, <1>12 DEF r, C, m

-----------------------------------------------------------------------------
(* _deduplicate_chunks.                                                    *)

\* What _deduplicate_chunks leaves out whatever else is indexed.
Dropped(c) == Len(Content(c.text)) < MinIndexable \/ HeadingOnly(c)
Different(ds) ==
    \A j, k \in 1 .. Len(ds) : Content(ds[j].text) = Content(ds[k].text) => j = k
Represented(c, ds) == \E k \in 1 .. Len(ds) : Content(ds[k].text) = Content(c.text)

\* _deduplicate_chunks takes a chunk: no content twice, none forgotten.
LEMMA AddChunkStep ==
    ASSUME NEW C, NEW ds \in Seq(C), NEW c \in C, Different(ds)
    PROVE  /\ Different(AddChunk(ds, c)) /\ ToSet(AddChunk(ds, c)) \subseteq ToSet(ds) \cup {c}
           /\ \A e : Represented(e, ds) => Represented(e, AddChunk(ds, c))
           /\ ~Dropped(c) => Represented(c, AddChunk(ds, c))
<1> DEFINE r == AddChunk(ds, c)
<1>1. DOMAIN ds = 1 .. Len(ds) /\ Len(ds) \in Nat
  OBVIOUS
<1>2. r = IF Dropped(c) \/ Represented(c, ds) THEN ds ELSE Append(ds, c)
  BY <1>1 DEF AddChunk, Dropped, Represented
<1> HIDE DEF r
<1>3. CASE Dropped(c) \/ Represented(c, ds)
  BY <1>2, <1>3 DEF r
<1>4. CASE ~(Dropped(c) \/ Represented(c, ds))
  <2>1. /\ r = Append(ds, c) /\ Len(r) = Len(ds) + 1 /\ r[Len(ds) + 1] = c
        /\ \A k \in 1 .. Len(ds) : r[k] = ds[k]
    BY <1>2, <1>4
  <2>2. \A k \in 1 .. Len(r) : k \in 1 .. Len(ds) \/ k = Len(ds) + 1
    BY <1>1, <2>1
  <2>3. (\A k \in 1 .. Len(ds) : k \in 1 .. Len(r)) /\ Len(ds) + 1 \in 1 .. Len(r)
    BY <1>1, <2>1
  <2>4. ToSet(r) = ToSet(ds) \cup {c}
    BY <2>1, ToSetFacts
  <2>5. \A k \in 1 .. Len(ds) : Content(ds[k].text) # Content(c.text)
    BY <1>4 DEF Represented
  <2>6. Different(r)
    <3> SUFFICES ASSUME NEW j \in 1 .. Len(r), NEW k \in 1 .. Len(r), Content(r[j].text) = Content(r[k].text)
                 PROVE  j = k
      BY DEF Different
    <3>1. CASE j \in 1 .. Len(ds) /\ k \in 1 .. Len(ds)
      BY <2>1, <3>1 DEF Different
    <3>2. CASE j = Len(ds) + 1 /\ k \in 1 .. Len(ds)
      BY <2>1, <2>5, <3>2
    <3>3. CASE j \in 1 .. Len(ds) /\ k = Len(ds) + 1
      BY <2>1, <2>5, <3>3
    <3> QED BY <2>2, <3>1, <3>2, <3>3
  <2>7. ASSUME NEW e, Represented(e, ds) PROVE Represented(e, r)
    BY <2>1, <2>3, <2>7 DEF Represented
  <2>8. Represented(c, r)
    BY <2>1, <2>3 DEF Represented
  <2> QED BY <2>4, <2>6, <2>7, <2>8 DEF r
<1> QED BY <1>3, <1>4

\* _deduplicate_chunks: a subset without repetitions that represents every chunk
\* that is long enough and no heading.
LEMMA DeduplicateFacts ==
    ASSUME NEW C, NEW s \in Seq(C)
    PROVE  /\ DeduplicateChunks(s) \in Seq(C) /\ Different(DeduplicateChunks(s))
           /\ ToSet(DeduplicateChunks(s)) \subseteq ToSet(s)
           /\ \A c \in ToSet(s) : ~Dropped(c) => Represented(c, DeduplicateChunks(s))
<1>1. PICK w \in [0 .. Len(s) -> Seq(C)] : IndexingTrace(w, s)
  BY Indexing
<1> DEFINE n == Len(s)
           Fine(k) == /\ Different(w[k]) /\ ToSet(w[k]) \subseteq {s[i] : i \in 1 .. k}
                      /\ \A i \in 1 .. k : ~Dropped(s[i]) => Represented(s[i], w[k])
           S == {k \in 0 .. n : Fine(k)}
<1>2. n \in Nat /\ \A k \in 1 .. n : s[k] \in C
  OBVIOUS
<1>3. 0 \in S
  <2>1. w[0] = <<>>
    BY <1>1 DEF IndexingTrace
  <2>2. 1 .. 0 = {} /\ ToSet(<<>>) = {} /\ Len(<<>>) = 0
    BY DEF ToSet
  <2>3. Different(<<>>)
    BY <2>2 DEF Different
  <2> QED BY <1>2, <2>1, <2>2, <2>3
<1>4. ASSUME NEW k \in 1 .. n, k - 1 \in S PROVE k \in S
  <2>1. k \in 0 .. n /\ k - 1 \in 0 .. n
    BY <1>2
  <2> DEFINE v == w[k - 1]
             t == s[k]
             r == w[k]
  <2>2. r = AddChunk(v, t) /\ v \in Seq(C) /\ t \in C
    BY <1>1, <1>2, <2>1 DEF IndexingTrace
  <2>3. /\ Different(v) /\ ToSet(v) \subseteq {s[i] : i \in 1 .. k - 1}
        /\ \A i \in 1 .. k - 1 : ~Dropped(s[i]) => Represented(s[i], v)
    BY <1>4
  <2> HIDE DEF v, r
  <2>4. /\ Different(r) /\ ToSet(r) \subseteq ToSet(v) \cup {t}
        /\ \A e : Represented(e, v) => Represented(e, r)
        /\ ~Dropped(t) => Represented(t, r)
    <3> HIDE DEF t
    <3> QED BY <2>2, <2>3, AddChunkStep
  <2>5. (\A i \in 1 .. k : i \in 1 .. k - 1 \/ i = k) /\ (\A i \in 1 .. k - 1 : i \in 1 .. k) /\ k \in 1 .. k
    OBVIOUS
  <2>6. ToSet(r) \subseteq {s[i] : i \in 1 .. k}
    BY <2>3, <2>4, <2>5
  <2>7. \A i \in 1 .. k : ~Dropped(s[i]) => Represented(s[i], r)
    BY <2>3, <2>4, <2>5
  <2> QED BY <2>1, <2>4, <2>6, <2>7 DEF r
<1>5. \A k \in 0 .. n : k \in S
  <2> HIDE DEF S
  <2> QED BY <1>2, <1>3, <1>4, Along
<1>6. DeduplicateChunks(s) = w[n] /\ n \in 0 .. n
  BY <1>1, <1>2 DEF IndexingTrace, DeduplicateChunks
<1>7. ToSet(s) = {s[i] : i \in 1 .. n}
  BY DEF ToSet
<1>8. n \in S /\ w[n] \in Seq(C)
  BY <1>1, <1>5, <1>6
<1> QED BY <1>6, <1>7, <1>8

-----------------------------------------------------------------------------
(* parse_pdf.                                                              *)

\* The characters of a page, the headings of a document, and what parse_pdf
\* makes of the blocks of its page n.
Alphabet(d, n) == {Space} \cup ({b.id : b \in RawBlocks(d[n])} \X Nat)
Looking(d) == {b \in UNION {RawBlocks(d[n]) : n \in 1 .. Len(d)} : LooksLikeHeading(b)}
Headings(d) == {<<>>} \cup {CleanText(b) : b \in Looking(d)}
ParsedBlock(b, n, h, o) ==
    [text |-> CleanText(b), sentences |-> SentencesOf(b), page |-> n, section |-> h, ocr |-> o]
PageBlock(d, n) == {ParsedBlock(b, n, h, o) : b \in RawBlocks(d[n]), h \in Headings(d), o \in BOOLEAN}
Shows(e, b) == e.text = CleanText(b) /\ e.sentences = SentencesOf(b)
Carries(raw, blocks) == \A b \in ToSet(raw) : \E e \in ToSet(blocks) : Shows(e, b)

\* A document is a sequence of pages.
LEMMA DocumentFacts ==
    ASSUME NEW d \in Documents
    PROVE  Len(d) \in Nat /\ DOMAIN d = 1 .. Len(d)
<1>1. IsSequence(d)
  BY ChunkAssumption
<1> QED BY <1>1 DEF IsSequence

\* The blocks of a page have sentences.
LEMMA PageFacts ==
    ASSUME NEW d \in Documents, NEW n \in 1 .. Len(d)
    PROVE  /\ d[n].native \in Seq(RawBlocks(d[n])) /\ d[n].ocr \in Seq(RawBlocks(d[n]))
           /\ ToSet(d[n].native) \subseteq RawBlocks(d[n])
           /\ \A b \in RawBlocks(d[n]) : b.sentences \in Seq(Nat \ {0})
<1>1. n \in DOMAIN d
  BY DocumentFacts
<1>2. /\ IsSequence(d[n].native) /\ IsSequence(d[n].ocr)
      /\ \A b \in RawBlocks(d[n]) : b.sentences \in Seq(Nat \ {0})
  BY <1>1, ChunkAssumption
<1>3. ToSet(d[n].native) \subseteq RawBlocks(d[n]) /\ ToSet(d[n].ocr) \subseteq RawBlocks(d[n])
  BY DEF RawBlocks
<1> DEFINE R == RawBlocks(d[n])
           x == d[n].native
           y == d[n].ocr
<1>4. x \in Seq(ToSet(x)) /\ y \in Seq(ToSet(y)) /\ ToSet(x) \subseteq R /\ ToSet(y) \subseteq R
  BY <1>2, <1>3 DEF IsSequence
<1> HIDE DEF R, x, y
<1>5. x \in Seq(R) /\ y \in Seq(R)
  BY <1>4
<1> QED BY <1>2, <1>3, <1>5 DEF R, x, y

\* The text of a block that looks like a heading is a heading of the document.
LEMMA HeadingFacts ==
    ASSUME NEW d \in Documents, NEW n \in 1 .. Len(d), NEW b \in RawBlocks(d[n]), LooksLikeHeading(b)
    PROVE  CleanText(b) \in Headings(d)
<1>1. b \in Looking(d)
  BY DEF Looking
<1> QED BY <1>1 DEF Headings

\* One block more.
LEMMA ParseBlockStep ==
    ASSUME NEW d \in Documents, NEW n \in 1 .. Len(d), NEW o \in BOOLEAN,
           NEW acc \in [heading : Headings(d), blocks : Seq(PageBlock(d, n))], NEW b \in RawBlocks(d[n])
    PROVE  /\ ParseBlock(acc, b, n, o) \in [heading : Headings(d), blocks : Seq(PageBlock(d, n))]
           /\ \E e \in PageBlock(d, n) :
                Shows(e, b) /\ ParseBlock(acc, b, n, o).blocks = Append(acc.blocks, e)
<1> DEFINE h == IF LooksLikeHeading(b) THEN CleanText(b) ELSE acc.heading
           e == ParsedBlock(b, n, h, o)
           r == ParseBlock(acc, b, n, o)
           H == Headings(d)
           B == PageBlock(d, n)
<1>1. h \in H
  BY HeadingFacts
<1>2. e \in B
  <2> HIDE DEF h, H
  <2> QED BY <1>1 DEF PageBlock, H
<1>3. Shows(e, b)
  BY DEF Shows, ParsedBlock
<1>4. r = [heading |-> h, blocks |-> Append(acc.blocks, e)]
  BY Zenon DEF ParseBlock, ParsedBlock
<1> HIDE DEF h, e, r, H, B
<1>5. acc.blocks \in Seq(B)
  BY DEF B
<1>6. Append(acc.blocks, e) \in Seq(B)
  BY <1>2, <1>5
<1>7. r \in [heading : H, blocks : Seq(B)] /\ r.blocks = Append(acc.blocks, e)
  BY <1>1, <1>4, <1>6
<1> QED BY <1>2, <1>3, <1>7 DEF r, H, B

\* parse_pdf on the blocks of a page: every one becomes a parsed block.
ParseOut(raw, h, n, o) ==
    FoldLeft(LAMBDA acc, b : ParseBlock(acc, b, n, o), [heading |-> h, blocks |-> <<>>], raw)

\* parse_pdf on raw blocks: parsed blocks of the page, one for each.
LEMMA ParseFacts ==
    ASSUME NEW d \in Documents, NEW n \in 1 .. Len(d), NEW o \in BOOLEAN,
           NEW h \in Headings(d), NEW raw \in Seq(RawBlocks(d[n]))
    PROVE  /\ ParseOut(raw, h, n, o).heading \in Headings(d)
           /\ ParseOut(raw, h, n, o).blocks \in Seq(PageBlock(d, n))
           /\ Carries(raw, ParseOut(raw, h, n, o).blocks)
<1> DEFINE R == RawBlocks(d[n])
           H == Headings(d)
           B == PageBlock(d, n)
           V == [heading : H, blocks : Seq(B)]
           size == Len(raw)
<1>1. \A acc \in [heading : H, blocks : Seq(B)] : \A b \in R :
          ParseBlock(acc, b, n, o) \in [heading : H, blocks : Seq(B)]
  BY ParseBlockStep
<1>2. ASSUME NEW acc \in V, NEW b \in R
      PROVE  \E e \in B : Shows(e, b) /\ ParseBlock(acc, b, n, o).blocks = Append(acc.blocks, e)
  BY <1>2, ParseBlockStep
<1> HIDE DEF R, H, B
<1>3. PICK w \in [0 .. Len(raw) -> [heading : H, blocks : Seq(B)]] : ParsingTrace(w, raw, h, n, o)
  <2>1. h \in H /\ raw \in Seq(R)
    BY DEF H, R
  <2> QED BY <1>1, <2>1, Parsing
<1>4. ParseOut(raw, h, n, o) = w[size] /\ w[0] = [heading |-> h, blocks |-> <<>>]
  BY <1>3, Zenon DEF ParsingTrace, ParseOut
<1>5. \A k \in 1 .. size : w[k] = ParseBlock(w[k - 1], raw[k], n, o)
  BY <1>3, Zenon DEF ParsingTrace
<1>6. size \in Nat /\ DOMAIN raw = 1 .. size /\ \A k \in 1 .. size : raw[k] \in R
  BY DEF R
<1> DEFINE S == {k \in 0 .. size : \A i \in 1 .. k : \E e \in ToSet(w[k].blocks) : Shows(e, raw[i])}
<1>7. 0 \in S
  BY <1>6
<1>8. ASSUME NEW k \in 1 .. size, k - 1 \in S PROVE k \in S
  <2> DEFINE v == w[k - 1]
             b == raw[k]
  <2>1. k \in 0 .. size /\ k - 1 \in 0 .. size
    BY <1>6
  <2>2. v \in V /\ b \in R /\ w[k] = ParseBlock(v, b, n, o)
    BY <1>5, <1>6, <2>1
  <2>3. \A i \in 1 .. k - 1 : \E e \in ToSet(v.blocks) : Shows(e, raw[i])
    BY <1>8
  <2> HIDE DEF v
  <2>4. PICK e \in B : Shows(e, b) /\ ParseBlock(v, b, n, o).blocks = Append(v.blocks, e)
    BY <1>2, <2>2
  <2>5. v.blocks \in Seq(B)
    BY <2>2
  <2>6. ToSet(Append(v.blocks, e)) = ToSet(v.blocks) \cup {e}
    BY <2>4, <2>5, ToSetFacts
  <2>7. ToSet(w[k].blocks) = ToSet(v.blocks) \cup {e}
    BY <2>2, <2>4, <2>6
  <2>8. ASSUME NEW i \in 1 .. k PROVE \E f \in ToSet(w[k].blocks) : Shows(f, raw[i])
    <3>1. CASE i = k
      BY <2>4, <2>7, <3>1
    <3>2. CASE i # k
      <4>1. i \in 1 .. k - 1
        BY <3>2
      <4> QED BY <2>3, <2>7, <4>1
    <3> QED BY <3>1, <3>2
  <2> QED BY <2>1, <2>8
<1>9. \A k \in 0 .. size : k \in S
  <2> HIDE DEF S
  <2> QED BY <1>6, <1>7, <1>8, Along
<1>10. size \in 0 .. size
  BY <1>6
<1>11. w[size].heading \in H /\ w[size].blocks \in Seq(B)
  <2> DEFINE z == w[size]
  <2>1. z \in V
    BY <1>10
  <2> HIDE DEF z
  <2> QED BY <2>1 DEF z
<1>12. Carries(raw, w[size].blocks)
  <2>1. \A i \in 1 .. size : \E e \in ToSet(w[size].blocks) : Shows(e, raw[i])
    BY <1>9, <1>10
  <2>2. ToSet(raw) = {raw[i] : i \in 1 .. size}
    BY <1>6 DEF ToSet
  <2> QED BY <2>1, <2>2 DEF Carries
<1> QED BY <1>4, <1>11, <1>12 DEF H, B

\* The blocks of a page can be chunked, with the characters of the page.
LEMMA BlockIsSound ==
    ASSUME NEW d \in Documents, NEW n \in 1 .. Len(d), NEW e \in PageBlock(d, n)
    PROVE  Sound(e, Alphabet(d, n), n, Headings(d))
<1>1. PICK b \in RawBlocks(d[n]), h \in Headings(d), o \in BOOLEAN : e = ParsedBlock(b, n, h, o)
  BY DEF PageBlock
<1>2. b.sentences \in Seq(Nat \ {0})
  BY PageFacts
<1> DEFINE s == SplitLongText(CleanText(b), SentencesOf(b))
           X == Letters(b)
           Y == Alphabet(d, n)
<1>3. s \in Seq(TextOver(X)) /\ Short(ToSet(s))
  BY <1>2, SplitFacts, SplitShort
<1>4. X \subseteq Y
  BY DEF Letters, Alphabet
<1>5. TextOver(X) \subseteq TextOver(Y)
  <2> HIDE DEF X, Y
  <2>1. Seq(X) \subseteq Seq(Y)
    BY <1>4
  <2> QED BY <2>1 DEF TextOver
<1>6. e.text = CleanText(b) /\ e.sentences = SentencesOf(b) /\ e.page = n /\ e.section = h /\ e.ocr = o
  BY <1>1 DEF ParsedBlock
<1>7. SplitLongText(e.text, e.sentences) = s
  BY <1>6
<1> HIDE DEF s, X, Y
<1>8. s \in Seq(TextOver(Y))
  BY <1>3, <1>5
<1> QED BY <1>3, <1>6, <1>7, <1>8 DEF Sound, Y

-----------------------------------------------------------------------------
(* The loop of _merge_tiny_page_chunks.                                    *)

\* The chunks and the parsed blocks of a document.
PageChunk(d, n) == ChunkOf(Alphabet(d, n), n, Headings(d))
AnyChunk(d) == UNION {PageChunk(d, n) : n \in 1 .. Len(d)}
AnyPage(d) == UNION {Seq(PageBlock(d, n)) : n \in 1 .. Len(d)}
ParsedPage(d, n, s) ==
    s \in Seq(PageBlock(d, n)) /\ (~WantsOcr(d[n]) => Carries(d[n].native, s))

\* The blocks that must not be lost: their pieces are among the paragraphs of the
\* chunks, their characters in chunks that are indexed.
Good(d, n) ==
    {b \in ToSet(d[n].native) :
        Len(CleanText(b)) >= MinIndexable /\ ~LooksLikeHeading(b) /\ ~WantsOcr(d[n])}
Covered(d, n, cs) ==
    \A b \in Good(d, n) : ToSet(SplitLongText(CleanText(b), SentencesOf(b))) \subseteq Paragraphs(cs)
Saved(d, n, cs) ==
    \A b \in Good(d, n) : \A x \in Solid(CleanText(b)) :
        \E c \in ToSet(cs) : ~Dropped(c) /\ x \in All(c.text)

\* The loop of _merge_tiny_page_chunks at index i: what is before it is large
\* enough, and how long the chunks are.
Small == IF MinMerged < ChunkSize THEN MinMerged ELSE ChunkSize
Large(c) == Len(Content(c.text)) >= Small /\ ~HeadingOnly(c)
LargeBefore(cs, i) == \A k \in 1 .. Len(cs) : k < i => Large(cs[k])
TwoBound == ChunkSize + 1 + PieceBound
FullBound == ChunkSize + 1 + TwoBound
LimitAt(k, i, n) == IF k > i THEN PieceBound ELSE IF k < n THEN TwoBound ELSE FullBound
WithinLimits(cs, i) == \A k \in 1 .. Len(cs) : Len(Content(cs[k].text)) <= LimitAt(k, i, Len(cs))

\* The bounds on the lengths, in order.
LEMMA Bounds ==
    /\ PieceBound \in Nat /\ TwoBound \in Nat /\ FullBound \in Nat /\ ChunkSize \in Nat /\ Small \in Nat
    /\ PieceBound <= TwoBound /\ TwoBound <= FullBound /\ Small <= ChunkSize
    /\ MinIndexable \in Nat /\ (MinIndexable <= ChunkSize => MinIndexable <= Small)
    /\ FullBound = ChunkSize + Overlap + 1 + 2 * (ChunkSize + 1)
    /\ TwoBound = ChunkSize + 1 + PieceBound /\ FullBound = ChunkSize + 1 + TwoBound
<1>1. ChunkSize \in Nat /\ Overlap \in Nat /\ MinMerged \in Nat /\ MinIndexable \in Nat /\ MinIndexable <= MinMerged
  BY ChunkAssumption
<1> QED BY <1>1 DEF PieceBound, TwoBound, FullBound, Small

\* A chunk of a page and its content.
LEMMA PageChunkFacts ==
    ASSUME NEW d \in Documents, NEW n \in 1 .. Len(d), NEW c \in PageChunk(d, n)
    PROVE  /\ c.text \in Seq(TextOver(Alphabet(d, n))) /\ c.text # <<>> /\ c.page = n /\ c.section \in Headings(d)
           /\ Content(c.text) \in TextOver(Alphabet(d, n)) /\ Len(Content(c.text)) \in Nat
           /\ Solid(Content(c.text)) = All(c.text)
           /\ LongEnough(Content(c.text), c.text, Len(c.text))
<1>1. c.text \in Seq(TextOver(Alphabet(d, n))) /\ c.text # <<>> /\ c.page = n /\ c.section \in Headings(d)
  BY DEF PageChunk, ChunkOf
<1>2. Space \in Alphabet(d, n)
  BY DEF Alphabet
<1> QED BY <1>1, <1>2, ContentIs

\* chunk_document starts a page.
LEMMA PageStart ==
    ASSUME NEW d \in Documents, NEW n \in 1 .. Len(d), NEW s, ParsedPage(d, n, s)
    PROVE  /\ PageChunks(s) \in Seq(PageChunk(d, n)) /\ Covered(d, n, PageChunks(s))
           /\ LargeBefore(PageChunks(s), 1) /\ WithinLimits(PageChunks(s), 1)
<1> DEFINE X == Alphabet(d, n)
           H == Headings(d)
           B == PageBlock(d, n)
           cs == PageChunks(s)
<1>1. s \in Seq(B) /\ (~WantsOcr(d[n]) => Carries(d[n].native, s))
  BY DEF ParsedPage
<1>2. \A b \in B : Sound(b, X, n, H)
  BY BlockIsSound
<1>3. Space \in X
  BY DEF Alphabet
<1> HIDE DEF X, H, B, cs
<1>4. /\ cs \in Seq(ChunkOf(X, n, H)) /\ Paragraphs(cs) = UNION {Pieces(b) : b \in ToSet(s)}
      /\ ShortChunks(cs)
  BY <1>1, <1>2, <1>3, PageChunksFacts DEF cs
<1>5. ChunkOf(X, n, H) = PageChunk(d, n)
  BY DEF PageChunk, X, H
<1>6. Covered(d, n, cs)
  <2>1. ASSUME NEW b \in Good(d, n)
        PROVE  ToSet(SplitLongText(CleanText(b), SentencesOf(b))) \subseteq Paragraphs(cs)
    <3>1. b \in ToSet(d[n].native) /\ ~WantsOcr(d[n])
      BY DEF Good
    <3>2. PICK e \in ToSet(s) : Shows(e, b)
      BY <1>1, <3>1 DEF Carries
    <3>3. Pieces(e) = ToSet(SplitLongText(CleanText(b), SentencesOf(b)))
      BY <3>2 DEF Pieces, Shows
    <3> QED BY <1>4, <3>2, <3>3
  <2> QED BY <2>1 DEF Covered
<1>7. Len(cs) \in Nat /\ DOMAIN cs = 1 .. Len(cs)
  BY <1>4
<1>8. LargeBefore(cs, 1)
  BY <1>7 DEF LargeBefore
<1>9. WithinLimits(cs, 1)
  <2>1. ASSUME NEW k \in 1 .. Len(cs) PROVE Len(Content(cs[k].text)) <= LimitAt(k, 1, Len(cs))
    <3> DEFINE c == cs[k]
               l == Len(Content(c.text))
    <3>1. c \in PageChunk(d, n) /\ c \in ToSet(cs)
      <4>1. c \in ToSet(cs)
        BY <1>7 DEF ToSet
      <4>2. c \in ChunkOf(X, n, H)
        BY <1>4
      <4> QED BY <1>5, <4>1, <4>2
    <3> HIDE DEF c
    <3>2. l \in Nat
      BY <3>1, PageChunkFacts
    <3>3. l <= PieceBound
      BY <1>4, <3>1 DEF ShortChunks
    <3> HIDE DEF l
    <3>4. l <= PieceBound /\ l <= TwoBound /\ l <= FullBound
      BY <3>2, <3>3, Bounds
    <3>5. l <= LimitAt(k, 1, Len(cs))
      BY <3>4 DEF LimitAt
    <3> QED BY <3>5 DEF l, c
  <2> QED BY <2>1 DEF WithinLimits
<1> QED BY <1>4, <1>5, <1>6, <1>8, <1>9 DEF cs

\* The next index.
LEMMA Advance ==
    ASSUME NEW d \in Documents, NEW n \in 1 .. Len(d), NEW cs \in Seq(PageChunk(d, n)),
           NEW i \in 1 .. Len(cs), LargeBefore(cs, i), WithinLimits(cs, i), Large(cs[i])
    PROVE  LargeBefore(cs, i + 1) /\ WithinLimits(cs, i + 1)
<1>1. LargeBefore(cs, i + 1)
  <2>1. ASSUME NEW k \in 1 .. Len(cs), k < i + 1 PROVE Large(cs[k])
    <3>1. k < i \/ k = i
      BY <2>1
    <3> QED BY <3>1 DEF LargeBefore
  <2> QED BY <2>1 DEF LargeBefore
<1>2. ASSUME NEW k \in 1 .. Len(cs) PROVE Len(Content(cs[k].text)) <= LimitAt(k, i + 1, Len(cs))
  <2> DEFINE c == cs[k]
             l == Len(Content(c.text))
  <2>1. c \in PageChunk(d, n)
    OBVIOUS
  <2>2. l <= LimitAt(k, i, Len(cs))
    BY DEF WithinLimits
  <2> HIDE DEF c
  <2>3. l \in Nat
    BY <2>1, PageChunkFacts
  <2> HIDE DEF l
  <2>4. l <= LimitAt(k, i + 1, Len(cs))
    BY <2>2, <2>3, Bounds DEF LimitAt
  <2> QED BY <2>4 DEF l, c
<1> QED BY <1>1, <1>2 DEF WithinLimits

\* Two neighbours of which one is no longer than ChunkSize.
MergeFits(cs, r, i) ==
    /\ Len(r) = Len(cs) - 1 /\ \A k \in 1 .. i - 1 : r[k] = cs[k]
    /\ \A k \in i + 1 .. Len(cs) - 1 : r[k] = cs[k + 1]
    /\ Len(Content(r[i].text)) <= Len(Content(cs[i].text)) + 1 + Len(Content(cs[i + 1].text))

\* Merging at i: a chunk less, the same paragraphs, and the length of the new one.
LEMMA MergeIs ==
    ASSUME NEW d \in Documents, NEW n \in 1 .. Len(d), NEW cs \in Seq(PageChunk(d, n)),
           NEW i \in 1 .. Len(cs), i + 1 \in 1 .. Len(cs)
    PROVE  /\ MergedAt(cs, i) \in Seq(PageChunk(d, n)) /\ Paragraphs(MergedAt(cs, i)) = Paragraphs(cs)
           /\ MergeFits(cs, MergedAt(cs, i), i)
<1> DEFINE X == Alphabet(d, n)
           H == Headings(d)
           r == MergedAt(cs, i)
           a == cs[i]
           b == cs[i + 1]
<1>1. Space \in X
  BY DEF Alphabet
<1>2. PageChunk(d, n) = ChunkOf(X, n, H)
  BY DEF PageChunk
<1> HIDE DEF X, H, r
<1>3. /\ r \in Seq(ChunkOf(X, n, H)) /\ Len(r) = Len(cs) - 1
      /\ \A k \in 1 .. i - 1 : r[k] = cs[k]
      /\ r[i] = MergeChunks(a, b)
      /\ \A k \in i + 1 .. Len(cs) - 1 : r[k] = cs[k + 1]
      /\ Paragraphs(r) = Paragraphs(cs)
  BY <1>1, <1>2, MergedAtFacts DEF r
<1>4. a \in ChunkOf(X, n, H) /\ b \in ChunkOf(X, n, H)
  BY <1>2
<1> HIDE DEF a, b
<1>5. Len(Content(MergeChunks(a, b).text)) <= Len(Content(a.text)) + 1 + Len(Content(b.text))
  <2>1. MergeKeeps(a, b, MergeChunks(a, b))
    BY <1>1, <1>4, MergeFacts
  <2> QED BY <2>1 DEF MergeKeeps
<1>6. Len(Content(r[i].text)) <= Len(Content(a.text)) + 1 + Len(Content(b.text))
  BY <1>3, <1>5
<1> QED BY <1>2, <1>3, <1>6 DEF MergeFits, r, a, b

\* A small chunk takes the next one: the bounds hold.
LEMMA MergeForward ==
    ASSUME NEW d \in Documents, NEW n \in 1 .. Len(d), NEW cs \in Seq(PageChunk(d, n)),
           NEW r \in Seq(PageChunk(d, n)),
           NEW i \in 1 .. Len(cs), i + 1 \in 1 .. Len(cs), MergeFits(cs, r, i),
           LargeBefore(cs, i), WithinLimits(cs, i), Len(Content(cs[i].text)) <= ChunkSize
    PROVE  LargeBefore(r, i) /\ WithinLimits(r, i) /\ i <= Len(r)
<1> DEFINE L == Len(cs)
<1>1. L \in Nat /\ i \in Nat /\ i < L /\ Len(r) = L - 1
  BY DEF MergeFits
<1>2. LargeBefore(r, i)
  <2>1. ASSUME NEW k \in 1 .. Len(r), k < i PROVE Large(r[k])
    <3>1. k \in 1 .. L /\ k \in 1 .. i - 1
      BY <1>1, <2>1
    <3>2. r[k] = cs[k]
      BY <3>1 DEF MergeFits
    <3> QED BY <2>1, <3>1, <3>2 DEF LargeBefore
  <2> QED BY <2>1 DEF LargeBefore
<1>3. ASSUME NEW k \in 1 .. Len(r) PROVE Len(Content(r[k].text)) <= LimitAt(k, i, Len(r))
  <2>1. k \in Nat /\ k <= L - 1
    BY <1>1
  <2>2. CASE k < i
    <3>1. k \in 1 .. L /\ k \in 1 .. i - 1
      BY <1>1, <2>1, <2>2
    <3>2. r[k] = cs[k]
      BY <3>1 DEF MergeFits
    <3>3. Len(Content(cs[k].text)) <= TwoBound
      <4>1. Len(Content(cs[k].text)) <= LimitAt(k, i, L)
        BY <3>1 DEF WithinLimits
      <4>2. LimitAt(k, i, L) = TwoBound
        BY <1>1, <2>1, <2>2 DEF LimitAt
      <4> QED BY <4>1, <4>2
    <3>4. LimitAt(k, i, Len(r)) = TwoBound
      BY <1>1, <2>1, <2>2 DEF LimitAt
    <3> QED BY <3>2, <3>3, <3>4
  <2>3. CASE k = i
    <3> DEFINE la == Len(Content(cs[i].text))
               lb == Len(Content(cs[i + 1].text))
               l == Len(Content(r[k].text))
    <3>1. l <= la + 1 + lb /\ la <= ChunkSize
      BY <2>3 DEF MergeFits
    <3>2. lb <= PieceBound
      <4>1. lb <= LimitAt(i + 1, i, L)
        BY DEF WithinLimits
      <4>2. LimitAt(i + 1, i, L) = PieceBound
        BY <1>1 DEF LimitAt
      <4> QED BY <4>1, <4>2
    <3>3. la \in Nat /\ lb \in Nat /\ l \in Nat
      <4>1. cs[i] \in PageChunk(d, n) /\ cs[i + 1] \in PageChunk(d, n) /\ r[k] \in PageChunk(d, n)
        OBVIOUS
      <4> QED BY <4>1, PageChunkFacts
    <3> HIDE DEF la, lb, l
    <3>4. l <= TwoBound /\ l <= FullBound
      BY <3>1, <3>2, <3>3, Bounds
    <3>5. LimitAt(k, i, Len(r)) = TwoBound \/ LimitAt(k, i, Len(r)) = FullBound
      BY <1>1, <2>1, <2>3 DEF LimitAt
    <3>6. l <= LimitAt(k, i, Len(r))
      BY <3>4, <3>5
    <3> QED BY <3>6 DEF l
  <2>4. CASE k > i
    <3>1. k \in i + 1 .. L - 1 /\ k + 1 \in 1 .. L /\ k + 1 > i
      BY <1>1, <2>1, <2>4
    <3>2. r[k] = cs[k + 1]
      BY <3>1 DEF MergeFits
    <3>3. Len(Content(cs[k + 1].text)) <= LimitAt(k + 1, i, L)
      BY <3>1 DEF WithinLimits
    <3>4. LimitAt(k + 1, i, L) = PieceBound /\ LimitAt(k, i, Len(r)) = PieceBound
      BY <2>4, <3>1 DEF LimitAt
    <3> QED BY <3>2, <3>3, <3>4
  <2> QED BY <1>1, <2>1, <2>2, <2>3, <2>4
<1> QED BY <1>1, <1>2, <1>3 DEF WithinLimits

\* The last small chunk joins the one before it: the bounds hold.
LEMMA MergeBack ==
    ASSUME NEW d \in Documents, NEW n \in 1 .. Len(d), NEW cs \in Seq(PageChunk(d, n)),
           NEW r \in Seq(PageChunk(d, n)),
           NEW i \in 1 .. Len(cs), i + 1 = Len(cs), MergeFits(cs, r, i),
           LargeBefore(cs, i + 1), WithinLimits(cs, i + 1), Len(Content(cs[i + 1].text)) <= ChunkSize
    PROVE  LargeBefore(r, i) /\ WithinLimits(r, i) /\ i <= Len(r)
<1> DEFINE L == Len(cs)
<1>1. L \in Nat /\ i \in Nat /\ L = i + 1 /\ Len(r) = i /\ i + 1 \in 1 .. L
  BY DEF MergeFits
<1>2. LargeBefore(r, i)
  <2>1. ASSUME NEW k \in 1 .. Len(r), k < i PROVE Large(r[k])
    <3>1. k \in 1 .. L /\ k \in 1 .. i - 1 /\ k < i + 1
      BY <1>1, <2>1
    <3>2. r[k] = cs[k]
      BY <3>1 DEF MergeFits
    <3> QED BY <3>1, <3>2 DEF LargeBefore
  <2> QED BY <2>1 DEF LargeBefore
<1>3. ASSUME NEW k \in 1 .. Len(r) PROVE Len(Content(r[k].text)) <= LimitAt(k, i, Len(r))
  <2>1. k \in Nat /\ k <= i
    BY <1>1
  <2>2. CASE k < i
    <3>1. k \in 1 .. L /\ k \in 1 .. i - 1
      BY <1>1, <2>1, <2>2
    <3>2. r[k] = cs[k]
      BY <3>1 DEF MergeFits
    <3>3. Len(Content(cs[k].text)) <= LimitAt(k, i + 1, L)
      BY <3>1 DEF WithinLimits
    <3>4. LimitAt(k, i, Len(r)) = TwoBound /\ LimitAt(k, i + 1, L) = TwoBound
      BY <1>1, <2>1, <2>2 DEF LimitAt
    <3> QED BY <3>2, <3>3, <3>4
  <2>3. CASE k = i
    <3> DEFINE la == Len(Content(cs[i].text))
               lb == Len(Content(cs[i + 1].text))
               l == Len(Content(r[k].text))
    <3>1. l <= la + 1 + lb /\ lb <= ChunkSize
      BY <2>3 DEF MergeFits
    <3>2. la <= TwoBound
      <4>1. la <= LimitAt(i, i + 1, L)
        BY DEF WithinLimits
      <4>2. LimitAt(i, i + 1, L) = TwoBound
        BY <1>1 DEF LimitAt
      <4> QED BY <4>1, <4>2
    <3>3. la \in Nat /\ lb \in Nat /\ l \in Nat
      <4>1. cs[i] \in PageChunk(d, n) /\ cs[i + 1] \in PageChunk(d, n) /\ r[k] \in PageChunk(d, n)
        BY <1>1
      <4> QED BY <4>1, PageChunkFacts
    <3> HIDE DEF la, lb, l
    <3>4. l <= FullBound
      BY <3>1, <3>2, <3>3, Bounds
    <3>5. LimitAt(k, i, Len(r)) = FullBound
      BY <1>1, <2>1, <2>3 DEF LimitAt
    <3> QED BY <3>4, <3>5 DEF l
  <2> QED BY <1>1, <2>1, <2>2, <2>3
<1> QED BY <1>1, <1>2, <1>3 DEF WithinLimits

\* A character of a block carries the block's text.
LEMMA CharacterOf ==
    ASSUME NEW b, b.sentences \in Seq(Nat \ {0}), NEW x \in Solid(CleanText(b))
    PROVE  x # Space /\ x[1] = b.id
<1>1. b.sentences \in Seq(Nat)
  OBVIOUS
<1>2. CleanText(b) \in TextOver(Letters(b))
  BY <1>1, CleanTextFacts
<1> DEFINE s == CleanText(b)
           X == Letters(b)
<1>3. s \in Seq(X)
  BY <1>2 DEF TextOver
<1> HIDE DEF s, X
<1>4. x \in X /\ x # Space
  BY <1>3 DEF Solid, s
<1> QED BY <1>4 DEF X, Letters

\* A heading and a block that is none have no character in common.
LEMMA HeadingApart ==
    ASSUME NEW d \in Documents, NEW n \in 1 .. Len(d), NEW b \in RawBlocks(d[n]), ~LooksLikeHeading(b),
           NEW h \in Headings(d), NEW x \in Solid(CleanText(b)), x \in Solid(h)
    PROVE  FALSE
<1>1. b.sentences \in Seq(Nat \ {0})
  BY PageFacts
<1>2. x # Space /\ x[1] = b.id
  BY <1>1, CharacterOf
<1>3. CASE h = <<>>
  BY <1>3 DEF Solid
<1>4. CASE h # <<>>
  <2>1. PICK g \in Looking(d) : h = CleanText(g)
    BY <1>4 DEF Headings
  <2>2. PICK m \in 1 .. Len(d) : g \in RawBlocks(d[m])
    BY DEF Looking
  <2>3. g.sentences \in Seq(Nat \ {0})
    BY <2>2, PageFacts
  <2>4. x[1] = g.id
    BY <2>1, <2>3, CharacterOf
  <2>5. n \in DOMAIN d /\ m \in DOMAIN d
    BY DocumentFacts
  <2>6. b.id = g.id => b.look = g.look /\ b.prose = g.prose
    BY <2>2, <2>5, ChunkAssumption
  <2>7. LooksLikeHeading(g)
    BY DEF Looking
  <2> QED BY <1>2, <2>4, <2>6, <2>7 DEF LooksLikeHeading
<1> QED BY <1>3, <1>4

\* What is merged with a neighbour is no longer than ChunkSize.
LEMMA SmallOnes ==
    ASSUME SensibleSizes, NEW d \in Documents, NEW n \in 1 .. Len(d), NEW c \in PageChunk(d, n), ~Large(c)
    PROVE  Len(Content(c.text)) <= ChunkSize
<1> DEFINE l == Len(Content(c.text))
<1>1. l \in Nat /\ c.section \in Headings(d)
  BY PageChunkFacts
<1>2. CASE HeadingOnly(c)
  <2>1. Content(c.text) = c.section
    BY <1>2 DEF HeadingOnly
  <2>2. CASE c.section = <<>>
    <3>1. l = 0
      BY <2>1, <2>2
    <3> QED BY <3>1, Bounds
  <2>3. CASE c.section # <<>>
    <3>1. PICK g \in Looking(d) : c.section = CleanText(g)
      BY <1>1, <2>3 DEF Headings
    <3>2. PICK m \in 1 .. Len(d) : g \in RawBlocks(d[m])
      BY DEF Looking
    <3>3. LooksLikeHeading(g) /\ m \in DOMAIN d
      BY DocumentFacts DEF Looking
    <3>4. Len(CleanText(g)) <= ChunkSize
      BY <3>2, <3>3 DEF SensibleSizes
    <3> QED BY <2>1, <3>1, <3>4
  <2> QED BY <2>2, <2>3
<1>3. CASE ~HeadingOnly(c)
  <2>1. ~(l >= Small)
    BY <1>3 DEF Large
  <2> HIDE DEF l
  <2>2. l <= ChunkSize
    BY <1>1, <2>1, Bounds
  <2> QED BY <2>2 DEF l
<1> QED BY <1>2, <1>3

\* The only chunk of a page with such a block is long enough.
LEMMA OnlyChunk ==
    ASSUME NEW d \in Documents, NEW n \in 1 .. Len(d), NEW c \in PageChunk(d, n),
           NEW P, P \subseteq ToSet(c.text), Fills(P)
    PROVE  Len(Content(c.text)) >= MinIndexable
<1> DEFINE s == c.text
           j == Content(s)
           X == TextOver(Alphabet(d, n))
<1>1. s \in Seq(X) /\ Len(j) \in Nat /\ LongEnough(j, s, Len(s))
  BY PageChunkFacts
<1>2. \A p \in X : Len(p) \in Nat
  BY TextIs
<1> HIDE DEF s, j, X
<1>3. Len(s) \in Nat /\ ToSet(s) = {s[k] : k \in 1 .. Len(s)} /\ \A k \in 1 .. Len(s) : s[k] \in X
  BY <1>1 DEF ToSet
<1>4. ASSUME NEW p \in P PROVE \E k \in 1 .. Len(s) : p = s[k]
  BY <1>3 DEF s
<1>5. MinIndexable \in Nat
  BY Bounds
<1>6. CASE \E p \in P : Len(p) >= MinIndexable
  <2>1. PICK p \in P : Len(p) >= MinIndexable
    BY <1>6
  <2>2. PICK k \in 1 .. Len(s) : p = s[k]
    BY <1>4
  <2>3. Len(j) >= Len(p) /\ Len(p) \in Nat
    BY <1>1, <1>2, <1>3, <2>2 DEF LongEnough
  <2>4. Len(j) >= MinIndexable
    BY <1>1, <1>5, <2>1, <2>3
  <2> QED BY <2>4 DEF j, s
<1>7. CASE \E p, q \in P : p # q /\ p # <<>> /\ q # <<>> /\ Len(p) + 1 + Len(q) >= MinIndexable
  <2>1. PICK p \in P, q \in P : p # q /\ p # <<>> /\ q # <<>> /\ Len(p) + 1 + Len(q) >= MinIndexable
    BY <1>7
  <2>2. PICK k \in 1 .. Len(s) : p = s[k]
    BY <1>4
  <2>3. PICK m \in 1 .. Len(s) : q = s[m]
    BY <1>4
  <2>4. k < m \/ m < k
    BY <2>1, <2>2, <2>3
  <2>5. Len(j) >= Len(p) + 1 + Len(q) \/ Len(j) >= Len(q) + 1 + Len(p)
    BY <1>1, <2>1, <2>2, <2>3, <2>4 DEF LongEnough
  <2>6. Len(p) \in Nat /\ Len(q) \in Nat
    BY <1>2, <1>3, <2>2, <2>3
  <2>7. Len(j) >= MinIndexable
    BY <1>1, <1>5, <2>1, <2>5, <2>6
  <2> QED BY <2>7 DEF j, s
<1> QED BY <1>6, <1>7 DEF Fills

\* When the loop is over no block of the page is lost.
LEMMA PageSaved ==
    ASSUME SensibleSizes, NEW d \in Documents, NEW n \in 1 .. Len(d), NEW cs \in Seq(PageChunk(d, n)),
           Covered(d, n, cs), NEW i \in Nat, LargeBefore(cs, i), Len(cs) > 1 => i > Len(cs)
    PROVE  Saved(d, n, cs)
<1> SUFFICES ASSUME NEW b \in Good(d, n), NEW x \in Solid(CleanText(b))
             PROVE  \E c \in ToSet(cs) : ~Dropped(c) /\ x \in All(c.text)
  BY DEF Saved
<1> DEFINE s == SplitLongText(CleanText(b), SentencesOf(b))
<1>1. /\ b \in RawBlocks(d[n]) /\ b.sentences \in Seq(Nat \ {0})
      /\ Len(CleanText(b)) >= MinIndexable /\ ~LooksLikeHeading(b)
  BY PageFacts DEF Good
<1>2. MinIndexable <= ChunkSize
  BY DEF SensibleSizes
<1>3. All(s) = Solid(CleanText(b)) /\ Fills(ToSet(s))
  BY <1>1, <1>2, SplitFacts
<1>4. ToSet(s) \subseteq Paragraphs(cs)
  BY DEF Covered
<1> HIDE DEF s
<1>5. PICK t \in ToSet(s) : x \in Solid(t)
  BY <1>3 DEF All
<1>6. PICK c \in ToSet(cs) : t \in ToSet(c.text)
  BY <1>4, <1>5 DEF Paragraphs
<1>7. x \in All(c.text)
  BY <1>5, <1>6 DEF All
<1>8. Len(cs) \in Nat /\ DOMAIN cs = 1 .. Len(cs)
  OBVIOUS
<1>9. PICK k \in 1 .. Len(cs) : c = cs[k]
  BY <1>6, <1>8 DEF ToSet
<1>10. c \in PageChunk(d, n)
  BY <1>9
<1>11. Len(Content(c.text)) \in Nat /\ Solid(Content(c.text)) = All(c.text) /\ c.section \in Headings(d)
  BY <1>10, PageChunkFacts
<1>12. ~HeadingOnly(c)
  <2> SUFFICES ASSUME HeadingOnly(c) PROVE FALSE
    OBVIOUS
  <2>1. x \in Solid(c.section)
    BY <1>7, <1>11 DEF HeadingOnly
  <2> QED BY <1>1, <1>11, <2>1, HeadingApart
<1>13. Len(Content(c.text)) >= MinIndexable
  <2>1. CASE Len(cs) > 1
    <3>1. k < i
      BY <1>8, <2>1
    <3>2. Large(c)
      BY <1>9, <3>1 DEF LargeBefore
    <3> DEFINE l == Len(Content(c.text))
    <3>3. l >= Small /\ l \in Nat
      BY <1>11, <3>2 DEF Large
    <3> HIDE DEF l
    <3>4. l >= MinIndexable
      BY <1>2, <3>3, Bounds
    <3> QED BY <3>4 DEF l
  <2>2. CASE ~(Len(cs) > 1)
    <3>1. \A e \in ToSet(cs) : e = c
      <4>1. Len(cs) = 1
        BY <1>8, <1>9, <2>2
      <4>2. \A m \in 1 .. Len(cs) : m = 1
        BY <4>1
      <4> QED BY <1>8, <1>9, <4>2 DEF ToSet
    <3>2. ToSet(s) \subseteq ToSet(c.text)
      BY <1>4, <3>1 DEF Paragraphs
    <3> QED BY <1>3, <1>10, <3>2, OnlyChunk
  <2> QED BY <2>1, <2>2
<1>14. ~Dropped(c)
  <2> DEFINE l == Len(Content(c.text))
  <2> HIDE DEF l
  <2>1. l >= MinIndexable /\ l \in Nat
    BY <1>11, <1>13 DEF l
  <2>2. ~(l < MinIndexable)
    BY <2>1, Bounds
  <2> QED BY <1>12, <2>2 DEF Dropped, l
<1> QED BY <1>6, <1>7, <1>14

\* A chunk of the document is one of the page it names.
LEMMA AnyChunkFacts ==
    ASSUME NEW d \in Documents, NEW c \in AnyChunk(d)
    PROVE  /\ c.page \in 1 .. Len(d) /\ c \in PageChunk(d, c.page)
           /\ c.text \in Seq(TextOver(Alphabet(d, c.page))) /\ c.text # <<>>
           /\ Solid(Content(c.text)) = All(c.text)
<1>1. PICK n \in 1 .. Len(d) : c \in PageChunk(d, n)
  BY DEF AnyChunk
<1>2. /\ c.text \in Seq(TextOver(Alphabet(d, n))) /\ c.text # <<>> /\ c.page = n
      /\ Solid(Content(c.text)) = All(c.text)
  BY <1>1, PageChunkFacts
<1> QED BY <1>1, <1>2

\* _deduplicate_chunks loses none.
BlocksKept(d, n, cs) ==
    \A b \in Good(d, n) : \A x \in Solid(CleanText(b)) : \E c \in ToSet(cs) : x \in All(c.text)

\* What is saved in the chunks is in those that are indexed.
LEMMA DeduplicateKeeps ==
    ASSUME NEW d \in Documents, NEW n \in 1 .. Len(d), NEW cs \in Seq(AnyChunk(d)), Saved(d, n, cs)
    PROVE  BlocksKept(d, n, DeduplicateChunks(cs))
<1> DEFINE ds == DeduplicateChunks(cs)
           C == AnyChunk(d)
<1>1. cs \in Seq(C)
  OBVIOUS
<1> HIDE DEF C
<1>2. ds \in Seq(C) /\ \A c \in ToSet(cs) : ~Dropped(c) => Represented(c, ds)
  BY <1>1, DeduplicateFacts
<1> HIDE DEF ds
<1>3. ASSUME NEW b \in Good(d, n), NEW x \in Solid(CleanText(b))
      PROVE  \E c \in ToSet(ds) : x \in All(c.text)
  <2>1. PICK c \in ToSet(cs) : ~Dropped(c) /\ x \in All(c.text)
    BY DEF Saved
  <2>2. PICK k \in 1 .. Len(ds) : Content(ds[k].text) = Content(c.text)
    BY <1>2, <2>1 DEF Represented
  <2> DEFINE e == ds[k]
  <2>3. e \in C /\ e \in ToSet(ds) /\ c \in C
    BY <1>1, <1>2 DEF ToSet
  <2>4. Content(e.text) = Content(c.text)
    BY <2>2
  <2> HIDE DEF e
  <2>5. Solid(Content(e.text)) = All(e.text) /\ Solid(Content(c.text)) = All(c.text)
    BY <2>3, AnyChunkFacts DEF C
  <2> QED BY <2>1, <2>3, <2>4, <2>5
<1> QED BY <1>3 DEF BlocksKept, ds

\* What parse_pdf makes of page n under the active section h.
NextPage(d, n, h) ==
    LET accepted == IF WantsOcr(d[n]) THEN FilterOcrBlocks(d[n].ocr) ELSE <<>>
    IN ParseOut(IF accepted # <<>> THEN accepted ELSE d[n].native, h, n, accepted # <<>>)

\* parse_pdf, one page: its blocks, all of the text layer unless OCR is wanted.
LEMMA NextPageFacts ==
    ASSUME NEW d \in Documents, NEW n \in 1 .. Len(d), NEW h \in Headings(d)
    PROVE  NextPage(d, n, h).heading \in Headings(d) /\ ParsedPage(d, n, NextPage(d, n, h).blocks)
<1> DEFINE accepted == IF WantsOcr(d[n]) THEN FilterOcrBlocks(d[n].ocr) ELSE <<>>
           raw == IF accepted # <<>> THEN accepted ELSE d[n].native
           o == accepted # <<>>
           out == ParseOut(raw, h, n, o)
           R == RawBlocks(d[n])
<1>1. d[n].native \in Seq(R) /\ d[n].ocr \in Seq(R)
  BY PageFacts
<1>2. NextPage(d, n, h) = out
  BY DEF NextPage
<1>3. accepted \in Seq(R)
  <2>1. FilterOcrBlocks(d[n].ocr) \in Seq(R)
    BY <1>1, FilterFacts
  <2> HIDE DEF R
  <2>2. <<>> \in Seq(R)
    OBVIOUS
  <2> QED BY <2>1, <2>2, Zenon
<1>4. ~WantsOcr(d[n]) => raw = d[n].native
  OBVIOUS
<1> HIDE DEF accepted
<1>5. raw \in Seq(R) /\ o \in BOOLEAN
  BY <1>1, <1>3
<1> HIDE DEF raw, o
<1>6. out.heading \in Headings(d) /\ out.blocks \in Seq(PageBlock(d, n)) /\ Carries(raw, out.blocks)
  BY <1>5, ParseFacts
<1> HIDE DEF out
<1> QED BY <1>2, <1>4, <1>6 DEF ParsedPage

\* The pages waiting after the first o ones, and the merging loop.
Waiting(d, o, ps) ==
    /\ ps \in Seq(AnyPage(d)) /\ o \in Nat /\ o + Len(ps) <= Len(d)
    /\ \A i \in 1 .. Len(ps) : ParsedPage(d, o + i, ps[i])
Loop(d, n, cs, i) ==
    /\ n \in 1 .. Len(d) /\ cs \in Seq(PageChunk(d, n)) /\ i \in 1 .. Len(cs) + 1
LoopCare(d, n, cs, i) == Covered(d, n, cs) /\ LargeBefore(cs, i) /\ WithinLimits(cs, i)

\* A page more is parsed.
LEMMA WaitingMore ==
    ASSUME NEW d \in Documents, NEW ps, Waiting(d, 0, ps), Len(ps) < Len(d),
           NEW s, ParsedPage(d, Len(ps) + 1, s)
    PROVE  Waiting(d, 0, Append(ps, s))
<1> DEFINE n == Len(ps) + 1
           r == Append(ps, s)
           A == AnyPage(d)
<1>1. ps \in Seq(A) /\ Len(ps) \in Nat /\ Len(d) \in Nat
  BY DocumentFacts DEF Waiting
<1>2. n \in 1 .. Len(d)
  BY <1>1
<1>3. s \in A
  <2>1. s \in Seq(PageBlock(d, n))
    BY DEF ParsedPage
  <2> QED BY <1>2, <2>1 DEF AnyPage
<1> HIDE DEF A
<1>4. r \in Seq(A) /\ Len(r) = n /\ r[n] = s /\ \A i \in 1 .. Len(ps) : r[i] = ps[i]
  BY <1>1, <1>3
<1> HIDE DEF r
<1>5. ASSUME NEW i \in 1 .. Len(r) PROVE ParsedPage(d, 0 + i, r[i])
  <2>1. 0 + i = i /\ (i = n \/ i \in 1 .. Len(ps))
    BY <1>1, <1>4
  <2>2. CASE i = n
    BY <1>4, <2>1, <2>2
  <2>3. CASE i \in 1 .. Len(ps)
    <3>1. ParsedPage(d, 0 + i, ps[i])
      BY <2>3 DEF Waiting
    <3> QED BY <1>4, <2>3, <3>1
  <2> QED BY <2>1, <2>2, <2>3
<1> QED BY <1>1, <1>2, <1>4, <1>5 DEF Waiting, A, r

\* A page less waits to be chunked.
LEMMA WaitingLess ==
    ASSUME NEW d \in Documents, NEW o, NEW ps, Waiting(d, o, ps), ps # <<>>
    PROVE  /\ Waiting(d, o + 1, Tail(ps)) /\ o + 1 \in 1 .. Len(d) /\ ParsedPage(d, o + 1, Head(ps))
           /\ Len(Tail(ps)) = Len(ps) - 1
<1> DEFINE r == Tail(ps)
           A == AnyPage(d)
<1>1. ps \in Seq(A) /\ Len(ps) \in Nat /\ Len(ps) # 0 /\ o \in Nat /\ o + Len(ps) <= Len(d) /\ Len(d) \in Nat
  BY DocumentFacts DEF Waiting
<1>2. \A i \in 1 .. Len(ps) : ParsedPage(d, o + i, ps[i])
  BY DEF Waiting
<1> HIDE DEF A
<1>3. r \in Seq(A) /\ Len(r) = Len(ps) - 1 /\ Head(ps) = ps[1] /\ \A i \in 1 .. Len(r) : r[i] = ps[i + 1]
  BY <1>1
<1> HIDE DEF r
<1>4. 1 \in 1 .. Len(ps)
  BY <1>1
<1>5. ParsedPage(d, o + 1, Head(ps))
  BY <1>2, <1>3, <1>4
<1>6. ASSUME NEW i \in 1 .. Len(r) PROVE ParsedPage(d, (o + 1) + i, r[i])
  <2>1. i + 1 \in 1 .. Len(ps) /\ o + (i + 1) = (o + 1) + i
    BY <1>1, <1>3
  <2>2. ParsedPage(d, o + (i + 1), ps[i + 1])
    BY <1>2, <2>1
  <2> QED BY <1>3, <2>1, <2>2
<1>7. o + 1 \in Nat /\ (o + 1) + Len(r) <= Len(d) /\ o + 1 \in 1 .. Len(d)
  BY <1>1, <1>3
<1> QED BY <1>3, <1>5, <1>6, <1>7 DEF Waiting, A, r

\* One turn of the loop.
Turn(cs, i, r, j) ==
    IF Large(cs[i]) THEN j = i + 1 /\ r = cs
    ELSE IF i < Len(cs) THEN r = MergedAt(cs, i) /\ j = i
    ELSE r = MergedAt(cs, i - 1) /\ j = i - 1

\* Every turn of the loop keeps what the loop is to preserve.
LEMMA LoopTurn ==
    ASSUME NEW d \in Documents, NEW n, NEW cs, NEW i, Loop(d, n, cs, i), Len(cs) > 1, i <= Len(cs),
           NEW r, NEW j, Turn(cs, i, r, j)
    PROVE  Loop(d, n, r, j) /\ (SensibleSizes /\ LoopCare(d, n, cs, i) => LoopCare(d, n, r, j))
<1> DEFINE P == PageChunk(d, n)
<1>1. n \in 1 .. Len(d) /\ cs \in Seq(P) /\ Len(cs) \in Nat /\ i \in 1 .. Len(cs) /\ i \in Nat
  BY DEF Loop
<1>2. CASE Large(cs[i])
  <2>1. r = cs /\ j = i + 1
    BY <1>2 DEF Turn
  <2>2. Loop(d, n, r, j)
    BY <1>1, <2>1 DEF Loop
  <2>3. LoopCare(d, n, cs, i) => LoopCare(d, n, r, j)
    BY <1>1, <1>2, <2>1, Advance DEF LoopCare
  <2> QED BY <2>2, <2>3
<1>3. CASE ~Large(cs[i]) /\ i < Len(cs)
  <2>1. r = MergedAt(cs, i) /\ j = i /\ i + 1 \in 1 .. Len(cs)
    BY <1>1, <1>3 DEF Turn
  <2>2. r \in Seq(P) /\ Paragraphs(r) = Paragraphs(cs) /\ MergeFits(cs, r, i)
    BY <1>1, <2>1, MergeIs
  <2>3. Loop(d, n, r, j)
    <3>1. Len(r) = Len(cs) - 1
      BY <2>2 DEF MergeFits
    <3>2. j \in 1 .. Len(r) + 1
      BY <1>1, <2>1, <3>1
    <3> QED BY <1>1, <2>2, <3>2 DEF Loop
  <2>4. ASSUME SensibleSizes, LoopCare(d, n, cs, i) PROVE LoopCare(d, n, r, j)
    <3>1. cs[i] \in P
      BY <1>1
    <3>2. Len(Content(cs[i].text)) <= ChunkSize
      BY <1>1, <1>3, <2>4, <3>1, SmallOnes
    <3>3. LargeBefore(r, i) /\ WithinLimits(r, i)
      BY <1>1, <2>1, <2>2, <2>4, <3>2, MergeForward DEF LoopCare
    <3>4. Covered(d, n, r)
      BY <2>2, <2>4 DEF LoopCare, Covered
    <3> QED BY <2>1, <3>3, <3>4 DEF LoopCare
  <2> QED BY <2>3, <2>4
<1>4. CASE ~Large(cs[i]) /\ ~(i < Len(cs))
  <2> DEFINE k == i - 1
  <2>1. /\ r = MergedAt(cs, k) /\ j = k /\ k \in 1 .. Len(cs) /\ k + 1 = i /\ i = Len(cs)
        /\ k + 1 \in 1 .. Len(cs)
    <3>1. i = Len(cs)
      BY <1>1, <1>4
    <3> QED BY <1>1, <1>4, <3>1 DEF Turn
  <2> HIDE DEF k
  <2>2. r \in Seq(P) /\ Paragraphs(r) = Paragraphs(cs) /\ MergeFits(cs, r, k)
    BY <1>1, <2>1, MergeIs
  <2>3. Loop(d, n, r, j)
    <3>1. Len(r) = Len(cs) - 1
      BY <2>2 DEF MergeFits
    <3>2. j \in 1 .. Len(r) + 1
      BY <1>1, <2>1, <3>1
    <3> QED BY <1>1, <2>2, <3>2 DEF Loop
  <2>4. ASSUME SensibleSizes, LoopCare(d, n, cs, i) PROVE LoopCare(d, n, r, j)
    <3>1. cs[i] \in P
      BY <1>1
    <3>2. Len(Content(cs[i].text)) <= ChunkSize
      BY <1>1, <1>4, <2>4, <3>1, SmallOnes
    <3>3. LargeBefore(cs, k + 1) /\ WithinLimits(cs, k + 1) /\ Len(Content(cs[k + 1].text)) <= ChunkSize
      BY <2>1, <2>4, <3>2 DEF LoopCare
    <3>4. LargeBefore(r, k) /\ WithinLimits(r, k)
      BY <1>1, <2>1, <2>2, <3>3, MergeBack
    <3>5. Covered(d, n, r)
      BY <2>2, <2>4 DEF LoopCare, Covered
    <3> QED BY <2>1, <3>4, <3>5 DEF LoopCare
  <2> QED BY <2>3, <2>4
<1> QED BY <1>2, <1>3, <1>4

\* The chunks of the pages so far.
InBound(cs) == \A c \in ToSet(cs) : Len(Content(c.text)) <= FullBound
SavedUpto(d, n, cs) == \A m \in 1 .. n : Saved(d, m, cs)

\* The end of the loop: the page is saved and no chunk is too long.
LEMMA PageDone ==
    ASSUME NEW d \in Documents, NEW n, NEW cs, NEW i, Loop(d, n, cs, i), Len(cs) > 1 => i > Len(cs),
           NEW ds \in Seq(AnyChunk(d))
    PROVE  /\ ds \o cs \in Seq(AnyChunk(d))
           /\ SensibleSizes /\ LoopCare(d, n, cs, i) /\ InBound(ds) /\ SavedUpto(d, n - 1, ds)
                => InBound(ds \o cs) /\ SavedUpto(d, n, ds \o cs)
<1> DEFINE P == PageChunk(d, n)
           C == AnyChunk(d)
           es == ds \o cs
<1>1. n \in 1 .. Len(d) /\ cs \in Seq(P) /\ Len(cs) \in Nat /\ i \in Nat
  BY DEF Loop
<1>2. cs \in Seq(C) /\ ds \in Seq(C)
  <2>1. P \subseteq C
    BY <1>1 DEF AnyChunk
  <2> HIDE DEF P, C
  <2>2. cs \in Seq(C)
    BY <1>1, <2>1
  <2> QED BY <2>2 DEF C
<1> HIDE DEF C
<1>3. es \in Seq(C)
  BY <1>2
<1>4. ToSet(es) = ToSet(ds) \cup ToSet(cs)
  <2>1. CASE cs = <<>>
    <3>1. ds \o cs = ds
      BY <1>2, <2>1
    <3>2. ToSet(cs) = {}
      BY <2>1 DEF ToSet
    <3> QED BY <3>1, <3>2
  <2>2. CASE cs # <<>>
    <3>1. cs[1] \in C
      BY <1>2, <2>2
    <3> QED BY <1>2, <3>1, ToSetFacts
  <2> QED BY <2>1, <2>2
<1> HIDE DEF es
<1>5. ASSUME SensibleSizes, LoopCare(d, n, cs, i), InBound(ds), SavedUpto(d, n - 1, ds)
      PROVE  InBound(es) /\ SavedUpto(d, n, es)
  <2>1. ASSUME NEW c \in ToSet(cs) PROVE Len(Content(c.text)) <= FullBound
    <3>1. PICK k \in 1 .. Len(cs) : c = cs[k]
      BY <1>1 DEF ToSet
    <3>2. Len(Content(cs[k].text)) <= LimitAt(k, i, Len(cs))
      BY <1>5 DEF LoopCare, WithinLimits
    <3>3. c \in P
      BY <1>1, <3>1
    <3> DEFINE l == Len(Content(c.text))
    <3>4. l \in Nat
      BY <1>1, <3>3, PageChunkFacts
    <3>5. l <= LimitAt(k, i, Len(cs))
      BY <3>1, <3>2
    <3> HIDE DEF l
    <3>6. l <= FullBound
      BY <3>4, <3>5, Bounds DEF LimitAt
    <3> QED BY <3>6 DEF l
  <2>2. InBound(es)
    BY <1>4, <1>5, <2>1 DEF InBound
  <2>3. Saved(d, n, cs)
    BY <1>1, <1>5, PageSaved DEF LoopCare
  <2>4. ASSUME NEW m \in 1 .. n PROVE Saved(d, m, es)
    <3>1. m \in 1 .. n - 1 \/ m = n
      BY <1>1
    <3>2. Saved(d, m, ds) \/ Saved(d, m, cs)
      BY <1>5, <2>3, <3>1 DEF SavedUpto
    <3> QED BY <1>4, <3>2 DEF Saved
  <2> QED BY <2>2, <2>4 DEF SavedUpto
<1> QED BY <1>3, <1>5 DEF es, C

\* The end of chunk_document.
LEMMA LoadDone ==
    ASSUME NEW d \in Documents, NEW cs \in Seq(AnyChunk(d))
    PROVE  /\ DeduplicateChunks(cs) \in Seq(AnyChunk(d)) /\ Different(DeduplicateChunks(cs))
           /\ InBound(cs) => InBound(DeduplicateChunks(cs))
           /\ SavedUpto(d, Len(d), cs) => \A n \in 1 .. Len(d) : BlocksKept(d, n, DeduplicateChunks(cs))
<1> DEFINE C == AnyChunk(d)
           ds == DeduplicateChunks(cs)
<1>1. cs \in Seq(C)
  OBVIOUS
<1> HIDE DEF C
<1>2. ds \in Seq(C) /\ Different(ds) /\ ToSet(ds) \subseteq ToSet(cs)
  BY <1>1, DeduplicateFacts
<1>3. ASSUME SavedUpto(d, Len(d), cs), NEW n \in 1 .. Len(d) PROVE BlocksKept(d, n, ds)
  <2>1. Saved(d, n, cs)
    BY <1>3 DEF SavedUpto
  <2> QED BY <1>1, <2>1, DeduplicateKeeps DEF C
<1> HIDE DEF ds
<1>4. InBound(cs) => InBound(ds)
  BY <1>2 DEF InBound
<1> QED BY <1>2, <1>3, <1>4 DEF ds, C

-----------------------------------------------------------------------------
(* The inductive invariant of loading a document.                          *)

Offset == IF stage = "parse" THEN 0 ELSE Len(pdf) - Len(parsed)
ChunkShape ==
    /\ pdf \in Documents /\ stage \in {"parse", "chunk", "merge", "done", "failed"}
    /\ heading \in Headings(pdf) /\ Len(parsed) <= Len(pdf) /\ index \in Nat
    /\ stage \in {"parse", "chunk", "merge"} => Waiting(pdf, Offset, parsed)
    /\ stage = "parse" => chunks = <<>>
    /\ chunks \in Seq(AnyChunk(pdf))
    /\ stage = "merge" => Loop(pdf, Offset, pending, index)
    /\ stage = "done" => Different(chunks)
ChunkCare ==
    /\ InBound(chunks)
    /\ stage = "chunk" => SavedUpto(pdf, Offset, chunks)
    /\ stage = "merge" => SavedUpto(pdf, Offset - 1, chunks) /\ LoopCare(pdf, Offset, pending, index)
    /\ stage = "done" => \A n \in 1 .. Len(pdf) : BlocksKept(pdf, n, chunks)
ChunkInv == ChunkShape /\ (SensibleSizes => ChunkCare)

\* The invariant holds at the start.
LEMMA ChunkInvStarts == ChunkInit => ChunkInv
<1> SUFFICES ASSUME ChunkInit PROVE ChunkInv
  OBVIOUS
<1>1. /\ pdf \in Documents /\ stage = "parse" /\ parsed = <<>> /\ heading = <<>>
      /\ index = 1 /\ chunks = <<>>
  BY DEF ChunkInit
<1>2. Len(pdf) \in Nat
  BY <1>1, DocumentFacts
<1>3. Offset = 0
  BY <1>1 DEF Offset
<1>4. Waiting(pdf, 0, parsed)
  BY <1>1, <1>2 DEF Waiting
<1>5. ToSet(chunks) = {} /\ Len(parsed) = 0 /\ chunks \in Seq(AnyChunk(pdf))
  BY <1>1 DEF ToSet
<1>6. InBound(chunks)
  BY <1>5 DEF InBound
<1>7. heading \in Headings(pdf)
  BY <1>1 DEF Headings
<1> QED BY <1>1, <1>2, <1>3, <1>4, <1>5, <1>6, <1>7 DEF ChunkInv, ChunkShape, ChunkCare

\* parse_pdf keeps the invariant: a page more, or the document fails.
LEMMA ParsePageKeeps ==
    ASSUME ChunkInv, ParsePage PROVE ChunkInv'
<1> DEFINE n == Len(parsed) + 1
           z == NextPage(pdf, n, heading)
<1>1. /\ stage = "parse" /\ Len(parsed) < Len(pdf)
      /\ UNCHANGED <<pdf, pending, index, chunks>>
      /\ \/ stage' = "failed" /\ UNCHANGED <<parsed, heading>>
         \/ /\ parsed' = Append(parsed, z.blocks) /\ heading' = z.heading /\ UNCHANGED stage
  BY Zenon DEF ParsePage, NextPage, ParseOut
<1> HIDE DEF z
<1>2. /\ pdf \in Documents /\ heading \in Headings(pdf) /\ Waiting(pdf, 0, parsed)
      /\ index \in Nat /\ chunks = <<>> /\ Len(parsed) <= Len(pdf) /\ chunks \in Seq(AnyChunk(pdf))
  BY <1>1 DEF ChunkInv, ChunkShape, Offset
<1>3. SensibleSizes => InBound(chunks)
  BY DEF ChunkInv, ChunkCare
<1>4. CASE stage' = "failed" /\ UNCHANGED <<parsed, heading>>
  BY <1>1, <1>2, <1>3, <1>4 DEF ChunkInv, ChunkShape, ChunkCare
<1>5. CASE parsed' = Append(parsed, z.blocks) /\ heading' = z.heading /\ UNCHANGED stage
  <2>1. Len(parsed) \in Nat /\ Len(pdf) \in Nat /\ n \in 1 .. Len(pdf)
    <3>1. Len(parsed) \in Nat
      BY <1>2 DEF Waiting
    <3>2. Len(pdf) \in Nat
      BY <1>2, DocumentFacts
    <3> QED BY <1>1, <3>1, <3>2
  <2>2. z.heading \in Headings(pdf) /\ ParsedPage(pdf, n, z.blocks)
    BY <1>2, <2>1, NextPageFacts DEF z
  <2>3. Waiting(pdf, 0, Append(parsed, z.blocks))
    BY <1>1, <1>2, <2>2, WaitingMore
  <2>4. Waiting(pdf', 0, parsed') /\ Offset' = 0
    BY <1>1, <1>5, <2>3 DEF Offset
  <2>5. Len(parsed') <= Len(pdf')
    <3>1. Len(parsed') \in Nat /\ 0 + Len(parsed') <= Len(pdf')
      BY <2>4 DEF Waiting
    <3> QED BY <3>1
  <2> QED BY <1>1, <1>2, <1>3, <1>5, <2>2, <2>4, <2>5 DEF ChunkInv, ChunkShape, ChunkCare
<1> QED BY <1>1, <1>4, <1>5

\* The end of parse_pdf keeps it.
LEMMA ParseEndKeeps ==
    ASSUME ChunkInv, ParseEnd PROVE ChunkInv'
<1>1. /\ stage = "parse" /\ Len(parsed) = Len(pdf) /\ stage' \in {"failed", "chunk"}
      /\ UNCHANGED <<pdf, parsed, heading, pending, index, chunks>>
  BY DEF ParseEnd
<1>2. /\ pdf \in Documents /\ heading \in Headings(pdf) /\ Waiting(pdf, 0, parsed)
      /\ index \in Nat /\ Len(parsed) <= Len(pdf) /\ chunks \in Seq(AnyChunk(pdf))
  BY <1>1 DEF ChunkInv, ChunkShape, Offset
<1>3. SensibleSizes => InBound(chunks)
  BY DEF ChunkInv, ChunkCare
<1>4. Offset' = 0
  <2>1. Len(pdf) \in Nat
    BY <1>2, DocumentFacts
  <2>2. Offset' = Len(pdf) - Len(pdf)
    BY <1>1 DEF Offset
  <2> QED BY <2>1, <2>2
<1>5. SavedUpto(pdf, 0, chunks)
  BY DEF SavedUpto
<1> QED BY <1>1, <1>2, <1>3, <1>4, <1>5 DEF ChunkInv, ChunkShape, ChunkCare

\* chunk_document keeps it: the chunks of the next page.
LEMMA ChunkPageKeeps ==
    ASSUME ChunkInv, ChunkPage PROVE ChunkInv'
<1> DEFINE o == Offset
<1>1. /\ stage = "chunk" /\ parsed # <<>> /\ parsed' = Tail(parsed) /\ index' = 1 /\ stage' = "merge"
      /\ UNCHANGED <<pdf, heading, chunks>> /\ pending' = PageChunks(Head(parsed))
  BY Zenon DEF ChunkPage, PageChunks
<1>2. /\ pdf \in Documents /\ heading \in Headings(pdf) /\ Waiting(pdf, o, parsed)
      /\ index \in Nat /\ Len(parsed) <= Len(pdf) /\ chunks \in Seq(AnyChunk(pdf))
  BY <1>1 DEF ChunkInv, ChunkShape
<1>3. SensibleSizes => InBound(chunks) /\ SavedUpto(pdf, o, chunks)
  BY <1>1 DEF ChunkInv, ChunkCare
<1>4. o = Len(pdf) - Len(parsed)
  BY <1>1 DEF Offset
<1>5. Len(pdf) \in Nat /\ Len(parsed) \in Nat /\ o \in Nat
  <2>1. Len(pdf) \in Nat
    BY <1>2, DocumentFacts
  <2> QED BY <1>2, <2>1 DEF Waiting
<1> HIDE DEF o
<1>6. /\ Waiting(pdf, o + 1, Tail(parsed)) /\ o + 1 \in 1 .. Len(pdf)
      /\ ParsedPage(pdf, o + 1, Head(parsed)) /\ Len(Tail(parsed)) = Len(parsed) - 1
  BY <1>1, <1>2, WaitingLess
<1>7. Offset' = o + 1
  <2>1. Offset' = Len(pdf) - (Len(parsed) - 1)
    BY <1>1, <1>6 DEF Offset
  <2> QED BY <1>4, <1>5, <2>1
<1> DEFINE cs == PageChunks(Head(parsed))
<1>8. /\ cs \in Seq(PageChunk(pdf, o + 1)) /\ Covered(pdf, o + 1, cs)
      /\ LargeBefore(cs, 1) /\ WithinLimits(cs, 1)
  BY <1>2, <1>6, PageStart
<1>9. pending' = cs
  BY <1>1
<1> HIDE DEF cs
<1>10. Loop(pdf, o + 1, cs, 1) /\ LoopCare(pdf, o + 1, cs, 1)
  <2>1. 1 \in 1 .. Len(cs) + 1
    BY <1>8
  <2> QED BY <1>6, <1>8, <2>1 DEF Loop, LoopCare
<1>11. Offset' - 1 = o
  BY <1>5, <1>7
<1>12. Len(parsed') <= Len(pdf')
  BY <1>1, <1>2, <1>5, <1>6
<1>13. ChunkShape'
  BY <1>1, <1>2, <1>6, <1>7, <1>9, <1>10, <1>12 DEF ChunkShape
<1>14. SensibleSizes => ChunkCare'
  BY <1>1, <1>3, <1>7, <1>9, <1>10, <1>11 DEF ChunkCare
<1> QED BY <1>13, <1>14 DEF ChunkInv

\* A turn of the loop of _merge_tiny_page_chunks keeps it.
LEMMA MergeStepKeeps ==
    ASSUME ChunkInv, MergeStep PROVE ChunkInv'
<1>1. /\ stage = "merge" /\ Len(pending) > 1 /\ index <= Len(pending)
      /\ UNCHANGED <<pdf, stage, parsed, heading, chunks>>
  BY DEF MergeStep
<1>2. Turn(pending, index, pending', index')
  BY Zenon DEF MergeStep, Turn, Large, Small, MergedAt
<1>3. /\ pdf \in Documents /\ heading \in Headings(pdf) /\ Waiting(pdf, Offset, parsed)
      /\ Len(parsed) <= Len(pdf) /\ chunks \in Seq(AnyChunk(pdf)) /\ Loop(pdf, Offset, pending, index)
  BY <1>1 DEF ChunkInv, ChunkShape
<1>4. SensibleSizes => /\ InBound(chunks) /\ SavedUpto(pdf, Offset - 1, chunks)
                       /\ LoopCare(pdf, Offset, pending, index)
  BY <1>1 DEF ChunkInv, ChunkCare
<1>5. Offset' = Offset
  BY <1>1 DEF Offset
<1>6. /\ Loop(pdf, Offset, pending', index')
      /\ SensibleSizes /\ LoopCare(pdf, Offset, pending, index) => LoopCare(pdf, Offset, pending', index')
  <2> DEFINE o == Offset
             r == pending'
             j == index'
  <2> HIDE DEF o, r, j
  <2>1. Loop(pdf, o, pending, index) /\ Turn(pending, index, r, j)
    BY <1>2, <1>3 DEF o, r, j
  <2>2. Loop(pdf, o, r, j) /\ (SensibleSizes /\ LoopCare(pdf, o, pending, index) => LoopCare(pdf, o, r, j))
    BY <1>1, <1>3, <2>1, LoopTurn
  <2> QED BY <2>2 DEF o, r, j
<1>7. index' \in Nat
  BY <1>6 DEF Loop
<1>8. ChunkShape'
  BY <1>1, <1>3, <1>5, <1>6, <1>7 DEF ChunkShape
<1>9. SensibleSizes => ChunkCare'
  BY <1>1, <1>4, <1>5, <1>6 DEF ChunkCare
<1> QED BY <1>8, <1>9 DEF ChunkInv

\* The end of that loop keeps it: the page's chunks join the others.
LEMMA MergeEndKeeps ==
    ASSUME ChunkInv, MergeEnd PROVE ChunkInv'
<1> DEFINE o == Offset
           cs == chunks \o pending
<1>1. /\ stage = "merge" /\ (Len(pending) > 1 => index > Len(pending))
      /\ chunks' = cs /\ stage' = "chunk" /\ UNCHANGED <<pdf, parsed, heading, index>>
  BY DEF MergeEnd
<1>2. /\ pdf \in Documents /\ heading \in Headings(pdf) /\ Waiting(pdf, o, parsed) /\ index \in Nat
      /\ Len(parsed) <= Len(pdf) /\ chunks \in Seq(AnyChunk(pdf)) /\ Loop(pdf, o, pending, index)
  BY <1>1 DEF ChunkInv, ChunkShape
<1>3. SensibleSizes => /\ InBound(chunks) /\ SavedUpto(pdf, o - 1, chunks)
                       /\ LoopCare(pdf, o, pending, index)
  BY <1>1 DEF ChunkInv, ChunkCare
<1>4. Offset' = o
  BY <1>1 DEF Offset
<1> HIDE DEF o
<1>5. /\ cs \in Seq(AnyChunk(pdf))
      /\ SensibleSizes /\ LoopCare(pdf, o, pending, index) /\ InBound(chunks) /\ SavedUpto(pdf, o - 1, chunks)
           => InBound(cs) /\ SavedUpto(pdf, o, cs)
  BY <1>1, <1>2, PageDone
<1> HIDE DEF cs
<1>6. ChunkShape'
  BY <1>1, <1>2, <1>4, <1>5 DEF ChunkShape
<1>7. SensibleSizes => ChunkCare'
  BY <1>1, <1>3, <1>4, <1>5 DEF ChunkCare
<1> QED BY <1>6, <1>7 DEF ChunkInv

\* _deduplicate_chunks and the end of load_pdf_chunks keep it.
LEMMA LoadEndKeeps ==
    ASSUME ChunkInv, LoadEnd PROVE ChunkInv'
<1> DEFINE ds == DeduplicateChunks(chunks)
<1>1. /\ stage = "chunk" /\ parsed = <<>> /\ chunks' = ds /\ stage' \in {"failed", "done"}
      /\ UNCHANGED <<pdf, parsed, heading, pending, index>>
  BY DEF LoadEnd
<1>2. /\ pdf \in Documents /\ heading \in Headings(pdf) /\ index \in Nat
      /\ Len(parsed) <= Len(pdf) /\ chunks \in Seq(AnyChunk(pdf))
  BY <1>1 DEF ChunkInv, ChunkShape
<1>3. SensibleSizes => InBound(chunks) /\ SavedUpto(pdf, Offset, chunks)
  BY <1>1 DEF ChunkInv, ChunkCare
<1>4. Offset = Len(pdf)
  <2>1. Len(pdf) \in Nat /\ Len(parsed) = 0
    BY <1>1, <1>2, DocumentFacts
  <2>2. Offset = Len(pdf) - Len(parsed)
    BY <1>1 DEF Offset
  <2> QED BY <2>1, <2>2
<1>5. /\ ds \in Seq(AnyChunk(pdf)) /\ Different(ds) /\ (InBound(chunks) => InBound(ds))
      /\ SavedUpto(pdf, Len(pdf), chunks) => \A n \in 1 .. Len(pdf) : BlocksKept(pdf, n, ds)
  BY <1>2, LoadDone
<1> HIDE DEF ds
<1>6. ChunkShape'
  BY <1>1, <1>2, <1>5 DEF ChunkShape
<1>7. SensibleSizes => ChunkCare'
  BY <1>1, <1>3, <1>4, <1>5 DEF ChunkCare
<1> QED BY <1>6, <1>7 DEF ChunkInv

\* The invariant holds in every state of loading a document.
LEMMA ChunkInvHolds == ChunkSpec => []ChunkInv
<1>1. ChunkInit => ChunkInv
  BY ChunkInvStarts
<1>2. ChunkInv /\ [ChunkNext]_chunkVars => ChunkInv'
  <2> SUFFICES ASSUME ChunkInv, [ChunkNext]_chunkVars PROVE ChunkInv'
    OBVIOUS
  <2>1. CASE UNCHANGED chunkVars
    <3>1. UNCHANGED <<pdf, stage, parsed, heading, pending, index, chunks>>
      BY <2>1 DEF chunkVars
    <3>2. Offset' = Offset
      BY <3>1 DEF Offset
    <3>3. ChunkShape' /\ (ChunkCare' <=> ChunkCare)
      BY <3>1, <3>2 DEF ChunkInv, ChunkShape, ChunkCare
    <3> QED BY <3>3 DEF ChunkInv
  <2>2. CASE ParsePage
    BY <2>2, ParsePageKeeps
  <2>3. CASE ParseEnd
    BY <2>3, ParseEndKeeps
  <2>4. CASE ChunkPage
    BY <2>4, ChunkPageKeeps
  <2>5. CASE MergeStep
    BY <2>5, MergeStepKeeps
  <2>6. CASE MergeEnd
    BY <2>6, MergeEndKeeps
  <2>7. CASE LoadEnd
    BY <2>7, LoadEndKeeps
  <2> QED BY <2>1, <2>2, <2>3, <2>4, <2>5, <2>6, <2>7 DEF ChunkNext
<1> QED BY <1>1, <1>2, PTL DEF ChunkSpec

-----------------------------------------------------------------------------
(* Theorems about loading a document.                                      *)

\* A chunk of a state that satisfies the invariant.
LEMMA ChunkAt ==
    ASSUME ChunkInv, NEW k \in DOMAIN chunks
    PROVE  /\ pdf \in Documents /\ DOMAIN pdf = 1 .. Len(pdf) /\ chunks[k] \in AnyChunk(pdf)
           /\ chunks[k] \in ToSet(chunks) /\ k \in 1 .. Len(chunks)
<1>1. pdf \in Documents /\ chunks \in Seq(AnyChunk(pdf))
  BY DEF ChunkInv, ChunkShape
<1>2. DOMAIN pdf = 1 .. Len(pdf)
  BY <1>1, DocumentFacts
<1>3. chunks[k] \in AnyChunk(pdf) /\ k \in 1 .. Len(chunks)
  BY <1>1
<1>4. chunks[k] \in ToSet(chunks)
  BY DEF ToSet
<1> QED BY <1>1, <1>2, <1>3, <1>4

\* The invariant gives the types.
LEMMA ChunkInvTypes == ChunkInv => ChunkTypeOK
<1> SUFFICES ASSUME ChunkInv PROVE ChunkTypeOK
  OBVIOUS
<1>1. ASSUME NEW k \in DOMAIN chunks PROVE chunks[k].page \in DOMAIN pdf /\ chunks[k].text # <<>>
  BY ChunkAt, AnyChunkFacts
<1>2. /\ stage \in {"parse", "chunk", "merge", "done", "failed"}
      /\ Len(parsed) <= Len(pdf) /\ index \in Nat
  BY DEF ChunkInv, ChunkShape
<1> QED BY <1>1, <1>2 DEF ChunkTypeOK

\* It gives the attribution, and at the end distinct contents.
LEMMA ChunkInvAttributes == ChunkInv => Attributed /\ (stage = "done" => ContentsDiffer)
<1> SUFFICES ASSUME ChunkInv PROVE Attributed /\ (stage = "done" => ContentsDiffer)
  OBVIOUS
<1>1. ASSUME NEW k \in DOMAIN chunks, NEW p \in DOMAIN chunks[k].text,
             NEW i \in DOMAIN chunks[k].text[p], ~Blank(chunks[k].text[p][i])
      PROVE  OnPage(chunks[k].text[p][i], pdf[chunks[k].page])
  <2> DEFINE c == chunks[k]
             n == c.page
             X == Alphabet(pdf, n)
             s == c.text
             t == s[p]
             x == t[i]
  <2>1. s \in Seq(TextOver(X))
    BY ChunkAt, AnyChunkFacts
  <2>2. p \in DOMAIN s /\ i \in DOMAIN t /\ ~Blank(x)
    BY <1>1
  <2> HIDE DEF s, X
  <2>3. t \in TextOver(X)
    BY <2>1, <2>2
  <2> HIDE DEF t
  <2>4. t \in Seq(X)
    BY <2>3 DEF TextOver
  <2>5. x \in X
    BY <2>2, <2>4
  <2>6. x # Space
    BY <2>2 DEF Blank
  <2> HIDE DEF x
  <2>7. x \in {b.id : b \in RawBlocks(pdf[n])} \X Nat
    BY <2>5, <2>6 DEF X, Alphabet
  <2>8. x[1] \in {b.id : b \in RawBlocks(pdf[n])}
    BY <2>7
  <2>9. OnPage(x, pdf[n])
    BY <2>8 DEF OnPage
  <2> QED BY <2>9 DEF x, t, s
<1>2. Attributed
  BY <1>1 DEF Attributed
<1>3. ASSUME stage = "done" PROVE ContentsDiffer
  <2>1. Different(chunks) /\ DOMAIN chunks = 1 .. Len(chunks)
    BY <1>3 DEF ChunkInv, ChunkShape
  <2> QED BY <2>1 DEF Different, ContentsDiffer
<1> QED BY <1>2, <1>3

\* With sensible settings it gives that nothing is lost and nothing too long.
LEMMA ChunkInvKeeps ==
    ASSUME SensibleSizes PROVE ChunkInv /\ stage = "done" => NothingLost /\ NotTooLong
<1> SUFFICES ASSUME ChunkInv, stage = "done" PROVE NothingLost /\ NotTooLong
  OBVIOUS
<1>1. InBound(chunks) /\ \A n \in 1 .. Len(pdf) : BlocksKept(pdf, n, chunks)
  BY DEF ChunkInv, ChunkCare
<1>2. NotTooLong
  <2>1. ASSUME NEW k \in DOMAIN chunks
        PROVE  Len(Content(chunks[k].text)) <= ChunkSize + Overlap + 1 + 2 * (ChunkSize + 1)
    <3>1. Len(Content(chunks[k].text)) <= FullBound
      BY <1>1, ChunkAt DEF InBound
    <3> QED BY <3>1, Bounds
  <2> QED BY <2>1 DEF NotTooLong
<1>3. ASSUME NEW n \in DOMAIN pdf, NEW b \in ToSet(pdf[n].native),
             Len(CleanText(b)) >= MinIndexable, ~LooksLikeHeading(b), ~WantsOcr(pdf[n]),
             NEW i \in DOMAIN CleanText(b), ~Blank(CleanText(b)[i])
      PROVE  \E k \in DOMAIN chunks : InText(CleanText(b)[i], chunks[k].text)
  <2> DEFINE x == CleanText(b)[i]
  <2>1. pdf \in Documents /\ chunks \in Seq(AnyChunk(pdf))
    BY DEF ChunkInv, ChunkShape
  <2>2. n \in 1 .. Len(pdf)
    BY <2>1, DocumentFacts
  <2>3. b \in Good(pdf, n)
    BY <1>3 DEF Good
  <2>4. x \in Solid(CleanText(b))
    BY <1>3 DEF Solid, Blank
  <2> HIDE DEF x
  <2>5. PICK c \in ToSet(chunks) : x \in All(c.text)
    BY <1>1, <2>2, <2>3, <2>4 DEF BlocksKept
  <2>6. PICK k \in DOMAIN chunks : c = chunks[k]
    BY <2>5 DEF ToSet
  <2> DEFINE s == c.text
             X == Alphabet(pdf, c.page)
  <2>7. c \in AnyChunk(pdf)
    BY <2>1, <2>6
  <2>8. s \in Seq(TextOver(X))
    BY <2>1, <2>7, AnyChunkFacts
  <2>9. x \in All(s)
    BY <2>5
  <2> HIDE DEF s, X
  <2>10. PICK t \in ToSet(s) : x \in Solid(t)
    BY <2>9 DEF All
  <2>11. PICK p \in DOMAIN s : t = s[p]
    BY <2>10 DEF ToSet
  <2>12. t \in Seq(X)
    BY <2>8, <2>11 DEF TextOver
  <2>13. PICK j \in 1 .. Len(t) : x = t[j]
    BY <2>10, <2>12 DEF Solid
  <2>14. Contains(s[p], x)
    BY <2>11, <2>13 DEF Contains
  <2>15. InText(x, s)
    BY <2>14 DEF InText
  <2> QED BY <2>6, <2>15 DEF s, x
<1>4. NothingLost
  BY <1>3 DEF NothingLost
<1> QED BY <1>2, <1>4

\* The chunks and the bookkeeping of parse_pdf and chunk_document keep their
\* types: every chunk names a page of the document and has text.
THEOREM ChunkTypes == ChunkSpec => []ChunkTypeOK
<1>1. ChunkInv => ChunkTypeOK
  BY ChunkInvTypes
<1> QED BY <1>1, ChunkInvHolds, PTL

\* A chunk has text of the page it names only, in every state of parse_pdf and
\* chunk_document and whatever the settings, and when the document is loaded no
\* two chunks have the same content: _merge_chunks stays within a page, and
\* _deduplicate_chunks leaves no content twice.
THEOREM ChunksAttributed == ChunkSpec => [](Attributed /\ (stage = "done" => ContentsDiffer))
<1>1. ChunkInv => Attributed /\ (stage = "done" => ContentsDiffer)
  BY ChunkInvAttributes
<1> QED BY <1>1, ChunkInvHolds, PTL

\* Between the text layer and the index load_pdf_chunks loses no block, attributes
\* no text to another page, keeps no content twice and piles up no chunk beyond a
\* piece with its overlap and two neighbours, for every document and all settings
\* under which a chunk has room for what is indexed and for a heading.
THEOREM ChunksAreFaithful == ASSUME SensibleSizes PROVE ChunkSpec => []ChunksFaithful
<1>1. ChunkInv => ChunksFaithful
  BY ChunkInvAttributes, ChunkInvKeeps DEF ChunksFaithful
<1> QED BY <1>1, ChunkInvHolds, PTL
===========================================================================
