--------------------------- MODULE RankingsProofs ---------------------------
(***************************************************************************)
(* Proofs about what is sorted and filtered: sequences as such, the        *)
(* answers of a search, and the stacks of licence keys.                    *)
(***************************************************************************)
EXTENDS Retrieval, Licences, FiniteSetTheorems, SequenceTheorems, TLAPS

-----------------------------------------------------------------------------
(***************************************************************************)
(* Sequences: a sort has every element once and in the order, a filter     *)
(* keeps the members it is to keep in theirs, and what comes first stays   *)
(* first through both.                                                     *)
(***************************************************************************)

\* R puts any two elements of S in an order.
Orders(R, S) ==
  /\ \A c \in S : <<c, c>> \notin R
  /\ \A c, d, e \in S : <<c, d>> \in R /\ <<d, e>> \in R => <<c, e>> \in R
  /\ \A c, d \in S : c # d => <<c, d>> \in R \/ <<d, c>> \in R

\* The sequence s has every element of S once.
Enumerates(s, S) ==
  /\ s \in Seq(S) /\ Len(s) = Cardinality(S)
  /\ \A c \in S : \E i \in 1 .. Len(s) : s[i] = c
  /\ \A i, k \in 1 .. Len(s) : s[i] = s[k] => i = k

\* How many come before an element tells it from the others, and every number but the
\* last is that of one.
LEMMA Positions ==
  ASSUME NEW S, IsFiniteSet(S), NEW R, Orders(R, S)
  PROVE  /\ Cardinality(S) \in Nat
         /\ \A c \in S : Cardinality({d \in S : <<d, c>> \in R}) \in 0 .. Cardinality(S) - 1
         /\ \A c, e \in S : Cardinality({d \in S : <<d, c>> \in R})
                              < Cardinality({d \in S : <<d, e>> \in R}) <=> <<c, e>> \in R
         /\ \A n \in 0 .. Cardinality(S) - 1 :
              \E c \in S : Cardinality({d \in S : <<d, c>> \in R}) = n
<1> DEFINE Below(c) == {d \in S : <<d, c>> \in R}
           pos(c) == Cardinality(Below(c))
           size == Cardinality(S)
           place == [c \in S |-> pos(c)]
<1>1. size \in Nat
  BY FS_CardinalityType
<1>2. ASSUME NEW c \in S
      PROVE  IsFiniteSet(Below(c)) /\ pos(c) \in 0 .. size - 1
  <2>1. Below(c) \in SUBSET S /\ c \notin Below(c)
    BY DEF Orders
  <2> HIDE DEF Below
  <2>2. IsFiniteSet(Below(c)) /\ pos(c) <= size /\ (size = pos(c) => S = Below(c))
    BY <2>1, FS_Subset
  <2>3. pos(c) \in Nat
    BY <2>2, FS_CardinalityType
  <2> QED BY <1>1, <2>1, <2>2, <2>3
<1>3. ASSUME NEW c \in S, NEW e \in S, <<c, e>> \in R
      PROVE  pos(c) < pos(e)
  <2>1. Below(c) \in SUBSET Below(e) /\ c \in Below(e) /\ c \notin Below(c)
    BY <1>3 DEF Orders
  <2> HIDE DEF Below
  <2>2. pos(c) <= pos(e) /\ (pos(e) = pos(c) => Below(e) = Below(c))
    BY <1>2, <2>1, FS_Subset
  <2> QED BY <1>2, <2>1, <2>2
<1>0. \A c \in S : pos(c) \in 0 .. size - 1
  BY <1>2
<1> HIDE DEF pos, size, Below
<1>4. \A c, e \in S : pos(c) < pos(e) <=> <<c, e>> \in R
  <2> SUFFICES ASSUME NEW c \in S, NEW e \in S PROVE pos(c) < pos(e) <=> <<c, e>> \in R
    OBVIOUS
  <2>1. pos(c) \in Int /\ pos(e) \in Int
    BY <1>0, <1>1
  <2>2. c = e \/ <<c, e>> \in R \/ <<e, c>> \in R
    BY DEF Orders
  <2>3. <<c, e>> \in R => pos(c) < pos(e)
    BY <1>3
  <2>4. <<e, c>> \in R => pos(e) < pos(c)
    BY <1>3
  <2> QED BY <2>1, <2>2, <2>3, <2>4
<1>5. \A c, e \in S : pos(c) = pos(e) => c = e
  <2> SUFFICES ASSUME NEW c \in S, NEW e \in S, c # e PROVE pos(c) # pos(e)
    OBVIOUS
  <2>1. pos(c) \in Int /\ pos(e) \in Int
    BY <1>0, <1>1
  <2>2. <<c, e>> \in R \/ <<e, c>> \in R
    BY DEF Orders
  <2> QED BY <1>4, <2>1, <2>2
<1>6. place \in Injection(S, 0 .. size - 1)
  BY <1>2, <1>5 DEF Injection, IsInjective
<1>7. IsFiniteSet(0 .. size - 1) /\ Cardinality(0 .. size - 1) = Cardinality(S)
  BY <1>1, FS_Interval DEF size
<1>8. place \in Surjection(S, 0 .. size - 1)
  <2> HIDE DEF place
  <2> QED BY <1>6, <1>7, FS_Injection
<1>9. \A n \in 0 .. size - 1 : \E c \in S : pos(c) = n
  BY <1>8 DEF Surjection
<1> QED BY <1>1, <1>2, <1>4, <1>9 DEF pos, size, Below

\* A sort has every element once, in the order.
LEMMA RankedEnumerates ==
  ASSUME NEW S, IsFiniteSet(S), NEW R, Orders(R, S)
  PROVE  /\ Enumerates(Ranked(S, R), S)
         /\ \A i, k \in 1 .. Cardinality(S) :
              i < k <=> <<Ranked(S, R)[i], Ranked(S, R)[k]>> \in R
<1> DEFINE pos(c) == Cardinality({d \in S : <<d, c>> \in R})
           size == Cardinality(S)
           At(n) == CHOOSE c \in S : pos(c) = n - 1
           s == Ranked(S, R)
<1>1. /\ size \in Nat
      /\ \A c \in S : pos(c) \in 0 .. size - 1
      /\ \A c, e \in S : pos(c) < pos(e) <=> <<c, e>> \in R
      /\ \A n \in 0 .. size - 1 : \E c \in S : pos(c) = n
  BY Positions, SMTT(30)
<1>2. s = [n \in 1 .. size |-> At(n)]
  BY DEF Ranked
<1> HIDE DEF pos, size, s
<1>3. \A n \in 1 .. size : At(n) \in S /\ pos(At(n)) = n - 1
  <2> TAKE n \in 1 .. size
  <2>1. n - 1 \in 0 .. size - 1
    BY <1>1
  <2> QED BY <1>1, <2>1
<1> HIDE DEF At
<1>4. s \in Seq(S) /\ Len(s) = size /\ \A n \in 1 .. size : s[n] = At(n)
  BY <1>1, <1>2, <1>3
<1>5. \A i, k \in 1 .. size : i < k <=> <<s[i], s[k]>> \in R
  <2> TAKE i, k \in 1 .. size
  <2>1. i < k <=> pos(At(i)) < pos(At(k))
    BY <1>1, <1>3
  <2> QED BY <1>1, <1>3, <1>4, <2>1
<1>6. \A i, k \in 1 .. size : s[i] = s[k] => i = k
  <2> TAKE i, k \in 1 .. size
  <2> QED BY <1>1, <1>3, <1>4
<1>7. \A c \in S : \E i \in 1 .. size : s[i] = c
  <2> SUFFICES ASSUME NEW c \in S PROVE \E i \in 1 .. size : s[i] = c
    OBVIOUS
  <2>1. pos(c) + 1 \in 1 .. size /\ pos(c) \in Nat
    BY <1>1
  <2>2. PICK i \in 1 .. size : i = pos(c) + 1
    BY <2>1
  <2>3. s[i] \in S /\ pos(s[i]) = pos(c)
    BY <1>1, <1>3, <1>4, <2>1, <2>2
  <2>4. c = s[i]
    <3>1. ~(pos(c) < pos(s[i])) /\ ~(pos(s[i]) < pos(c))
      BY <2>1, <2>3
    <3>2. <<c, s[i]>> \notin R /\ <<s[i], c>> \notin R
      BY <1>1, <2>3, <3>1
    <3> QED BY <2>3, <3>2 DEF Orders
  <2> QED BY <2>4
<1> QED BY <1>4, <1>5, <1>6, <1>7 DEF Enumerates, size, s
\* Numbers sorted are all there, from the least on.
LEMMA SortedEnumerates ==
  ASSUME NEW I \in SUBSET Int, IsFiniteSet(I)
  PROVE  /\ Enumerates(Sorted(I), I) /\ Cardinality(I) \in Nat
         /\ \A m, n \in 1 .. Cardinality(I) : m < n <=> Sorted(I)[m] < Sorted(I)[n]
<1> DEFINE R == {p \in I \X I : p[1] < p[2]}
<1>1. Orders(R, I)
  BY DEF Orders
<1>2. Sorted(I) = Ranked(I, R)
  BY DEF Sorted
<1>3. \A i, k \in I : <<i, k>> \in R <=> i < k
  OBVIOUS
<1> HIDE DEF R
<1>4. /\ Enumerates(Sorted(I), I)
      /\ \A m, n \in 1 .. Cardinality(I) : m < n <=> <<Sorted(I)[m], Sorted(I)[n]>> \in R
  BY <1>1, <1>2, RankedEnumerates
<1>5. Cardinality(I) \in Nat
  BY FS_CardinalityType
<1>6. \A m \in 1 .. Cardinality(I) : Sorted(I)[m] \in I
  BY <1>4, <1>5, ElementOfSeq DEF Enumerates
<1> QED BY <1>3, <1>4, <1>5, <1>6

\* What is picked from a sequence are its members at the positions, in their order.
LEMMA PickedIs ==
  ASSUME NEW S, NEW s \in Seq(S), NEW I \in SUBSET (DOMAIN s)
  PROVE  /\ Picked(s, I) \in Seq(S) /\ Len(Picked(s, I)) = Cardinality(I)
         /\ Cardinality(I) \in Nat
         /\ \A n \in 1 .. Cardinality(I) :
              Sorted(I)[n] \in I /\ Picked(s, I)[n] = s[Sorted(I)[n]]
         /\ \A i \in I : \E n \in 1 .. Cardinality(I) : Sorted(I)[n] = i
         /\ \A m, n \in 1 .. Cardinality(I) : m < n <=> Sorted(I)[m] < Sorted(I)[n]
<1>1. DOMAIN s = 1 .. Len(s) /\ Len(s) \in Nat /\ \A i \in 1 .. Len(s) : s[i] \in S
  BY LenProperties, ElementOfSeq
<1>2. I \in SUBSET Int /\ IsFiniteSet(I)
  <2>1. IsFiniteSet(1 .. Len(s)) /\ I \in SUBSET (1 .. Len(s))
    BY <1>1, FS_Interval
  <2> QED BY <2>1, FS_Subset
<1>3. /\ Enumerates(Sorted(I), I) /\ Cardinality(I) \in Nat
      /\ \A m, n \in 1 .. Cardinality(I) : m < n <=> Sorted(I)[m] < Sorted(I)[n]
  BY <1>2, SortedEnumerates
<1>4. \A n \in 1 .. Cardinality(I) : Sorted(I)[n] \in I
  BY <1>3, ElementOfSeq DEF Enumerates
<1>5. Picked(s, I) = [n \in 1 .. Cardinality(I) |-> s[Sorted(I)[n]]]
  BY DEF Picked
<1>6. Picked(s, I) \in Seq(S) /\ Len(Picked(s, I)) = Cardinality(I)
  BY <1>1, <1>3, <1>4, <1>5
<1> QED BY <1>3, <1>4, <1>5, <1>6 DEF Enumerates

\* Every member at one of the positions is picked.
LEMMA PickedMembers ==
  ASSUME NEW S, NEW s \in Seq(S), NEW I \in SUBSET (DOMAIN s)
  PROVE  /\ Picked(s, I) \in Seq(S)
         /\ \A i \in I : \E n \in DOMAIN Picked(s, I) : Picked(s, I)[n] = s[i]
<1>1. DOMAIN Picked(s, I) = 1 .. Cardinality(I) /\ Picked(s, I) \in Seq(S)
  BY PickedIs, LenProperties
<1>2. ASSUME NEW i \in I
      PROVE  \E n \in 1 .. Cardinality(I) : Picked(s, I)[n] = s[i]
  <2>1. PICK n \in 1 .. Cardinality(I) : Sorted(I)[n] = i
    BY PickedIs
  <2>2. Picked(s, I)[n] = s[i]
    BY <2>1, PickedIs
  <2> QED BY <2>2
<1> QED BY <1>1, <1>2

\* In s no b comes before the first member of A.
Led(s, A, b) == \A k \in DOMAIN s : s[k] = b => \E i \in 1 .. k : s[i] \in A

\* A member of A stays ahead of b if, for every b that is picked, one that was ahead is.
LEMMA PickedLed ==
  ASSUME NEW S, NEW s \in Seq(S), NEW I \in SUBSET (DOMAIN s), NEW A, NEW b,
         \A k \in I : s[k] = b => \E i \in I : i <= k /\ s[i] \in A
  PROVE  Led(Picked(s, I), A, b)
<1> DEFINE p == Picked(s, I)
           at == Sorted(I)
           size == Cardinality(I)
<1>1. DOMAIN p = 1 .. size /\ size \in Nat
  BY PickedIs, LenProperties
<1>2. /\ \A n \in 1 .. size : at[n] \in I /\ p[n] = s[at[n]]
      /\ \A i \in I : \E n \in 1 .. size : at[n] = i
      /\ \A m, n \in 1 .. size : m < n <=> at[m] < at[n]
  BY PickedIs
<1>3. I \in SUBSET Int
  BY LenProperties
<1> HIDE DEF p, at, size
<1> SUFFICES ASSUME NEW n \in 1 .. size, p[n] = b PROVE \E m \in 1 .. n : p[m] \in A
  BY <1>1 DEF Led, p
<1>4. at[n] \in I /\ s[at[n]] = b
  BY <1>2
<1>5. PICK i \in I : i <= at[n] /\ s[i] \in A
  BY <1>4
<1>6. PICK m \in 1 .. size : at[m] = i
  BY <1>2
<1>7. ~(n < m)
  BY <1>2, <1>3, <1>4, <1>5, <1>6
<1>8. m \in 1 .. n /\ p[m] \in A
  BY <1>1, <1>2, <1>5, <1>6, <1>7
<1> QED BY <1>8

\* A cut keeps the order and is no longer than asked for.
LEMMA FirstLed ==
  ASSUME NEW S, NEW s \in Seq(S), NEW n \in Nat
  PROVE  /\ First(s, n) \in Seq(S) /\ Len(First(s, n)) <= n
         /\ \A c : In(First(s, n), c) => In(s, c)
         /\ \A A, b : Led(s, A, b) => Led(First(s, n), A, b)
<1>1. PICK k \in Nat : k = IF Len(s) < n THEN Len(s) ELSE n
  BY LenProperties
<1>2. k <= Len(s) /\ k <= n /\ DOMAIN s = 1 .. Len(s) /\ Len(s) \in Nat
  BY <1>1, LenProperties
<1>3. First(s, n) = [i \in 1 .. k |-> s[i]]
  BY <1>1 DEF First
<1>4. \A i \in 1 .. k : s[i] \in S
  BY <1>2, ElementOfSeq
<1>5. First(s, n) \in Seq(S) /\ Len(First(s, n)) = k /\ DOMAIN First(s, n) = 1 .. k
  BY <1>3, <1>4
<1>6. \A c : In(First(s, n), c) => In(s, c)
  BY <1>2, <1>3, <1>5 DEF In
<1>7. ASSUME NEW A, NEW b, Led(s, A, b) PROVE Led(First(s, n), A, b)
  <2> SUFFICES ASSUME NEW m \in 1 .. k, s[m] = b PROVE \E i \in 1 .. m : s[i] \in A
    BY <1>2, <1>3, <1>5 DEF Led
  <2> QED BY <1>2, <1>7 DEF Led
<1> QED BY <1>2, <1>5, <1>6, <1>7

-----------------------------------------------------------------------------
(***************************************************************************)
(* Fractions: scores are sums of fractions, which are compared by          *)
(* multiplying crosswise. That order is transitive, and a sum grows with   *)
(* its parts.                                                              *)
(***************************************************************************)

\* A factor may be dropped on both sides.
LEMMA Cancel ==
  ASSUME NEW a \in Int, NEW b \in Int, NEW y \in Nat \ {0}
  PROVE  /\ a * y >= b * y => a >= b
         /\ a * y > b * y => a > b
         /\ a >= b => a * y >= b * y
         /\ a > b => a * y > b * y
<1>1. a * y - b * y = (a - b) * y
  BY SMT
<1>2. a - b >= 0 => (a - b) * y >= 0
  BY SMT
<1>3. a - b >= 1 => (a - b) * y >= y
  BY SMT
<1>4. a - b <= -1 => (a - b) * y <= - y
  BY SMT
<1> QED BY <1>1, <1>2, <1>3, <1>4, SMT

\* Fractions a/x, b/y, c/z.
LEMMA CrossTransitive ==
  ASSUME NEW a \in Int, NEW b \in Int, NEW c \in Int,
         NEW x \in Nat \ {0}, NEW y \in Nat \ {0}, NEW z \in Nat \ {0},
         a * y >= b * x, b * z >= c * y
  PROVE  /\ a * z >= c * x
         /\ a * y > b * x \/ b * z > c * y => a * z > c * x
<1>1. (a * y) * z >= (b * x) * z /\ (a * y > b * x => (a * y) * z > (b * x) * z)
  BY Cancel
<1>2. (b * z) * x >= (c * y) * x /\ (b * z > c * y => (b * z) * x > (c * y) * x)
  BY Cancel
<1>3. (a * y) * z = (a * z) * y /\ (b * x) * z = (b * z) * x /\ (c * y) * x = (c * x) * y
  BY SMT
<1>4. /\ (a * z) * y >= (c * x) * y
      /\ a * y > b * x \/ b * z > c * y => (a * z) * y > (c * x) * y
  BY <1>1, <1>2, <1>3
<1> QED BY <1>4, Cancel

\* Sums of fractions a/x + b/y and c/z + d/w.
LEMMA CrossSum ==
  ASSUME NEW a \in Int, NEW b \in Int, NEW c \in Int, NEW d \in Int,
         NEW x \in Nat \ {0}, NEW y \in Nat \ {0}, NEW z \in Nat \ {0}, NEW w \in Nat \ {0},
         a * z >= c * x, b * w >= d * y, a * z > c * x \/ b * w > d * y
  PROVE  (a * y + b * x) * (z * w) > (c * w + d * z) * (x * y)
<1> DEFINE p == a * z
           q == c * x
           r == b * w
           s == d * y
           yw == y * w
           xz == x * z
<1>1. yw \in Nat \ {0} /\ xz \in Nat \ {0}
  BY SMT
<1>2. p \in Int /\ q \in Int /\ r \in Int /\ s \in Int
  OBVIOUS
<1>3. (a * y + b * x) * (z * w) = p * yw + r * xz
  BY SMT
<1>4. (c * w + d * z) * (x * y) = q * yw + s * xz
  BY SMT
<1>5. p >= q /\ r >= s /\ (p > q \/ r > s)
  OBVIOUS
<1> HIDE DEF p, q, r, s, yw, xz
<1>6. p * yw >= q * yw /\ (p > q => p * yw > q * yw)
  BY <1>1, <1>2, <1>5, Cancel
<1>7. r * xz >= s * xz /\ (r > s => r * xz > s * xz)
  BY <1>1, <1>2, <1>5, Cancel
<1>8. p * yw + r * xz > q * yw + s * xz
  BY <1>1, <1>2, <1>5, <1>6, <1>7
<1> QED BY <1>3, <1>4, <1>8

-----------------------------------------------------------------------------
(***************************************************************************)
(* SearchStates: one that no write disturbs answers the best there is, for any *)
(* chunks, any texts, any distances, any weight and any length of the      *)
(* answer. Each engine makes a ranking that puts the better chunk first:   *)
(* the score of the hybrid search by its boost, that of the fusion as the  *)
(* sum of two parts that both prefer it; and grouping, the suppression of  *)
(* tails, the cut and the lookup of the rows keep what leads in the lead,  *)
(* but for the documents that are spared.                                  *)
(***************************************************************************)

\* An order of the chunks orders any of them.
\* What orders the chunks orders any of them.
LEMMA FewerOrdered ==
  ASSUME NEW R, NEW T, NEW S \in SUBSET T, Orders(R, T)
  PROVE  Orders(R, S)
BY DEF Orders

\* Of a sorted set, an element comes after those that the order puts before it.
LEMMA RankedLed ==
  ASSUME NEW S, IsFiniteSet(S), NEW R, Orders(R, S), NEW a \in S, NEW b, <<a, b>> \in R
  PROVE  Led(Ranked(S, R), {a}, b)
<1> DEFINE s == Ranked(S, R)
           size == Cardinality(S)
<1>1. Enumerates(s, S) /\ \A i, k \in 1 .. size : i < k <=> <<s[i], s[k]>> \in R
  BY RankedEnumerates
<1>2. s \in Seq(S) /\ Len(s) = size /\ DOMAIN s = 1 .. size /\ size \in Nat
  BY <1>1, LenProperties, FS_CardinalityType DEF Enumerates
<1> HIDE DEF s, size
<1> SUFFICES ASSUME NEW k \in 1 .. size, s[k] = b PROVE \E i \in 1 .. k : s[i] \in {a}
  BY <1>2 DEF Led, s
<1>3. PICK i \in 1 .. size : s[i] = a
  BY <1>1, <1>2 DEF Enumerates
<1>4. i < k
  BY <1>1, <1>3
<1> QED BY <1>3, <1>4, <1>2

\* A set of numbers has a least one.
LEMMA LeastOf ==
  ASSUME NEW I \in SUBSET Int, IsFiniteSet(I), NEW i \in I
  PROVE  \E j \in I : \A k \in I : j <= k
<1> DEFINE s == Sorted(I)
           size == Cardinality(I)
<1>1. /\ Enumerates(s, I) /\ size \in Nat
      /\ \A m, n \in 1 .. size : m < n <=> s[m] < s[n]
  BY SortedEnumerates
<1>2. s \in Seq(I) /\ Len(s) = size /\ \A n \in 1 .. size : s[n] \in I
  BY <1>1, ElementOfSeq DEF Enumerates
<1> HIDE DEF s, size
<1>3. PICK m \in 1 .. size : s[m] = i
  BY <1>1, <1>2 DEF Enumerates
<1>4. 1 \in 1 .. size
  BY <1>1, <1>3
<1>5. ASSUME NEW k \in I PROVE s[1] <= k
  <2>1. PICK n \in 1 .. size : s[n] = k
    BY <1>1, <1>2 DEF Enumerates
  <2>2. n = 1 \/ 1 < n
    BY <1>1
  <2>3. s[1] = k \/ s[1] < k
    BY <1>1, <1>4, <2>1, <2>2
  <2>4. s[1] \in Int /\ k \in Int
    BY <1>2, <1>4
  <2> QED BY <2>3, <2>4
<1> QED BY <1>2, <1>4, <1>5

\* A member of A is found before b.
LEMMA CutIs ==
  ASSUME NEW s, NEW A, NEW b, In(s, b), Led(s, A, b)
  PROVE  \E i \in 1 .. Rank(s, b) : s[i] \in A
<1>1. Rank(s, b) \in DOMAIN s /\ s[Rank(s, b)] = b
  BY DEF In, Rank
<1> QED BY <1>1 DEF Led

\* The chunks of a's document.
DocOf(a) == {c \in Chunks : SourceOf[c] = SourceOf[a]}

\* Grouped, the best chunk of a's document is before b where a was.
LEMMA GroupingLed ==
  ASSUME NEW s \in Seq(Chunks), NEW a \in Chunks, NEW b \in Chunks, Led(s, {a}, b)
  PROVE  Led(GroupedBy(s), DocOf(a), b)
<1> DEFINE I == {i \in DOMAIN s : \A k \in 1 .. i - 1 : SourceOf[s[k]] # SourceOf[s[i]]}
<1>1. DOMAIN s = 1 .. Len(s) /\ Len(s) \in Nat /\ \A i \in 1 .. Len(s) : s[i] \in Chunks
  BY LenProperties, ElementOfSeq
<1>2. ASSUME NEW k \in I, s[k] = b
      PROVE  \E i \in I : i <= k /\ s[i] \in DocOf(a)
  <2>0. k \in DOMAIN s
    OBVIOUS
  <2>1. PICK i \in 1 .. k : s[i] \in {a}
    BY <1>2, <2>0 DEF Led
  <2> DEFINE J == {j \in 1 .. i : SourceOf[s[j]] = SourceOf[a]}
  <2>2. J \in SUBSET Int /\ IsFiniteSet(J) /\ i \in J
    <3>1. IsFiniteSet(1 .. i) /\ J \in SUBSET (1 .. i) /\ i \in Int
      BY <1>1, <2>0, <2>1, FS_Interval
    <3>2. IsFiniteSet(J)
      BY <3>1, FS_Subset
    <3> QED BY <1>1, <2>0, <2>1, <3>1, <3>2
  <2>3. PICK j \in J : \A m \in J : j <= m
    <3> HIDE DEF J
    <3> QED BY <2>2, LeastOf
  <2>4. j \in 1 .. i /\ j \in 1 .. Len(s) /\ j <= k /\ SourceOf[s[j]] = SourceOf[a]
    BY <1>1, <2>0, <2>1, <2>3
  <2>5. \A m \in 1 .. j - 1 : SourceOf[s[m]] # SourceOf[s[j]]
    BY <1>1, <2>0, <2>1, <2>3, <2>4
  <2> QED BY <1>1, <2>4, <2>5 DEF DocOf
<1>3. I \in SUBSET DOMAIN s
  OBVIOUS
<1>4. GroupedBy(s) = Picked(s, I)
  BY DEF GroupedBy
<1> HIDE DEF I
<1> QED BY <1>2, <1>3, <1>4, PickedLed
\* Grouping and suppression leave chunks.
LEMMA GroupedType ==
  ASSUME NEW s \in Seq(Chunks)
  PROVE  GroupedBy(s) \in Seq(Chunks)
<1> DEFINE I == {i \in DOMAIN s : \A k \in 1 .. i - 1 : SourceOf[s[k]] # SourceOf[s[i]]}
<1>1. I \in SUBSET DOMAIN s /\ GroupedBy(s) = Picked(s, I)
  BY DEF GroupedBy
<1> HIDE DEF I
<1> QED BY <1>1, PickedIs

\* So it is where tails go, unless b's document is one of those with a hit and a's is not.
LEMMA TailsLed ==
  ASSUME NEW s \in Seq(Chunks), NEW a \in Chunks, NEW b \in Chunks, Led(s, {a}, b), NEW n \in Nat,
         SourceOf[a] \in Literal(s) \/ SourceOf[b] \notin Literal(s)
  PROVE  Led(Untailed(s, n), DocOf(a), b)
<1> DEFINE g == GroupedBy(s)
           I == {i \in DOMAIN g : i <= n \/ SourceOf[g[i]] \in Literal(s)}
<1>1. g \in Seq(Chunks) /\ Led(g, DocOf(a), b)
  BY GroupedType, GroupingLed
<1> HIDE DEF g
<1>2. DOMAIN g = 1 .. Len(g) /\ Len(g) \in Nat
  BY <1>1, LenProperties
<1>3. ASSUME NEW k \in I, g[k] = b
      PROVE  \E i \in I : i <= k /\ g[i] \in DocOf(a)
  <2>1. k \in DOMAIN g /\ (k <= n \/ SourceOf[b] \in Literal(s))
    BY <1>3
  <2>2. PICK i \in 1 .. k : g[i] \in DocOf(a)
    BY <1>1, <1>3, <2>1 DEF Led
  <2>3. i \in DOMAIN g /\ i <= k /\ SourceOf[g[i]] = SourceOf[a]
    BY <1>2, <2>1, <2>2 DEF DocOf
  <2>4. i \in I
    <3>1. CASE SourceOf[a] \in Literal(s)
      BY <2>3, <3>1
    <3>2. CASE SourceOf[a] \notin Literal(s)
      <4>1. k <= n
        BY <2>1, <3>2
      <4> QED BY <1>2, <2>1, <2>3, <4>1
    <3> QED BY <3>1, <3>2
  <2> QED BY <2>2, <2>3, <2>4
<1>4. I \in SUBSET DOMAIN g /\ Untailed(s, n) = Picked(g, I)
  BY DEF Untailed, g
<1> HIDE DEF I
<1> QED BY <1>1, <1>3, <1>4, PickedLed

\* The suppression leaves chunks.
LEMMA UntailedType ==
  ASSUME NEW s \in Seq(Chunks), NEW n
  PROVE  Untailed(s, n) \in Seq(Chunks)
<1> DEFINE g == GroupedBy(s)
           I == {i \in DOMAIN g : i <= n \/ SourceOf[g[i]] \in Literal(s)}
<1>1. I \in SUBSET DOMAIN g /\ Untailed(s, n) = Picked(g, I) /\ g \in Seq(Chunks)
  BY GroupedType DEF Untailed
<1> HIDE DEF I, g
<1> QED BY <1>1, PickedIs

\* What may stand before b for a.
For(a) == IF search.grouped THEN DocOf(a) ELSE {a}

\* An answer is made of what was ranked and is no longer than asked for.
LEMMA AnswersType ==
  ASSUME NEW s \in Seq(Chunks), NEW ans \in Answers(s), search.grouped \in BOOLEAN
  PROVE  ans \in Seq(Chunks) /\ Len(ans) <= TopK
<1>1. TopK \in Nat
  BY RetrievalAssumption
<1>2. PICK r \in Seq(Chunks) : ans = First(r, TopK)
  <2>1. CASE ~search.grouped
    BY <2>1 DEF Answers
  <2>2. CASE search.grouped /\ search.tails /\ Literal(s) # {}
    <3>1. PICK n \in 0 .. Len(s) : ans = First(Untailed(s, n), TopK)
      BY <2>2 DEF Answers
    <3> QED BY <3>1, UntailedType
  <2>3. CASE search.grouped /\ ~(search.tails /\ Literal(s) # {})
    BY <2>3, GroupedType DEF Answers
  <2> QED BY <2>1, <2>2, <2>3
<1> QED BY <1>1, <1>2, FirstLed

\* What a ranking puts before b is before b in its answer, but where tails are spared.
LEMMA AnswersLed ==
  ASSUME NEW s \in Seq(Chunks), NEW ans \in Answers(s), search.grouped \in BOOLEAN,
         NEW a \in Chunks, NEW b \in Chunks, Led(s, {a}, b),
         search.grouped /\ search.tails
           => SourceOf[a] \in Literal(s) \/ SourceOf[b] \notin Literal(s)
  PROVE  Led(ans, For(a), b)
<1>1. TopK \in Nat
  BY RetrievalAssumption
<1>2. PICK r \in Seq(Chunks) : ans = First(r, TopK) /\ Led(r, For(a), b)
  <2>1. CASE ~search.grouped
    BY <2>1 DEF Answers, For
  <2>2. CASE search.grouped /\ search.tails /\ Literal(s) # {}
    <3>1. PICK n \in 0 .. Len(s) : ans = First(Untailed(s, n), TopK)
      BY <2>2 DEF Answers
    <3>2. n \in Nat
      BY LenProperties
    <3> QED BY <2>2, <3>1, <3>2, UntailedType, TailsLed DEF For
  <2>3. CASE search.grouped /\ ~(search.tails /\ Literal(s) # {})
    BY <2>3, GroupedType, GroupingLed DEF Answers, For
  <2> QED BY <2>1, <2>2, <2>3
<1> QED BY <1>1, <1>2, FirstLed

-----------------------------------------------------------------------------
\* No two chunks are equally far.
\* Distance puts any two chunks in an order.
LEMMA NearerOrders ==
  ASSUME near \in Nearness
  PROVE  /\ Orders(Nearer, Chunks)
         /\ \A c, d \in Chunks : <<c, d>> \in Nearer <=> near[c] < near[d]
<1>1. \A c, d \in Chunks : <<c, d>> \in Nearer <=> near[c] < near[d]
  BY DEF Nearer
<1>2. /\ \A c \in Chunks : near[c] \in Int
      /\ \A c, d \in Chunks : near[c] = near[d] => c = d
  BY RetrievalAssumption
<1> QED BY <1>1, <1>2 DEF Orders

\* So does the number of the row.
LEMMA RowOrders ==
  /\ Orders(ByRow, Chunks)
  /\ \A c, d \in Chunks : <<c, d>> \in ByRow <=> c < d
<1>1. \A c, d \in Chunks : <<c, d>> \in ByRow <=> c < d
  BY DEF ByRow
<1>2. \A c \in Chunks : c \in Int
  BY RetrievalAssumption
<1> QED BY <1>1, <1>2 DEF Orders

\* Fractions compare as numbers do.
Fraction == [num : Int, den : Nat \ {0}]

\* The order of fractions: no fraction is greater than itself, and it is a weak order.
LEMMA GreaterIs ==
  ASSUME NEW p \in Fraction, NEW q \in Fraction
  PROVE  /\ Greater(p, q) => ~Greater(q, p)
         /\ ~Greater(p, p)
         /\ \A r \in Fraction : ~Greater(q, p) /\ ~Greater(r, q) =>
              /\ ~Greater(r, p)
              /\ Greater(p, q) \/ Greater(q, r) => Greater(p, r)
<1>1. /\ p.num \in Int /\ p.den \in Nat \ {0}
      /\ q.num \in Int /\ q.den \in Nat \ {0}
  BY DEF Fraction
<1> DEFINE pq == p.num * q.den
           qp == q.num * p.den
<1>2. pq \in Int /\ qp \in Int
  BY <1>1
<1>3. (Greater(p, q) <=> pq > qp) /\ (Greater(q, p) <=> qp > pq)
  BY DEF Greater
<1>4. ~Greater(p, p)
  <2> DEFINE pp == p.num * p.den
  <2>1. pp \in Int /\ (Greater(p, p) <=> pp > pp)
    BY <1>1 DEF Greater
  <2> HIDE DEF pp
  <2> QED BY <2>1
<1>5. ASSUME NEW r \in Fraction, ~Greater(q, p), ~Greater(r, q)
      PROVE  ~Greater(r, p) /\ (Greater(p, q) \/ Greater(q, r) => Greater(p, r))
  <2> DEFINE qr == q.num * r.den
             rq == r.num * q.den
             pr == p.num * r.den
             rp == r.num * p.den
  <2>1. r.num \in Int /\ r.den \in Nat \ {0}
    BY DEF Fraction
  <2>2. qr \in Int /\ rq \in Int /\ pr \in Int /\ rp \in Int
    BY <1>1, <2>1
  <2>3. /\ Greater(q, r) <=> qr > rq
        /\ Greater(r, q) <=> rq > qr
        /\ Greater(p, r) <=> pr > rp
        /\ Greater(r, p) <=> rp > pr
    BY DEF Greater
  <2>4. pq >= qp /\ qr >= rq
    <3> HIDE DEF pq, qp, qr, rq, pr, rp
    <3> QED BY <1>2, <1>3, <1>5, <2>2, <2>3
  <2>5. pr >= rp /\ (pq > qp \/ qr > rq => pr > rp)
    BY <1>1, <2>1, <2>4, CrossTransitive
  <2> HIDE DEF pq, qp, qr, rq, pr, rp
  <2> QED BY <1>3, <2>2, <2>3, <2>5
<1> HIDE DEF pq, qp
<1> QED BY <1>2, <1>3, <1>4, <1>5

\* The score orders the chunks where the tie-break does.
LEMMA ScoreOrders ==
  ASSUME NEW score \in [Chunks -> Fraction], NEW tie, Orders(tie, Chunks)
  PROVE  /\ Orders(ByScore(score, tie), Chunks)
         /\ \A c, d \in Chunks :
              Greater(score[c], score[d]) => <<c, d>> \in ByScore(score, tie)
<1> DEFINE R == ByScore(score, tie)
<1>1. ASSUME NEW c \in Chunks, NEW d \in Chunks
      PROVE  <<c, d>> \in R <=> \/ Greater(score[c], score[d])
                                \/ ~Greater(score[d], score[c]) /\ <<c, d>> \in tie
  BY DEF ByScore
<1> HIDE DEF R
<1>2. \A c \in Chunks : score[c] \in Fraction
  OBVIOUS
<1>3. \A c \in Chunks : <<c, c>> \notin R
  BY <1>1, <1>2, GreaterIs DEF Orders
<1>4. ASSUME NEW c \in Chunks, NEW d \in Chunks, NEW e \in Chunks, <<c, d>> \in R, <<d, e>> \in R
      PROVE  <<c, e>> \in R
  <2>1. /\ \/ Greater(score[c], score[d])
           \/ ~Greater(score[d], score[c]) /\ <<c, d>> \in tie
        /\ \/ Greater(score[d], score[e])
           \/ ~Greater(score[e], score[d]) /\ <<d, e>> \in tie
    BY <1>1, <1>4
  <2>2. ~Greater(score[d], score[c]) /\ ~Greater(score[e], score[d])
    BY <1>2, <2>1, GreaterIs
  <2>3. /\ ~Greater(score[e], score[c])
        /\ Greater(score[c], score[d]) \/ Greater(score[d], score[e])
             => Greater(score[c], score[e])
    BY <1>2, <2>2, GreaterIs
  <2>4. <<c, d>> \in tie /\ <<d, e>> \in tie => <<c, e>> \in tie
    BY DEF Orders
  <2> QED BY <1>1, <2>1, <2>3, <2>4
<1>5. ASSUME NEW c \in Chunks, NEW d \in Chunks, c # d
      PROVE  <<c, d>> \in R \/ <<d, c>> \in R
  <2>1. <<c, d>> \in tie \/ <<d, c>> \in tie
    BY <1>5 DEF Orders
  <2> QED BY <1>1, <2>1
<1> QED BY <1>1, <1>3, <1>4, <1>5 DEF Orders, R

\* The documents of some chunks can be counted.
LEMMA SourcesCounted ==
  ASSUME NEW S \in SUBSET Chunks
  PROVE  IsFiniteSet(Sources(S)) /\ Cardinality(Sources(S)) \in Nat
<1> DEFINE f == [c \in S |-> SourceOf[c]]
<1>1. f \in Surjection(S, Sources(S))
  BY DEF Surjection, Sources
<1>2. IsFiniteSet(S)
  BY RetrievalAssumption, FS_Subset
<1> HIDE DEF f
<1>3. IsFiniteSet(Sources(S))
  BY <1>1, <1>2, FS_Surjection
<1> QED BY <1>3, FS_CardinalityType

-----------------------------------------------------------------------------
\* The states of a search.
Places == {"idle", "gate", "query", "dense", "total", "df", "lexical", "hydrate",
           "answered", "failed", "unavailable"}
SearchStates ==
  [at : Places, source : {"lancedb", "postgres"}, mode : Modes, grouped : BOOLEAN,
   tails : BOOLEAN, alpha : 0 .. 2, engine : Modes \cup {"lancedb", "vector"},
   dense : Seq(Chunks), total : Nat, df : {0} \cup [QueryTerms -> Int],
   lexical : Seq(Chunks), answer : Seq(Chunks), quiet : BOOLEAN]

\* How far the fusion is, and that what it has read is what the rows are, if they stay.
RetrievalInv ==
  /\ near \in Nearness /\ terms \in [Chunks -> SUBSET QueryTerms]
  /\ chunks \in SUBSET Chunks /\ search \in SearchStates /\ Len(search.answer) <= TopK
  /\ search.at \in {"dense", "total", "df", "lexical", "hydrate"} => search.engine = "fusion"
  /\ search.at = "query" => search.engine # "fusion"
  /\ search.at = "hydrate" => search.df \in [QueryTerms -> Int]
  /\ search.at = "lexical" => search.df \in [QueryTerms -> Int]
  /\ \A c \in Chunks : In(search.lexical, c) => terms[c] # {}
  /\ search.quiet /\ search.at \in {"total", "df", "lexical", "hydrate"} =>
       search.dense = ByDistance(chunks)
  /\ QuietAnswerIsBest

\* Sets of chunks are finite.
LEMMA ChunksFinite ==
  ASSUME NEW S \in SUBSET Chunks
  PROVE  IsFiniteSet(S) /\ Cardinality(S) \in Nat
BY RetrievalAssumption, FS_Subset, FS_CardinalityType

\* The dense ranking has every row once, the nearer first.
LEMMA ByDistanceIs ==
  ASSUME RetrievalInv
  PROVE  /\ ByDistance(chunks) \in Seq(Chunks) /\ Enumerates(ByDistance(chunks), chunks)
         /\ \A i, k \in 1 .. Cardinality(chunks) :
              i < k <=> near[ByDistance(chunks)[i]] < near[ByDistance(chunks)[k]]
<1> DEFINE s == Ranked(chunks, Nearer)
           size == Cardinality(chunks)
<1>1. /\ near \in Nearness /\ chunks \in SUBSET Chunks
      /\ IsFiniteSet(chunks) /\ size \in Nat
  BY ChunksFinite DEF RetrievalInv
<1>2. /\ Orders(Nearer, chunks)
      /\ \A c, d \in Chunks : <<c, d>> \in Nearer <=> near[c] < near[d]
  BY <1>1, NearerOrders, FewerOrdered
<1>3. Enumerates(s, chunks) /\ \A i, k \in 1 .. size : i < k <=> <<s[i], s[k]>> \in Nearer
  BY <1>1, <1>2, RankedEnumerates
<1> HIDE DEF s
<1>4. s \in Seq(chunks) /\ Len(s) = size
  BY <1>3 DEF Enumerates
<1>5. s \in Seq(Chunks) /\ \A i \in 1 .. size : s[i] \in Chunks
  <2>1. \A i \in 1 .. size : s[i] \in chunks
    BY <1>4, ElementOfSeq
  <2> QED BY <1>1, <1>4, <2>1
<1> HIDE DEF size
<1>6. \A i, k \in 1 .. size : i < k <=> near[s[i]] < near[s[k]]
  BY <1>2, <1>3, <1>5
<1> QED BY <1>3, <1>5, <1>6 DEF ByDistance, s, size

\* The text ranking puts any two chunks in an order.
LEMMA StrongerOrders ==
  ASSUME RetrievalInv, search.at = "lexical"
  PROVE  Orders(Stronger, Chunks)
<1>1. \A c \in Chunks : c \in Int
  BY RetrievalAssumption
<1>2. \A c \in Chunks : Full(c) \in Int
  BY DEF Full
<1>3. ASSUME NEW c \in Chunks
      PROVE  Rarity(c) \in Int
  <2>1. terms[c] \in SUBSET QueryTerms /\ search.df \in [QueryTerms -> Int]
    BY DEF RetrievalInv
  <2>2. Cardinality({}) = 0
    BY FS_EmptySet
  <2>3. CASE Cardinality(terms[c]) = 1
    <3>1. terms[c] # {}
      BY <2>2, <2>3
    <3>2. (CHOOSE t \in terms[c] : TRUE) \in QueryTerms
      BY <2>1, <3>1
    <3> QED BY <2>1, <2>3, <3>2 DEF Rarity
  <2>4. CASE Cardinality(terms[c]) # 1
    BY <2>4 DEF Rarity
  <2> QED BY <2>3, <2>4
<1>4. ASSUME NEW c \in Chunks, NEW d \in Chunks
      PROVE  <<c, d>> \in Stronger <=>
               \/ Full(c) > Full(d)
               \/ Full(c) = Full(d) /\ Rarity(c) > Rarity(d)
               \/ Full(c) = Full(d) /\ Rarity(c) = Rarity(d) /\ c < d
  BY RowOrders DEF Stronger
<1> QED BY <1>1, <1>2, <1>3, <1>4 DEF Orders
\* A chunk that matches scores at least ten, one that does not at most one.
LEMMA CombinedIs ==
  ASSUME RetrievalInv, NEW strength, NEW c \in Chunks
  PROVE  LET score == Combined(c, strength) IN
         /\ score \in Fraction
         /\ Matches(c) => score.num >= 10 * score.den
         /\ ~Matches(c) => score.num <= score.den
<1> DEFINE V == {d \in chunks : near[d] < near[c]}
           T == {strength[d] : d \in {e \in chunks : Matches(e)}}
                \cap {i \in 1 .. 2 : i > strength[c]}
           v == 1 + Cardinality(V)
           t == 1 + Cardinality(T)
           vt == v * t
           textPart == IF Matches(c) THEN (2 - search.alpha) * v ELSE 0
           score == Combined(c, strength)
<1>1. v \in Nat \ {0}
  <2>1. V \in SUBSET Chunks
    BY DEF RetrievalInv
  <2> HIDE DEF V
  <2> QED BY <2>1, ChunksFinite
<1>2. t \in Nat \ {0}
  <2>1. T \in SUBSET (1 .. 2)
    OBVIOUS
  <2> HIDE DEF T
  <2>2. IsFiniteSet(T)
    <3>1. PICK two \in Nat : two = 2
      OBVIOUS
    <3>2. 1 \in Int /\ two \in Int
      BY <3>1
    <3>3. IsFiniteSet(1 .. two)
      BY <3>2, FS_Interval
    <3>4. T \in SUBSET (1 .. two)
      BY <2>1, <3>1
    <3> QED BY <3>3, <3>4, FS_Subset
  <2> QED BY <2>2, FS_CardinalityType
<1>3. score = [num |-> Boost(c) * 2 * v * t + search.alpha * t + textPart, den |-> 2 * v * t]
  BY DEF Combined
<1> HIDE DEF V, T, v, t, score
<1>4. vt \in Nat \ {0} /\ t <= vt
  <2>1. vt \in Nat \ {0}
    BY <1>1, <1>2, SMT
  <2>2. 1 * t <= v * t
    BY <1>1, <1>2, Cancel
  <2> QED BY <1>2, <2>1, <2>2
<1>5. 2 * v * t = 2 * vt /\ 10 * 2 * v * t = 20 * vt /\ 0 * 2 * v * t = 0
  BY <1>1, <1>2, SMT
<1>6. PICK alpha \in {0, 1, 2} : search.alpha = alpha
  BY DEF RetrievalInv, SearchStates
<1>7. CASE Matches(c)
  <2>1. score = [num |-> 20 * vt + alpha * t + (2 - alpha) * v, den |-> 2 * vt]
    BY <1>3, <1>5, <1>6, <1>7 DEF Boost
  <2> HIDE DEF vt
  <2>2. /\ score.num \in Int /\ score.den \in Nat \ {0}
        /\ score.num >= 10 * score.den
    BY <1>1, <1>2, <1>4, <2>1
  <2>3. score \in Fraction
    BY <2>1, <2>2 DEF Fraction
  <2> QED BY <1>7, <2>2, <2>3 DEF score
<1>8. CASE ~Matches(c)
  <2>1. score = [num |-> 0 + alpha * t + 0, den |-> 2 * vt]
    BY <1>3, <1>5, <1>6, <1>8 DEF Boost
  <2> HIDE DEF vt
  <2>2. /\ score.num \in Int /\ score.den \in Nat \ {0}
        /\ score.num <= score.den
    BY <1>2, <1>4, <2>1
  <2>3. score \in Fraction
    BY <2>1, <2>2 DEF Fraction
  <2> QED BY <1>8, <2>2, <2>3 DEF score
<1> QED BY <1>7, <1>8

\* The hybrid ranking has every row, a match before what is none.
LEMMA HybridLed ==
  ASSUME RetrievalInv, NEW strength
  PROVE  /\ Enumerates(HybridRanking(strength), chunks)
         /\ HybridRanking(strength) \in Seq(Chunks)
         /\ \A a, b \in chunks :
              Matches(a) /\ ~Matches(b) => Led(HybridRanking(strength), {a}, b)
<1> DEFINE score == [c \in Chunks |-> Combined(c, strength)]
           R == ByScore(score, Nearer)
<1>1. near \in Nearness /\ chunks \in SUBSET Chunks /\ IsFiniteSet(chunks)
  BY ChunksFinite DEF RetrievalInv
<1>2. score \in [Chunks -> Fraction] /\ \A c \in Chunks : score[c] = Combined(c, strength)
  BY CombinedIs
<1>3. HybridRanking(strength) = Ranked(chunks, R)
  BY DEF HybridRanking
<1> HIDE DEF score
<1>4. /\ Orders(R, Chunks) /\ Orders(R, chunks)
      /\ \A c, d \in Chunks : Greater(score[c], score[d]) => <<c, d>> \in R
  BY <1>1, <1>2, NearerOrders, ScoreOrders, FewerOrdered
<1> HIDE DEF R
<1>5. Enumerates(Ranked(chunks, R), chunks)
  BY <1>1, <1>4, RankedEnumerates
<1>6. Ranked(chunks, R) \in Seq(Chunks)
  <2> DEFINE s == Ranked(chunks, R)
  <2>1. s \in Seq(chunks)
    BY <1>5 DEF Enumerates
  <2> HIDE DEF s
  <2>2. \A i \in 1 .. Len(s) : s[i] \in Chunks
    BY <1>1, <2>1, ElementOfSeq
  <2>3. s \in Seq(Chunks)
    BY <1>1, <2>1
  <2> QED BY <2>3 DEF s
<1>7. ASSUME NEW a \in chunks, NEW b \in chunks, Matches(a), ~Matches(b)
      PROVE  Led(Ranked(chunks, R), {a}, b)
  <2>1. a \in Chunks /\ b \in Chunks
    BY <1>1
  <2>2. /\ score[a] \in Fraction /\ score[a].num >= 10 * score[a].den
        /\ score[b] \in Fraction /\ score[b].num <= score[b].den
    BY <1>2, <1>7, <2>1, CombinedIs
  <2>3. PICK n \in Int, x \in Nat \ {0} : n = score[a].num /\ x = score[a].den
    BY <2>2 DEF Fraction
  <2>4. PICK m \in Int, y \in Nat \ {0} : m = score[b].num /\ y = score[b].den
    BY <2>2 DEF Fraction
  <2>5. n * y > m * x
    <3>1. n * y >= (10 * x) * y
      BY <2>2, <2>3, Cancel
    <3>2. y * x >= m * x
      BY <2>2, <2>4, Cancel
    <3> DEFINE xy == x * y
    <3>3. xy \in Nat \ {0} /\ (10 * x) * y = 10 * xy /\ y * x = xy
      BY SMT
    <3> DEFINE ny == n * y
               mx == m * x
    <3>4. ny >= 10 * xy /\ xy >= mx /\ ny \in Int /\ mx \in Int
      BY <3>1, <3>2, <3>3
    <3>5. ny > mx
      <4> HIDE DEF ny, mx, xy
      <4> QED BY <3>3, <3>4
    <3> QED BY <3>5
  <2>6. Greater(score[a], score[b])
    BY <2>3, <2>4, <2>5 DEF Greater
  <2> QED BY <1>1, <1>4, <2>1, <2>6, RankedLed
<1> QED BY <1>3, <1>5, <1>6, <1>7
\* A chunk's place in a ranking.
LEMMA RankIs ==
  ASSUME NEW s \in Seq(Chunks), NEW c, In(s, c)
  PROVE  Rank(s, c) \in 1 .. Len(s) /\ Rank(s, c) \in Nat \ {0} /\ s[Rank(s, c)] = c
<1>1. DOMAIN s = 1 .. Len(s) /\ Len(s) \in Nat
  BY LenProperties
<1>2. Rank(s, c) \in DOMAIN s /\ s[Rank(s, c)] = c
  BY DEF In, Rank
<1> QED BY <1>1, <1>2

\* A ranking's part of the score: its weight over the place, or nothing.
LEMMA PartIs ==
  ASSUME NEW s \in Seq(Chunks), NEW weight \in {0, 1, 2}, NEW c
  PROVE  /\ Part(s, c, weight) \in Fraction
         /\ In(s, c) => Part(s, c, weight) = [num |-> weight, den |-> 60 + Rank(s, c)]
         /\ ~In(s, c) => Part(s, c, weight) = [num |-> 0, den |-> 1]
BY RankIs DEF Part, Fraction, RrfK

\* A chunk that a ranking puts before another gets no less from it.
LEMMA PartsCompare ==
  ASSUME NEW s \in Seq(Chunks), NEW weight \in {0, 1, 2}, NEW a, NEW b,
         In(s, a), In(s, b) => Rank(s, a) < Rank(s, b)
  PROVE  LET p == Part(s, a, weight)
             q == Part(s, b, weight)
         IN /\ p.num * q.den >= q.num * p.den
            /\ weight > 0 => p.num * q.den > q.num * p.den
<1>1. Part(s, a, weight) = [num |-> weight, den |-> 60 + Rank(s, a)] /\ Rank(s, a) \in Nat \ {0}
  BY PartIs, RankIs
<1>2. PICK x \in Nat \ {0} : x = Rank(s, a)
  BY <1>1
<1>3. CASE In(s, b)
  <2>1. Part(s, b, weight) = [num |-> weight, den |-> 60 + Rank(s, b)] /\ Rank(s, b) \in Nat \ {0}
    BY <1>3, PartIs, RankIs
  <2>2. PICK y \in Nat \ {0} : y = Rank(s, b)
    BY <2>1
  <2>3. x < y
    BY <1>2, <1>3, <2>2
  <2>4. weight * (60 + y) >= weight * (60 + x)
        /\ (weight > 0 => weight * (60 + y) > weight * (60 + x))
    BY <2>3
  <2> QED BY <1>1, <1>2, <2>1, <2>2, <2>4
<1>4. CASE ~In(s, b)
  <2>1. Part(s, b, weight) = [num |-> 0, den |-> 1]
    BY <1>4, PartIs
  <2>2. weight * 1 >= 0 * (60 + x) /\ (weight > 0 => weight * 1 > 0 * (60 + x))
    OBVIOUS
  <2> QED BY <1>1, <1>2, <2>1, <2>2
<1> QED BY <1>3, <1>4

\* The fused score is a fraction.
LEMMA FusedIs ==
  ASSUME search \in SearchStates, NEW c
  PROVE  Fused(c) \in Fraction
<1>1. PICK weight \in {0, 1, 2} : weight = search.alpha
  BY DEF SearchStates
<1>2. /\ 2 - search.alpha \in {0, 1, 2}
      /\ search.dense \in Seq(Chunks) /\ search.lexical \in Seq(Chunks)
  BY <1>1 DEF SearchStates
<1> DEFINE d == Part(search.dense, c, search.alpha)
           l == Part(search.lexical, c, 2 - search.alpha)
<1>3. d \in Fraction /\ l \in Fraction
  BY <1>1, <1>2, PartIs
<1>4. Fused(c) = [num |-> d.num * l.den + l.num * d.den, den |-> d.den * l.den]
  BY DEF Fused
<1> HIDE DEF d, l
<1>5. /\ d.num \in Int /\ d.den \in Nat \ {0}
      /\ l.num \in Int /\ l.den \in Nat \ {0}
  BY <1>3 DEF Fraction
<1>6. d.num * l.den + l.num * d.den \in Int /\ d.den * l.den \in Nat \ {0}
  BY <1>5, SMT
<1> QED BY <1>4, <1>6 DEF Fraction

\* The fused ranking has every chunk that was read.
LEMMA FusedRankingIs ==
  ASSUME search \in SearchStates
  PROVE  /\ FusedRanking \in Seq(Chunks)
         /\ \A c \in Chunks : In(search.dense, c) => In(FusedRanking, c)
         /\ \A a, b \in Chunks :
              In(search.dense, a) /\ Greater(Fused(a), Fused(b)) => Led(FusedRanking, {a}, b)
<1> DEFINE score == [c \in Chunks |-> Fused(c)]
           S == {c \in Chunks : In(search.dense, c) \/ In(search.lexical, c)}
           R == ByScore(score, ByRow)
           s == Ranked(S, R)
<1>1. S \in SUBSET Chunks
  OBVIOUS
<1>2. score \in [Chunks -> Fraction] /\ \A c \in Chunks : score[c] = Fused(c)
  BY FusedIs
<1>3. FusedRanking = s
  BY DEF FusedRanking
<1>4. \A c \in Chunks : In(search.dense, c) => c \in S
  OBVIOUS
<1> HIDE DEF score, S
<1>5. /\ Orders(R, Chunks) /\ Orders(R, S) /\ IsFiniteSet(S)
      /\ \A c, d \in Chunks : Greater(score[c], score[d]) => <<c, d>> \in R
  BY <1>1, <1>2, RowOrders, ScoreOrders, FewerOrdered, ChunksFinite
<1> HIDE DEF R
<1>6. Enumerates(s, S)
  BY <1>5, RankedEnumerates
<1>7. \A a, b \in Chunks : In(search.dense, a) /\ Greater(Fused(a), Fused(b)) => Led(s, {a}, b)
  BY <1>2, <1>4, <1>5, RankedLed
<1> HIDE DEF s
<1>8. s \in Seq(S) /\ \A c \in S : \E i \in 1 .. Len(s) : s[i] = c
  BY <1>6 DEF Enumerates
<1>9. s \in Seq(Chunks) /\ DOMAIN s = 1 .. Len(s)
  <2>1. \A i \in 1 .. Len(s) : s[i] \in Chunks
    BY <1>1, <1>8, ElementOfSeq
  <2> QED BY <1>8, <2>1, LenProperties
<1>10. \A c \in Chunks : In(search.dense, c) => In(s, c)
  BY <1>4, <1>8, <1>9 DEF In
<1> QED BY <1>3, <1>7, <1>9, <1>10

\* Nothing written meanwhile, what both rankings prefer gets the higher score.
LEMMA DominantScores ==
  ASSUME RetrievalInv, search.at = "hydrate", search.quiet,
         NEW a \in chunks, NEW b \in chunks, Dominates(a, b)
  PROVE  In(search.dense, a) /\ Greater(Fused(a), Fused(b))
<1> DEFINE dense == search.dense
           lexical == search.lexical
           n == search.alpha
           m == 2 - search.alpha
           da == Part(dense, a, n)
           db == Part(dense, b, n)
           la == Part(lexical, a, m)
           lb == Part(lexical, b, m)
<1>1. dense \in Seq(Chunks) /\ lexical \in Seq(Chunks) /\ a \in Chunks /\ b \in Chunks
  BY DEF RetrievalInv, SearchStates
<1>2. PICK weight \in {0, 1, 2} : weight = n
  BY DEF RetrievalInv, SearchStates
<1>3. n \in {0, 1, 2} /\ m \in {0, 1, 2} /\ (n > 0 \/ m > 0)
  BY <1>2
<1>4. dense = ByDistance(chunks)
  BY DEF RetrievalInv
<1>5. /\ Enumerates(dense, chunks)
      /\ \A i, k \in 1 .. Cardinality(chunks) : i < k <=> near[dense[i]] < near[dense[k]]
  BY <1>4, ByDistanceIs
<1> HIDE DEF dense, n, m
<1>6. In(dense, a) /\ In(dense, b)
  <2>1. DOMAIN dense = 1 .. Len(dense)
    BY <1>1, LenProperties
  <2> QED BY <1>5, <2>1 DEF Enumerates, In
<1>7. Rank(dense, a) < Rank(dense, b)
  <2>1. near[a] < near[b]
    BY DEF Dominates
  <2>2. /\ Rank(dense, a) \in 1 .. Len(dense) /\ dense[Rank(dense, a)] = a
        /\ Rank(dense, b) \in 1 .. Len(dense) /\ dense[Rank(dense, b)] = b
    BY <1>1, <1>6, RankIs
  <2> QED BY <1>5, <2>1, <2>2 DEF Enumerates
<1>8. /\ da.num * db.den >= db.num * da.den
      /\ n > 0 => da.num * db.den > db.num * da.den
  BY <1>1, <1>3, <1>6, <1>7, PartsCompare
<1>9. /\ la.num * lb.den >= lb.num * la.den
      /\ la.num * lb.den > lb.num * la.den \/ n > 0
  <2>1. CASE In(lexical, a) /\ (In(lexical, b) => Rank(lexical, a) < Rank(lexical, b))
    BY <1>1, <1>3, <2>1, PartsCompare
  <2>2. CASE terms[a] = {} /\ terms[b] = {} /\ search.alpha > 0
    <3>1. ~In(lexical, a) /\ ~In(lexical, b)
      BY <1>1, <2>2 DEF RetrievalInv
    <3>2. la = [num |-> 0, den |-> 1] /\ lb = [num |-> 0, den |-> 1]
      BY <1>1, <1>3, <3>1, PartIs
    <3> QED BY <2>2, <3>2 DEF n
  <2> QED BY <2>1, <2>2 DEF Dominates, lexical
<1>10. da \in Fraction /\ db \in Fraction /\ la \in Fraction /\ lb \in Fraction
  BY <1>1, <1>3, PartIs
<1>11. /\ Fused(a) = [num |-> da.num * la.den + la.num * da.den, den |-> da.den * la.den]
       /\ Fused(b) = [num |-> db.num * lb.den + lb.num * db.den, den |-> db.den * lb.den]
  BY DEF Fused, dense, lexical, n, m
<1> HIDE DEF da, db, la, lb
<1>12. /\ da.num \in Int /\ da.den \in Nat \ {0} /\ db.num \in Int /\ db.den \in Nat \ {0}
       /\ la.num \in Int /\ la.den \in Nat \ {0} /\ lb.num \in Int /\ lb.den \in Nat \ {0}
  BY <1>10 DEF Fraction
<1>13. da.num * db.den > db.num * da.den \/ la.num * lb.den > lb.num * la.den
  BY <1>8, <1>9
<1>14. (da.num * la.den + la.num * da.den) * (db.den * lb.den)
         > (db.num * lb.den + lb.num * db.den) * (da.den * la.den)
  BY <1>8, <1>9, <1>12, <1>13, CrossSum
<1> QED BY <1>6, <1>11, <1>14 DEF Greater, dense

-----------------------------------------------------------------------------
\* What a ranking of the rows must be for its answer to be the best there is.
Best(s) ==
  search.quiet => \A a, b \in chunks :
    /\ search.engine = "legacy" /\ Matches(a) /\ ~Matches(b) =>
         /\ Led(s, {a}, b)
         /\ SourceOf[a] \in Literal(s) \/ SourceOf[b] \notin Literal(s)
    /\ search.engine = "fusion" /\ Dominates(a, b) =>
         /\ Led(s, {a}, b)
         /\ search.grouped /\ search.tails =>
              \/ SourceOf[a] \in Literal(s)
              \/ SourceOf[b] \notin Literal(s)
              \/ Spared(a, b)

\* A search that answers from such a ranking answers the best there is.
LEMMA AnswerKeeps ==
  ASSUME RetrievalInv, NEW s \in Seq(Chunks), Best(s), Answer(s)
  PROVE  RetrievalInv'
<1>1. PICK ans \in Answers(s) : Proceed([search EXCEPT !.at = "answered", !.answer = ans])
  BY DEF Answer
<1>2. /\ search' = [search EXCEPT !.at = "answered", !.answer = ans]
      /\ UNCHANGED <<near, terms, chunks>>
  BY <1>1 DEF Proceed
<1>3. search.grouped \in BOOLEAN /\ search \in SearchStates /\ chunks \in SUBSET Chunks
  BY DEF RetrievalInv, SearchStates
<1>4. ans \in Seq(Chunks) /\ Len(ans) <= TopK
  BY <1>3, AnswersType
<1>5. /\ search' \in SearchStates /\ search'.answer = ans /\ search'.at = "answered"
      /\ search'.grouped = search.grouped /\ search'.tails = search.tails
      /\ search'.quiet = search.quiet /\ search'.engine = search.engine
      /\ search'.lexical = search.lexical /\ search'.alpha = search.alpha
  BY <1>2, <1>3, <1>4 DEF SearchStates, Places
<1>6. ASSUME NEW a \in chunks, NEW b \in chunks, In(ans, b), Led(ans, For(a), b)
      PROVE  Behind(a, b)'
  <2>1. PICK i \in 1 .. Rank(ans, b) : ans[i] \in For(a)
    BY <1>6, CutIs
  <2> QED BY <1>5, <2>1 DEF Behind, For, DocOf
<1>7. ASSUME search.quiet, NEW b \in chunks, In(ans, b), search.engine = "legacy",
             NEW a \in chunks, Matches(a), ~Matches(b)
      PROVE  Behind(a, b)'
  <2>1. Led(s, {a}, b) /\ (SourceOf[a] \in Literal(s) \/ SourceOf[b] \notin Literal(s))
    BY <1>7 DEF Best
  <2>2. Led(ans, For(a), b)
    BY <1>3, <2>1, AnswersLed
  <2> QED BY <1>6, <1>7, <2>2
<1>8. ASSUME search.quiet, NEW b \in chunks, In(ans, b), search.engine = "fusion",
             NEW a \in chunks, Dominates(a, b)
      PROVE  Behind(a, b)' \/ Spared(a, b)
  <2>1. /\ Led(s, {a}, b)
        /\ search.grouped /\ search.tails =>
             \/ SourceOf[a] \in Literal(s)
             \/ SourceOf[b] \notin Literal(s)
             \/ Spared(a, b)
    BY <1>8 DEF Best
  <2>2. CASE Spared(a, b)
    BY <2>2
  <2>3. CASE ~Spared(a, b)
    <3>1. Led(ans, For(a), b)
      BY <1>3, <2>1, <2>3, AnswersLed
    <3> QED BY <1>6, <1>8, <3>1
  <2> QED BY <2>2, <2>3
<1>9. /\ \A c : Matches(c)' <=> Matches(c)
      /\ \A a, b : Dominates(a, b)' <=> Dominates(a, b)
      /\ \A a, b : Spared(a, b)' <=> Spared(a, b)
  BY <1>2, <1>5 DEF Matches, Dominates, Spared
<1>10. QuietAnswerIsBest'
  BY <1>2, <1>5, <1>7, <1>8, <1>9 DEF QuietAnswerIsBest
<1> QED BY <1>2, <1>4, <1>5, <1>10 DEF RetrievalInv

\* Nothing has been asked.
LEMMA RetrievalInitially == RetrievalInit => RetrievalInv
<1> SUFFICES ASSUME RetrievalInit PROVE RetrievalInv
  OBVIOUS
<1>1. /\ near \in Nearness /\ terms \in [Chunks -> SUBSET QueryTerms]
      /\ chunks = Chunks /\ search = NoSearch
  BY DEF RetrievalInit
<1>2. <<>> \in Seq(Chunks) /\ Len(<<>>) = 0 /\ ~(\E i \in DOMAIN <<>> : TRUE)
  OBVIOUS
<1>3. search \in SearchStates /\ search.at = "idle" /\ search.lexical = <<>> /\ search.answer = <<>>
  BY <1>1, <1>2 DEF NoSearch, SearchStates, Places, Modes
<1>4. Len(search.answer) <= TopK
  BY <1>2, <1>3, RetrievalAssumption
<1>5. \A c : ~In(search.lexical, c)
  BY <1>2, <1>3 DEF In
<1> QED BY <1>1, <1>3, <1>4, <1>5 DEF RetrievalInv, QuietAnswerIsBest

\* A step of a search that is not its answer.
LEMMA ProceedKeeps ==
  ASSUME RetrievalInv, NEW s \in SearchStates, Proceed(s), s.at # "answered",
         Len(s.answer) <= TopK,
         s.at \in {"dense", "total", "df", "lexical", "hydrate"} => s.engine = "fusion",
         s.at = "query" => s.engine # "fusion",
         s.at \in {"lexical", "hydrate"} => s.df \in [QueryTerms -> Int],
         \A c \in Chunks : In(s.lexical, c) => terms[c] # {},
         s.quiet /\ s.at \in {"total", "df", "lexical", "hydrate"} =>
           s.dense = ByDistance(chunks)
  PROVE  RetrievalInv'
<1>1. search' = s /\ UNCHANGED <<near, terms, chunks>>
  BY DEF Proceed
<1>2. ByDistance(chunks)' = ByDistance(chunks)
  BY <1>1 DEF ByDistance, Nearer
<1>3. QuietAnswerIsBest'
  BY <1>1 DEF QuietAnswerIsBest
<1> QED BY <1>1, <1>2, <1>3 DEF RetrievalInv

\* A search is asked for.
LEMMA AskKeeps == ASSUME RetrievalInv, AskSearch PROVE RetrievalInv'
<1>1. PICK source \in {"lancedb", "postgres"}, mode \in Modes, alpha \in 0 .. 2,
           grouped \in BOOLEAN, tails \in BOOLEAN :
        Proceed([NoSearch EXCEPT !.at = "gate", !.source = source, !.mode = mode,
                                 !.grouped = grouped, !.tails = tails, !.alpha = alpha])
  BY DEF AskSearch
<1> DEFINE s == [NoSearch EXCEPT !.at = "gate", !.source = source, !.mode = mode,
                                 !.grouped = grouped, !.tails = tails, !.alpha = alpha]
<1>2. <<>> \in Seq(Chunks) /\ Len(<<>>) = 0 /\ ~(\E i \in DOMAIN <<>> : TRUE)
  OBVIOUS
<1>3. s \in SearchStates /\ s.at = "gate" /\ s.lexical = <<>> /\ s.answer = <<>>
  BY <1>2 DEF NoSearch, SearchStates, Places, Modes
<1>4. Proceed(s)
  BY <1>1
<1> HIDE DEF s
<1>5. Len(s.answer) <= TopK
  BY <1>2, <1>3, RetrievalAssumption
<1>6. \A c : ~In(s.lexical, c)
  BY <1>2, <1>3 DEF In
<1> QED BY <1>3, <1>4, <1>5, <1>6, ProceedKeeps

\* The engine is chosen; only the fusion goes by several statements.
LEMMA GateKeeps == ASSUME RetrievalInv, Gate PROVE RetrievalInv'
<1> DEFINE at == IF Engine = "lancedb" /\ ~lance.ready THEN "unavailable"
                 ELSE IF Engine = "fusion" THEN "dense" ELSE "query"
           s == [search EXCEPT !.engine = Engine, !.at = at]
<1>1. Proceed(s)
  BY DEF Gate
<1>2. search \in SearchStates
  BY DEF RetrievalInv
<1>3. Engine \in Modes \cup {"lancedb", "vector"}
  <2>1. search.mode \in Modes
    BY <1>2 DEF SearchStates
  <2> QED BY <2>1 DEF Engine
<1>4. /\ at \in {"unavailable", "dense", "query"}
      /\ at = "dense" => Engine = "fusion"
      /\ at = "query" => Engine # "fusion"
  OBVIOUS
<1> HIDE DEF at
<1>5. /\ s \in SearchStates /\ s.at = at /\ s.engine = Engine
      /\ s.lexical = search.lexical /\ s.answer = search.answer
  BY <1>2, <1>3, <1>4 DEF SearchStates, Places
<1> HIDE DEF s
<1> QED BY <1>1, <1>4, <1>5, ProceedKeeps DEF RetrievalInv
\* Rows are written and LanceDB changes: the search is not quiet any more.
LEMMA LibraryKeeps == ASSUME RetrievalInv, LibraryChanges PROVE RetrievalInv'
<1>1. /\ search.at # "answered" /\ search' = [search EXCEPT !.quiet = FALSE]
      /\ UNCHANGED <<near, terms>>
  BY DEF LibraryChanges, SearchEnded
<1>2. chunks' \in SUBSET Chunks
  BY DEF LibraryChanges, RetrievalInv
<1>3. search \in SearchStates
  BY DEF RetrievalInv
<1>4. /\ search' \in SearchStates /\ search'.quiet = FALSE /\ search'.at = search.at
      /\ search'.engine = search.engine /\ search'.df = search.df
      /\ search'.lexical = search.lexical /\ search'.answer = search.answer
  BY <1>1, <1>3 DEF SearchStates
<1>5. QuietAnswerIsBest'
  BY <1>4 DEF QuietAnswerIsBest
<1> QED BY <1>1, <1>2, <1>4, <1>5 DEF RetrievalInv

\* The search of vectors alone promises nothing about text.
LEMMA VectorKeeps == ASSUME RetrievalInv, VectorSearch PROVE RetrievalInv'
<1>1. search.engine = "vector"
  BY DEF VectorSearch
<1>2. PICK n \in 0 .. Cardinality(chunks) : Answer(First(ByDistance(chunks), n))
  BY DEF VectorSearch
<1>3. n \in Nat
  BY ChunksFinite DEF RetrievalInv
<1>4. First(ByDistance(chunks), n) \in Seq(Chunks)
  BY <1>3, ByDistanceIs, FirstLed
<1>5. Best(First(ByDistance(chunks), n))
  BY <1>1 DEF Best
<1> QED BY <1>2, <1>4, <1>5, AnswerKeeps

\* The hybrid search ranks every row, so a match is in its answer or cut off last.
LEMMA HybridKeeps == ASSUME RetrievalInv, HybridSearch PROVE RetrievalInv'
<1>1. search.engine = "legacy"
  BY DEF HybridSearch
<1>2. PICK strength \in Strengths : Answer(HybridRanking(strength))
  BY DEF HybridSearch
<1>3. PICK s : s = HybridRanking(strength)
  OBVIOUS
<1>4. /\ Enumerates(s, chunks) /\ s \in Seq(Chunks)
      /\ \A a, b \in chunks : Matches(a) /\ ~Matches(b) => Led(s, {a}, b)
  BY <1>3, HybridLed
<1>5. ASSUME NEW a \in chunks, Matches(a)
      PROVE  SourceOf[a] \in Literal(s)
  <2>1. In(s, a)
    <3>1. DOMAIN s = 1 .. Len(s)
      BY <1>4, LenProperties
    <3> QED BY <1>4, <3>1 DEF Enumerates, In
  <2>2. a \in Chunks
    BY DEF RetrievalInv
  <2> QED BY <1>5, <2>1, <2>2 DEF Literal, Sources
<1>6. Best(s)
  BY <1>1, <1>4, <1>5 DEF Best
<1> QED BY <1>2, <1>3, <1>4, <1>6, AnswerKeeps

\* The reranker and LanceDB promise nothing.
LEMMA FreeKeeps == ASSUME RetrievalInv, FreeRanking PROVE RetrievalInv'
<1>1. search.engine \in {"rerank", "lancedb"}
  BY DEF FreeRanking
<1>2. PICK S \in SUBSET chunks : \E s \in SetToSeqs(S) : Answer(s)
  BY DEF FreeRanking
<1>3. PICK s \in SetToSeqs(S) : Answer(s)
  BY <1>2
<1>4. S \in SUBSET Chunks
  BY DEF RetrievalInv
<1>5. Cardinality(S) \in Nat
  BY <1>4, ChunksFinite
<1>6. s \in [1 .. Cardinality(S) -> S]
  BY <1>3 DEF SetToSeqs
<1>7. s \in Seq(Chunks)
  BY <1>4, <1>5, <1>6
<1>8. Best(s)
  BY <1>1 DEF Best
<1> QED BY <1>3, <1>7, <1>8, AnswerKeeps

\* The dense ranking is read.
LEMMA DenseKeeps == ASSUME RetrievalInv, ReadDense PROVE RetrievalInv'
<1> DEFINE s == [search EXCEPT !.at = "total", !.dense = ByDistance(chunks)]
<1>1. Proceed(s) /\ search.at = "dense"
  BY DEF ReadDense
<1>2. search \in SearchStates /\ search.engine = "fusion"
  BY <1>1 DEF RetrievalInv
<1>3. /\ s \in SearchStates /\ s.at = "total" /\ s.engine = "fusion" /\ s.dense = ByDistance(chunks)
      /\ s.lexical = search.lexical /\ s.answer = search.answer
  BY <1>2, ByDistanceIs DEF SearchStates, Places
<1> HIDE DEF s
<1> QED BY <1>1, <1>3, ProceedKeeps DEF RetrievalInv

\* The documents are counted.
LEMMA TotalKeeps == ASSUME RetrievalInv, ReadTotal PROVE RetrievalInv'
<1> DEFINE s == [search EXCEPT !.at = "df", !.total = Cardinality(Sources(chunks))]
<1>1. Proceed(s) /\ search.at = "total"
  BY DEF ReadTotal
<1>2. search \in SearchStates /\ search.engine = "fusion" /\ chunks \in SUBSET Chunks
  BY <1>1 DEF RetrievalInv
<1>3. Cardinality(Sources(chunks)) \in Nat
  BY <1>2, SourcesCounted
<1>4. /\ s \in SearchStates /\ s.at = "df" /\ s.engine = "fusion" /\ s.dense = search.dense
      /\ s.lexical = search.lexical /\ s.answer = search.answer /\ s.quiet = search.quiet
  BY <1>2, <1>3 DEF SearchStates, Places
<1> HIDE DEF s
<1> QED BY <1>1, <1>4, ProceedKeeps DEF RetrievalInv

\* The documents of each term are counted.
LEMMA FrequenciesKeep == ASSUME RetrievalInv, ReadFrequencies PROVE RetrievalInv'
<1> DEFINE at == IF \E t \in QueryTerms : Frequency(t) > search.total THEN "failed" ELSE "lexical"
           df == [t \in QueryTerms |-> search.total - Frequency(t) + 1]
           s == [search EXCEPT !.at = at, !.df = df]
<1>1. Proceed(s) /\ search.at = "df"
  BY DEF ReadFrequencies
<1>2. search \in SearchStates /\ search.engine = "fusion" /\ chunks \in SUBSET Chunks
  BY <1>1 DEF RetrievalInv
<1>3. df \in [QueryTerms -> Int]
  <2>1. \A t \in QueryTerms : Frequency(t) \in Nat
    BY <1>2, SourcesCounted DEF Frequency
  <2>2. search.total \in Nat
    BY <1>2 DEF SearchStates
  <2> QED BY <2>1, <2>2
<1>4. at \in {"failed", "lexical"}
  OBVIOUS
<1> HIDE DEF at, df
<1>5. /\ s \in SearchStates /\ s.at = at /\ s.df = df /\ s.engine = "fusion"
      /\ s.dense = search.dense /\ s.lexical = search.lexical /\ s.answer = search.answer
      /\ s.quiet = search.quiet
  BY <1>2, <1>3, <1>4 DEF SearchStates, Places
<1> HIDE DEF s
<1> QED BY <1>1, <1>3, <1>4, <1>5, ProceedKeeps DEF RetrievalInv

\* The text ranking is read; it has only chunks with a term of the query.
LEMMA LexicalKeeps == ASSUME RetrievalInv, ReadLexical PROVE RetrievalInv'
<1> DEFINE S == {c \in chunks : terms[c] # {}}
           r == Ranked(S, Stronger)
           s == [search EXCEPT !.at = "hydrate", !.lexical = r]
<1>1. Proceed(s) /\ search.at = "lexical"
  BY DEF ReadLexical
<1>2. search \in SearchStates /\ search.engine = "fusion" /\ S \in SUBSET Chunks
  BY <1>1 DEF RetrievalInv
<1>3. \A c \in S : terms[c] # {}
  OBVIOUS
<1> HIDE DEF S
<1>4. Orders(Stronger, S) /\ IsFiniteSet(S)
  BY <1>1, <1>2, StrongerOrders, FewerOrdered, ChunksFinite
<1>5. Enumerates(r, S)
  BY <1>4, RankedEnumerates
<1> HIDE DEF r
<1>6. r \in Seq(S) /\ \A i \in 1 .. Len(r) : r[i] \in S
  BY <1>5, ElementOfSeq DEF Enumerates
<1>7. r \in Seq(Chunks) /\ DOMAIN r = 1 .. Len(r)
  BY <1>2, <1>6, LenProperties
<1>8. \A c \in Chunks : In(r, c) => terms[c] # {}
  BY <1>3, <1>6, <1>7 DEF In
<1>9. /\ s \in SearchStates /\ s.at = "hydrate" /\ s.df = search.df /\ s.engine = "fusion"
      /\ s.dense = search.dense /\ s.lexical = r /\ s.answer = search.answer
      /\ s.quiet = search.quiet
  BY <1>2, <1>7 DEF SearchStates, Places
<1> HIDE DEF s
<1> QED BY <1>1, <1>8, <1>9, ProceedKeeps DEF RetrievalInv

\* Nothing written meanwhile, every row that was ranked is there and the order stays.
LEMMA HydrateKeeps == ASSUME RetrievalInv, Hydrate PROVE RetrievalInv'
<1> DEFINE cut == IF search.grouped THEN FusedRanking ELSE First(FusedRanking, TopK)
           I == {i \in DOMAIN cut : cut[i] \in chunks}
           s == Picked(cut, I)
<1>1. Answer(s) /\ search.at = "hydrate"
  BY DEF Hydrate
<1>2. search \in SearchStates /\ search.engine = "fusion" /\ chunks \in SUBSET Chunks
  BY <1>1 DEF RetrievalInv
<1>3. TopK \in Nat /\ FusedRanking \in Seq(Chunks)
  BY <1>2, RetrievalAssumption, FusedRankingIs
<1>4. cut \in Seq(Chunks)
  BY <1>3, FirstLed
<1>5. ASSUME search.quiet, NEW a \in chunks, NEW b \in chunks, Dominates(a, b)
      PROVE  Led(cut, {a}, b)
  <2>1. a \in Chunks /\ b \in Chunks
    BY <1>2
  <2>2. In(search.dense, a) /\ Greater(Fused(a), Fused(b))
    BY <1>1, <1>5, DominantScores
  <2>3. Led(FusedRanking, {a}, b)
    BY <1>2, <2>1, <2>2, FusedRankingIs
  <2> QED BY <1>3, <2>3, FirstLed
<1>6. ASSUME search.quiet, search.grouped, NEW m \in chunks
      PROVE  In(cut, m)
  <2>1. search.dense = ByDistance(chunks)
    BY <1>1, <1>6 DEF RetrievalInv
  <2>2. In(search.dense, m)
    <3>1. DOMAIN search.dense = 1 .. Len(search.dense)
      BY <1>2, LenProperties DEF SearchStates
    <3> QED BY <2>1, <3>1, ByDistanceIs DEF Enumerates, In
  <2> QED BY <1>2, <1>6, <2>2, FusedRankingIs
<1> HIDE DEF cut
<1>7. I \in SUBSET DOMAIN cut /\ \A i \in DOMAIN cut : i \in I <=> cut[i] \in chunks
  OBVIOUS
<1> HIDE DEF I
<1>8. /\ s \in Seq(Chunks)
      /\ \A i \in I : \E n \in DOMAIN s : s[n] = cut[i]
  BY <1>4, <1>7, PickedMembers
<1>9. ASSUME search.quiet, NEW a \in chunks, NEW b \in chunks, Dominates(a, b)
      PROVE  Led(s, {a}, b)
  <2>1. ASSUME NEW k \in I, cut[k] = b PROVE \E i \in I : i <= k /\ cut[i] \in {a}
    <3>1. k \in DOMAIN cut /\ DOMAIN cut = 1 .. Len(cut) /\ Len(cut) \in Nat
      BY <1>4, <1>7, LenProperties
    <3>2. PICK i \in 1 .. k : cut[i] \in {a}
      BY <1>5, <1>9, <2>1, <3>1 DEF Led
    <3>3. i \in DOMAIN cut /\ i <= k
      BY <3>1, <3>2
    <3> QED BY <1>7, <3>2, <3>3
  <2> QED BY <1>4, <1>7, <2>1, PickedLed
<1> HIDE DEF s
<1>10. ASSUME search.quiet, search.grouped, NEW m \in chunks
       PROVE  In(s, m)
  <2>1. PICK i \in DOMAIN cut : cut[i] = m
    BY <1>6, <1>10 DEF In
  <2>2. i \in I
    BY <1>7, <2>1
  <2> QED BY <1>8, <2>1, <2>2 DEF In
<1>11. ASSUME search.quiet, search.grouped, search.tails, NEW a \in chunks, NEW b \in chunks,
              SourceOf[a] \notin Literal(s), SourceOf[b] \in Literal(s)
       PROVE  Spared(a, b)
  <2>1. PICK m \in Chunks : In(s, m) /\ Matches(m) /\ SourceOf[m] = SourceOf[b]
    BY <1>11 DEF Literal, Sources
  <2>2. m \in chunks
    <3>1. PICK n \in DOMAIN s : s[n] = m
      BY <2>1 DEF In
    <3> DEFINE size == Cardinality(I)
    <3>2. n \in 1 .. size /\ Sorted(I)[n] \in I /\ s[n] = cut[Sorted(I)[n]]
      BY <1>4, <1>7, <3>1, PickedIs, LenProperties DEF s
    <3> QED BY <1>7, <3>1, <3>2
  <2>3. \A c \in chunks : Matches(c) => SourceOf[c] # SourceOf[a]
    BY <1>2, <1>10, <1>11 DEF Literal, Sources
  <2> QED BY <1>11, <2>1, <2>2, <2>3 DEF Spared
<1>12. Best(s)
  BY <1>2, <1>9, <1>11 DEF Best
<1> QED BY <1>1, <1>8, <1>12, AnswerKeeps

\* The invariant holds.
LEMMA RetrievalKeeps == RetrievalInv /\ [RetrievalNext]_retrievalVars => RetrievalInv'
<1> SUFFICES ASSUME RetrievalInv, [RetrievalNext]_retrievalVars PROVE RetrievalInv'
  OBVIOUS
<1>1. CASE LibraryChanges \/ AskSearch \/ Gate
  BY <1>1, LibraryKeeps, AskKeeps, GateKeeps
<1>2. CASE VectorSearch \/ HybridSearch \/ FreeRanking
  BY <1>2, VectorKeeps, HybridKeeps, FreeKeeps
<1>3. CASE ReadDense \/ ReadTotal \/ ReadFrequencies \/ ReadLexical \/ Hydrate
  BY <1>3, DenseKeeps, TotalKeeps, FrequenciesKeep, LexicalKeeps, HydrateKeeps
<1>4. CASE UNCHANGED retrievalVars
  <2>1. UNCHANGED <<near, terms, chunks, search>>
    BY <1>4 DEF retrievalVars
  <2>2. ByDistance(chunks)' = ByDistance(chunks)
    BY <2>1 DEF ByDistance, Nearer
  <2>3. QuietAnswerIsBest'
    BY <2>1 DEF RetrievalInv, QuietAnswerIsBest, Matches, Behind, Dominates, Spared
  <2> QED BY <2>1, <2>2, <2>3 DEF RetrievalInv
<1> QED BY <1>1, <1>2, <1>3, <1>4 DEF RetrievalNext

\* For any chunks, terms, distances and weights: the rankings hold chunks only, the engines
\* read what they say they read, and no answer is longer than top_k.
THEOREM RetrievalTyped == RetrievalSpec => []RetrievalTypeOK
<1>1. RetrievalInv => RetrievalTypeOK
  BY DEF RetrievalInv, RetrievalTypeOK, SearchStates
<1> QED BY <1>1, RetrievalInitially, RetrievalKeeps, PTL DEF RetrievalSpec

\* For any chunks, terms, distances, weights and lengths of an answer: a search that no
\* write disturbs loses no exact match to a chunk without one, and answers none before a
\* chunk that both its rankings prefer, but where the suppression of tails spares its
\* document (search_hybrid, search_hybrid_fusion_v0, and the grouping and suppression of
\* routers/search_api.py).
THEOREM QuietAnswerIsBestHolds == RetrievalSpec => []QuietAnswerIsBest
<1>1. RetrievalInv => QuietAnswerIsBest
  BY DEF RetrievalInv
<1> QED BY <1>1, RetrievalInitially, RetrievalKeeps, PTL DEF RetrievalSpec

-----------------------------------------------------------------------------
(***************************************************************************)
(* Licence keys: the stack is only ever rewritten from what it held, with  *)
(* the key of before the stacks while that is not moved into it, so that a *)
(* key whose installation was acknowledged stays. And the overage is       *)
(* counted again wherever the licence changes.                             *)
(***************************************************************************)

-----------------------------------------------------------------------------
(* The overage.                                                             *)

\* For any keys and any number of users: while the cache passes for fresh it is the
\* overage of the licence in use (license_overage.py, and what resets it where the
\* licence changes).
THEOREM OverageFollowsLicenceHolds == LicenceSpec => []OverageFollowsLicence
<1>1. LicenceInit => OverageFollowsLicence
  BY DEF LicenceInit, OverageFollowsLicence
<1>2. OverageFollowsLicence /\ [LicenceNext]_licenceVars => OverageFollowsLicence'
  <2> SUFFICES ASSUME OverageFollowsLicence, [LicenceNext]_licenceVars
               PROVE  OverageFollowsLicence'
    OBVIOUS
  <2>1. CASE \E k \in Key : InstallAdd(k) \/ InstallReplace(k)
    BY <2>1 DEF InstallAdd, InstallReplace, Invalidated, OverageFollowsLicence
  <2>2. CASE \E kid \in Kids : RemoveKey(kid)
    <3> PICK kid \in Kids : RemoveKey(kid)
      BY <2>2
    <3>1. UNCHANGED <<seated, cache, drift>> /\ (stale' \/ UNCHANGED <<licence, stale>>)
      BY DEF RemoveKey, Invalidated
    <3> QED BY <3>1 DEF OverageFollowsLicence
  <2>3. CASE ListKeys \/ CacheAges \/ (\E k \in Key : InstallFile(k) \/ Expires(k))
    <3>1. UNCHANGED <<licence, seated, cache, drift>> /\ (stale' \/ UNCHANGED stale)
      BY <2>3 DEF ListKeys, CacheAges, InstallFile, Expires
    <3> QED BY <3>1 DEF OverageFollowsLicence
  <2>4. CASE Reload \/ StartApi \/ ActiveChanges
    BY <2>4 DEF Reload, StartApi, ActiveChanges, OverageFollowsLicence
  <2>5. CASE Respond
    BY <2>5 DEF Respond, OverageFollowsLicence
  <2>6. CASE UNCHANGED licenceVars
    BY <2>6 DEF licenceVars, OverageFollowsLicence
  <2> QED BY <2>1, <2>2, <2>3, <2>4, <2>5, <2>6 DEF LicenceNext, Served
<1> QED BY <1>1, <1>2, PTL DEF LicenceSpec

-----------------------------------------------------------------------------
(* The keys.                                                                *)

\* What the settings s and l hold when both can be read.
InForce(s, l) == IF s # <<>> THEN s ELSE IF l # NoKey THEN <<l>> ELSE <<>>

\* A stack has the key k, or another of its kid.
KeyKept(k, keys) == k \in ToSet(keys) \/ SameKid(k, keys)

\* Every setting could be read.
Unread(f) == \A i \in DOMAIN f : f[i] # "read"

KeysInv ==
  /\ stack \in Seq(Key) /\ legacy \in Key \cup {NoKey} /\ slips \in Seq(Slip)
  /\ promised \subseteq Key /\ KeysKept

\* What a read that does not fail comes to: the keys the settings hold, which are what
\* they hold after it, migrated or not.
LEMMA ReadsWhatIsHeld ==
  ASSUME NEW s \in Seq(Key), NEW l \in Key \cup {NoKey}, NEW o \in ReadKeys(s, l)
  PROVE  /\ o.stack \in Seq(Key) /\ o.legacy \in Key \cup {NoKey} /\ o.keys \in Seq(Key)
         /\ o.slips \in Seq(Slip)
         /\ Unread(o.slips) => o.keys = InForce(s, l) /\ InForce(o.stack, o.legacy) = InForce(s, l)
<1> DEFINE Good(p) == /\ p.stack \in Seq(Key) /\ p.keys \in Seq(Key)
                          /\ p.legacy \in Key \cup {NoKey}
                      /\ p.slips \in Seq(Slip)
                      /\ Unread(p.slips) => /\ p.keys = InForce(s, l)
                                            /\ InForce(p.stack, p.legacy) = InForce(s, l)
<1>0. /\ <<>> \in Seq(Key) /\ <<>> \in Seq(Slip)
      /\ <<"read">> \in Seq(Slip) /\ <<"lingers">> \in Seq(Slip)
      /\ ~Unread(<<"read">>) /\ Unread(<<>>) /\ Unread(<<"lingers">>)
  BY DEF Slip, Unread
<1>1. ASSUME l \in Key, NEW p \in Migrated(s, l)
      PROVE  /\ p.keys = <<l>> /\ p.stack \in {<<l>>, s} /\ p.legacy \in {NoKey, l}
             /\ p.slips \in {<<>>, <<"lingers">>} /\ (p.stack = s => p.legacy = l \/ s = <<l>>)
             /\ p = Outcome(p.keys, p.stack, p.legacy, p.slips) /\ p.keys \in Seq(Key)
             /\ p.stack \in Seq(Key) /\ p.legacy \in Key \cup {NoKey} /\ p.slips \in Seq(Slip)
  <2>1. <<l>> \in Seq(Key)
    BY <1>1
  <2>2. CASE p = Outcome(<<l>>, <<l>>, NoKey, <<>>)
    BY <1>0, <1>1, <2>1, <2>2 DEF Outcome
  <2>3. CASE p = Outcome(<<l>>, <<l>>, l, <<"lingers">>)
    BY <1>0, <1>1, <2>1, <2>3 DEF Outcome
  <2>4. CASE p = Outcome(<<l>>, s, l, <<"lingers">>)
    BY <1>0, <1>1, <2>1, <2>4 DEF Outcome
  <2> QED BY <1>1, <2>2, <2>3, <2>4 DEF Migrated
<1>2. ASSUME NEW p \in Migrated(s, l), l \in Key, s = <<>>  PROVE Good(p)
  <2>1. <<l>> # <<>> /\ l # NoKey
    BY <1>2, LicenceAssumption DEF LicenceAssumption
  <2> QED BY <1>0, <1>1, <1>2, <2>1 DEF InForce
<1>3. Good(Outcome(<<>>, s, l, <<"read">>))
  BY <1>0 DEF Outcome
<1>4. s # <<>> => Good(Outcome(s, s, l, <<>>))
  BY <1>0 DEF Outcome, InForce
<1>5. s = <<>> /\ l = NoKey => Good(Outcome(<<>>, s, l, <<>>))
  BY <1>0 DEF Outcome, InForce
<1>6. ASSUME NEW q \in Migrated(s, l), l \in Key  PROVE Good([q EXCEPT !.slips = <<"read">> \o @])
  <2> PICK p : p = [q EXCEPT !.slips = <<"read">> \o @]
    OBVIOUS
  <2>1. /\ q.keys \in Seq(Key) /\ q.stack \in Seq(Key) /\ q.legacy \in Key \cup {NoKey}
        /\ q.slips \in Seq(Slip) /\ q = Outcome(q.keys, q.stack, q.legacy, q.slips)
    BY <1>1, <1>6
  <2>2. /\ p.keys = q.keys /\ p.stack = q.stack /\ p.legacy = q.legacy
        /\ p.slips = <<"read">> \o q.slips
    BY <2>1 DEF Outcome
  <2>3. /\ p.slips \in Seq(Slip) /\ 1 \in DOMAIN p.slips /\ p.slips[1] = "read"
    BY <1>0, <2>1, <2>2, ConcatProperties, LenProperties
  <2>4. ~Unread(p.slips)
    BY <2>3 DEF Unread
  <2> QED BY <2>1, <2>2, <2>3, <2>4
<1> HIDE DEF Good
<1>7. Good(o)
  BY <1>2, <1>3, <1>4, <1>5, <1>6 DEF ReadKeys
<1> QED BY <1>7 DEF Good
\* Slips one after the other: none is a failed read if none of either is.
LEMMA SlipsTogether ==
  ASSUME NEW f \in Seq(Slip), NEW g \in Seq(Slip)
  PROVE  f \o g \in Seq(Slip) /\ (Unread(f \o g) => Unread(f) /\ Unread(g))
<1>1. /\ f \o g \in Seq(Slip) /\ DOMAIN (f \o g) = 1 .. Len(f) + Len(g)
      /\ Len(f) \in Nat /\ Len(g) \in Nat /\ DOMAIN f = 1 .. Len(f) /\ DOMAIN g = 1 .. Len(g)
      /\ \A i \in 1 .. Len(f) + Len(g) : (f \o g)[i] = IF i <= Len(f) THEN f[i] ELSE g[i - Len(f)]
  BY ConcatProperties, LenProperties
<1> PICK h : h = f \o g
  OBVIOUS
<1>2. ASSUME Unread(h)  PROVE Unread(f) /\ Unread(g)
  <2>1. ASSUME NEW i \in DOMAIN f  PROVE f[i] # "read"
    <3>1. i \in DOMAIN h /\ h[i] = f[i]
      BY <1>1
    <3> QED BY <1>2, <3>1 DEF Unread
  <2>2. ASSUME NEW i \in DOMAIN g  PROVE g[i] # "read"
    <3>1. i + Len(f) \in DOMAIN h /\ h[i + Len(f)] = g[i]
      BY <1>1
    <3> QED BY <1>2, <3>1 DEF Unread
  <2> QED BY <2>1, <2>2 DEF Unread
<1> QED BY <1>1, <1>2

\* Loading: what the settings hold is what they held when it began, if they could be read.
LEMMA LoadsWhatIsHeld ==
  ASSUME slips \in Seq(Slip), NEW s \in Seq(Key), NEW l \in Key \cup {NoKey},
         NEW f \in Seq(Slip), LoadFrom(s, l, f)
  PROVE  /\ stack' \in Seq(Key) /\ legacy' \in Key \cup {NoKey} /\ slips' \in Seq(Slip)
         /\ Unread(slips') => /\ Unread(slips) /\ Unread(f)
                              /\ InForce(stack', legacy') = InForce(s, l)
<1> PICK o \in ReadKeys(s, l) : stack' = o.stack /\ legacy' = o.legacy /\ Slipped(f \o o.slips)
  BY DEF LoadFrom
<1>1. /\ o.stack \in Seq(Key) /\ o.legacy \in Key \cup {NoKey} /\ o.slips \in Seq(Slip)
      /\ Unread(o.slips) => InForce(o.stack, o.legacy) = InForce(s, l)
  BY ReadsWhatIsHeld
<1>2. slips' = slips \o (f \o o.slips)
  BY DEF Slipped
<1>3. f \o o.slips \in Seq(Slip) /\ (Unread(f \o o.slips) => Unread(f) /\ Unread(o.slips))
  BY <1>1, SlipsTogether
<1>4. slips' \in Seq(Slip) /\ (Unread(slips') => Unread(slips) /\ Unread(f \o o.slips))
  BY <1>2, <1>3, SlipsTogether
<1> QED BY <1>1, <1>3, <1>4

\* A read of the settings beside the load.
LEMMA ReadsAndSlips ==
  ASSUME slips \in Seq(Slip), stack \in Seq(Key), legacy \in Key \cup {NoKey},
         NEW o \in ReadKeys(stack, legacy),
         stack' = o.stack, legacy' = o.legacy, Slipped(o.slips)
  PROVE  /\ stack' \in Seq(Key) /\ legacy' \in Key \cup {NoKey} /\ slips' \in Seq(Slip)
         /\ Unread(slips') => Unread(slips) /\ InForce(stack', legacy') = InForce(stack, legacy)
<1>1. /\ o.stack \in Seq(Key) /\ o.legacy \in Key \cup {NoKey} /\ o.slips \in Seq(Slip)
      /\ Unread(o.slips) => InForce(o.stack, o.legacy) = InForce(stack, legacy)
  BY ReadsWhatIsHeld
<1>2. slips' \in Seq(Slip) /\ (Unread(slips') => Unread(slips) /\ Unread(o.slips))
  BY <1>1, SlipsTogether DEF Slipped
<1> QED BY <1>1, <1>2

\* What a stack holds after a key has been put behind the others.
LEMMA AppendedKeys ==
  ASSUME NEW keys \in Seq(Key), NEW k \in Key
  PROVE  /\ Append(keys, k) \in Seq(Key) /\ Append(keys, k) # <<>>
         /\ KeyKept(k, Append(keys, k))
         /\ \A j : KeyKept(j, keys) => KeyKept(j, Append(keys, k))
<1>1. /\ Append(keys, k) \in Seq(Key) /\ Len(Append(keys, k)) = Len(keys) + 1 /\ Len(keys) \in Nat
      /\ Append(keys, k)[Len(keys) + 1] = k
      /\ \A i \in 1 .. Len(keys) : Append(keys, k)[i] = keys[i]
      /\ DOMAIN keys = 1 .. Len(keys)
      /\ DOMAIN Append(keys, k) = 1 .. Len(keys) + 1
  BY AppendProperties, LenProperties
<1> PICK t : t = Append(keys, k)
  OBVIOUS
<1>2. k \in ToSet(t) /\ t # <<>>
  BY <1>1 DEF ToSet
<1>3. ASSUME NEW j, KeyKept(j, keys)  PROVE KeyKept(j, t)
  BY <1>1, <1>3 DEF KeyKept, ToSet, SameKid
<1> QED BY <1>1, <1>2, <1>3 DEF KeyKept

\* The keys that are left of a stack when those of a kid are taken from it.
LEMMA KeysLeft ==
  ASSUME NEW keys \in Seq(Key), NEW kid, NEW left,
         left = Picked(keys, {i \in DOMAIN keys : keys[i].kid # kid})
  PROVE  /\ left \in Seq(Key)
         /\ \A k : (k.kid # kid /\ KeyKept(k, keys)) => (KeyKept(k, left) /\ left # <<>>)
<1> PICK I : I = {i \in DOMAIN keys : keys[i].kid # kid}
  OBVIOUS
<1>1. left \in Seq(Key) /\ \A i \in I : \E n \in DOMAIN left : left[n] = keys[i]
  <2>1. I \in SUBSET (DOMAIN keys) /\ left = Picked(keys, I)
    OBVIOUS
  <2>2. \A J \in SUBSET (DOMAIN keys) :
           /\ Picked(keys, J) \in Seq(Key)
           /\ \A i \in J : \E n \in DOMAIN Picked(keys, J) : Picked(keys, J)[n] = keys[i]
    BY PickedMembers
  <2>3. /\ Picked(keys, I) \in Seq(Key)
        /\ \A i \in I : \E n \in DOMAIN Picked(keys, I) : Picked(keys, I)[n] = keys[i]
    BY <2>1, <2>2, Zenon
  <2> QED BY <2>1, <2>3, Zenon
<1>2. ASSUME NEW k, k.kid # kid, KeyKept(k, keys)  PROVE KeyKept(k, left) /\ left # <<>>
  <2>1. PICK i \in DOMAIN keys : keys[i] = k \/ (k.kid # NoKid /\ keys[i].kid = k.kid)
    BY <1>2 DEF KeyKept, ToSet, SameKid
  <2>2. i \in I
    BY <1>2, <2>1
  <2>3. PICK n \in DOMAIN left : left[n] = keys[i]
    BY <1>1, <2>2
  <2>4. left # <<>>
    BY <2>3
  <2> QED BY <2>1, <2>3, <2>4 DEF KeyKept, ToSet, SameKid
<1> QED BY <1>1, <1>2
\* What is promised is kept by what the settings hold.
LEMMA KeysKeptBy ==
  KeysKept <=> (Unread(slips) => \A k \in promised : KeyKept(k, InForce(stack, legacy)))
BY DEF KeysKept, NoneOf, Unread, KeyKept, InForce, Stored

\* The keys are kept when what is promised is kept by what the settings then hold.
LEMMA KeysStayKept ==
  ASSUME stack' \in Seq(Key), legacy' \in Key \cup {NoKey}, slips' \in Seq(Slip),
         promised' \subseteq Key,
         Unread(slips') => \A k \in promised' : KeyKept(k, InForce(stack', legacy'))
  PROVE  KeysInv'
<1>1. KeysKept'
  BY DEF KeysKept, NoneOf, Unread, KeyKept, SameKid, InForce, Stored
<1> QED BY <1>1 DEF KeysInv

\* A key is added to the stack, or takes the place of all.
LEMMA Installs ==
  ASSUME KeysInv, NEW k \in Key, InstallAdd(k) \/ InstallReplace(k)
  PROVE  KeysInv'
<1>0. /\ stack \in Seq(Key) /\ legacy \in Key \cup {NoKey} /\ slips \in Seq(Slip)
      /\ promised \subseteq Key
      /\ Unread(slips) => \A j \in promised : KeyKept(j, InForce(stack, legacy))
  BY KeysKeptBy DEF KeysInv
<1>1. CASE InstallReplace(k)
  <2>1. LoadFrom(<<k>>, legacy, <<>>) /\ promised' = {k}
    BY <1>1 DEF InstallReplace
  <2>2. <<k>> \in Seq(Key) /\ <<>> \in Seq(Slip) /\ <<k>> # <<>>
    OBVIOUS
  <2>3. /\ stack' \in Seq(Key) /\ legacy' \in Key \cup {NoKey} /\ slips' \in Seq(Slip)
        /\ Unread(slips') => InForce(stack', legacy') = <<k>>
    BY <1>0, <2>1, <2>2, LoadsWhatIsHeld DEF InForce
  <2>4. KeyKept(k, <<k>>)
    BY DEF KeyKept, ToSet
  <2> QED BY <2>1, <2>3, <2>4, KeysStayKept
<1>2. CASE InstallAdd(k)
  <2>1. PICK o \in ReadKeys(stack, legacy) :
          LoadFrom(IF SameKid(k, o.keys) THEN o.stack ELSE Append(o.keys, k), o.legacy, o.slips)
    BY <1>2 DEF InstallAdd
  <2>2. /\ o.stack \in Seq(Key) /\ o.legacy \in Key \cup {NoKey} /\ o.keys \in Seq(Key)
        /\ o.slips \in Seq(Slip)
        /\ Unread(o.slips) => /\ o.keys = InForce(stack, legacy)
                              /\ InForce(o.stack, o.legacy) = InForce(stack, legacy)
    BY <1>0, ReadsWhatIsHeld
  <2> PICK s : s = IF SameKid(k, o.keys) THEN o.stack ELSE Append(o.keys, k)
    OBVIOUS
  <2>3. s \in Seq(Key) /\ (Unread(o.slips) =>
           KeyKept(k, InForce(s, o.legacy))
             /\ \A j : KeyKept(j, InForce(stack, legacy)) => KeyKept(j, InForce(s, o.legacy)))
    <3>1. CASE SameKid(k, o.keys)
      BY <2>2, <3>1 DEF KeyKept
    <3>2. CASE ~SameKid(k, o.keys)
      <4>1. s = Append(o.keys, k)
        BY <3>2
      <4>2. InForce(s, o.legacy) = s /\ s \in Seq(Key) /\ KeyKept(k, s)
        BY <2>2, <4>1, AppendedKeys DEF InForce
      <4>3. \A j : KeyKept(j, o.keys) => KeyKept(j, s)
        BY <2>2, <4>1, AppendedKeys
      <4> QED BY <2>2, <4>2, <4>3
    <3> QED BY <3>1, <3>2
  <2>4. /\ stack' \in Seq(Key) /\ legacy' \in Key \cup {NoKey} /\ slips' \in Seq(Slip)
        /\ Unread(slips') => /\ Unread(slips) /\ Unread(o.slips)
                             /\ InForce(stack', legacy') = InForce(s, o.legacy)
    BY <1>0, <2>1, <2>2, <2>3, LoadsWhatIsHeld
  <2>5. promised' = promised \cup {k}
    BY <1>2 DEF InstallAdd
  <2>6. Unread(slips') => \A j \in promised' : KeyKept(j, InForce(stack', legacy'))
    BY <1>0, <2>3, <2>4, <2>5
  <2> QED BY <1>0, <2>4, <2>5, <2>6, KeysStayKept
<1> QED BY <1>1, <1>2

\* The keys of a kid are removed.
LEMMA Removes ==
  ASSUME KeysInv, NEW kid \in Kids, RemoveKey(kid)
  PROVE  KeysInv'
<1>0. /\ stack \in Seq(Key) /\ legacy \in Key \cup {NoKey} /\ slips \in Seq(Slip)
      /\ promised \subseteq Key
      /\ Unread(slips) => \A j \in promised : KeyKept(j, InForce(stack, legacy))
  BY KeysKeptBy DEF KeysInv
<1>1. PICK o \in ReadKeys(stack, legacy) :
        LET left == Picked(o.keys, {i \in DOMAIN o.keys : o.keys[i].kid # kid})
        IN IF left = o.keys
           THEN stack' = o.stack /\ legacy' = o.legacy /\ Slipped(o.slips) /\ promised' = promised
           ELSE LoadFrom(left, o.legacy, o.slips) /\ promised' = {k \in promised : k.kid # kid}
  BY DEF RemoveKey
<1>2. /\ o.stack \in Seq(Key) /\ o.legacy \in Key \cup {NoKey} /\ o.keys \in Seq(Key)
      /\ o.slips \in Seq(Slip)
      /\ Unread(o.slips) => /\ o.keys = InForce(stack, legacy)
                            /\ InForce(o.stack, o.legacy) = InForce(stack, legacy)
  BY <1>0, ReadsWhatIsHeld
<1> PICK left : left = Picked(o.keys, {i \in DOMAIN o.keys : o.keys[i].kid # kid})
  OBVIOUS
<1>3. CASE stack' = o.stack /\ legacy' = o.legacy /\ Slipped(o.slips) /\ promised' = promised
  BY <1>0, <1>3, ReadsAndSlips, KeysStayKept
<1>4. CASE LoadFrom(left, o.legacy, o.slips) /\ promised' = {k \in promised : k.kid # kid}
  <2>1. /\ left \in Seq(Key)
        /\ \A k : (k.kid # kid /\ KeyKept(k, o.keys)) => (KeyKept(k, left) /\ left # <<>>)
    <3> PICK keys : keys = o.keys
      OBVIOUS
    <3>1. keys \in Seq(Key) /\ left = Picked(keys, {i \in DOMAIN keys : keys[i].kid # kid})
      BY <1>2
    <3>2. /\ left \in Seq(Key)
          /\ \A k : (k.kid # kid /\ KeyKept(k, keys)) => (KeyKept(k, left) /\ left # <<>>)
      BY <3>1, KeysLeft
    <3> QED BY <3>2
  <2>2. /\ stack' \in Seq(Key) /\ legacy' \in Key \cup {NoKey} /\ slips' \in Seq(Slip)
        /\ Unread(slips') => /\ Unread(slips) /\ Unread(o.slips)
                             /\ InForce(stack', legacy') = InForce(left, o.legacy)
    BY <1>0, <1>2, <1>4, <2>1, LoadsWhatIsHeld
  <2>3. ASSUME Unread(slips'), NEW k \in promised'  PROVE KeyKept(k, InForce(stack', legacy'))
    <3>1. k \in promised /\ k.kid # kid
      BY <1>4, <2>3
    <3>2. KeyKept(k, o.keys)
      BY <1>0, <1>2, <2>2, <2>3, <3>1
    <3>3. KeyKept(k, left) /\ left # <<>>
      BY <2>1, <3>1, <3>2
    <3> QED BY <2>2, <2>3, <3>3 DEF InForce
  <2>4. promised' \subseteq Key
    BY <1>0, <1>4
  <2> QED BY <2>2, <2>3, <2>4, KeysStayKept
<1> QED BY <1>1, <1>3, <1>4

\* The inductive invariant of the keys.
LEMMA KeysInvHolds == LicenceSpec => []KeysInv
<1>1. LicenceInit => KeysInv
  <2> SUFFICES ASSUME LicenceInit  PROVE KeysInv
    OBVIOUS
  <2>1. stack = <<>> /\ legacy \in Key \cup {NoKey} /\ slips = <<>> /\ promised = {legacy} \cap Key
    BY DEF LicenceInit
  <2>2. \A k \in promised : KeyKept(k, InForce(stack, legacy))
    BY <2>1, LicenceAssumption DEF LicenceAssumption, KeyKept, ToSet, InForce
  <2>3. KeysKept
    BY <2>2, KeysKeptBy
  <2> QED BY <2>1, <2>3 DEF KeysInv
<1>2. KeysInv /\ [LicenceNext]_licenceVars => KeysInv'
  <2> SUFFICES ASSUME KeysInv, [LicenceNext]_licenceVars  PROVE KeysInv'
    OBVIOUS
  <2>0. /\ stack \in Seq(Key) /\ legacy \in Key \cup {NoKey} /\ slips \in Seq(Slip)
        /\ promised \subseteq Key
        /\ Unread(slips) => \A j \in promised : KeyKept(j, InForce(stack, legacy))
    BY KeysKeptBy DEF KeysInv
  <2>1. CASE \E k \in Key : InstallAdd(k) \/ InstallReplace(k)
    BY <2>1, Installs
  <2>2. CASE \E kid \in Kids : RemoveKey(kid)
    BY <2>2, Removes
  <2>3. CASE ListKeys
    <3>1. PICK o \in ReadKeys(stack, legacy) :
            stack' = o.stack /\ legacy' = o.legacy /\ Slipped(o.slips)
      BY <2>3 DEF ListKeys
    <3>2. promised' = promised
      BY <2>3 DEF ListKeys
    <3> QED BY <2>0, <3>1, <3>2, ReadsAndSlips, KeysStayKept
  <2>4. CASE Reload \/ StartApi
    <3>1. LoadFrom(stack, legacy, <<>>) /\ promised' = promised /\ <<>> \in Seq(Slip)
      BY <2>4 DEF Reload, StartApi
    <3>2. /\ stack' \in Seq(Key) /\ legacy' \in Key \cup {NoKey} /\ slips' \in Seq(Slip)
          /\ Unread(slips') => Unread(slips) /\ InForce(stack', legacy') = InForce(stack, legacy)
      BY <2>0, <3>1, LoadsWhatIsHeld
    <3> QED BY <2>0, <3>1, <3>2, KeysStayKept
  <2>5. ASSUME UNCHANGED <<stack, legacy, promised>>, NEW f \in Seq(Slip), slips' = slips \o f
        PROVE  KeysInv'
    BY <2>0, <2>5, SlipsTogether, KeysStayKept
  <2>6. ASSUME UNCHANGED <<stack, legacy, promised, slips>>  PROVE KeysInv'
    BY <2>0, <2>6, KeysStayKept
  <2>7. CASE Respond
    <3>1. <<"read">> \in Seq(Slip)
      BY DEF Slip
    <3> QED BY <2>5, <2>6, <2>7, <3>1 DEF Respond, Slipped
  <2>8. CASE \E k \in Key : InstallFile(k)
    <3>1. UNCHANGED <<stack, legacy, promised>>
      BY <2>8 DEF InstallFile
    <3>2. PICK copied \in BOOLEAN, written \in BOOLEAN, restored \in BOOLEAN :
            Slipped(((IF copied THEN <<>> ELSE <<"copy">>)
                       \o (IF written THEN <<>> ELSE <<"read">>))
                    \o (IF restored THEN <<>> ELSE <<"copy">>))
      BY <2>8 DEF InstallFile
    <3> PICK a, b, c : /\ a = (IF copied THEN <<>> ELSE <<"copy">>)
                       /\ b = (IF written THEN <<>> ELSE <<"read">>)
                       /\ c = (IF restored THEN <<>> ELSE <<"copy">>)
      OBVIOUS
    <3>3. a \in Seq(Slip) /\ b \in Seq(Slip) /\ c \in Seq(Slip)
      <4>1. <<>> \in Seq(Slip) /\ <<"copy">> \in Seq(Slip) /\ <<"read">> \in Seq(Slip)
        BY DEF Slip
      <4> QED BY <4>1
    <3>4. (a \o b) \o c \in Seq(Slip)
      BY <3>3, SlipsTogether
    <3>5. slips' = slips \o ((a \o b) \o c)
      BY <3>2 DEF Slipped
    <3> QED BY <2>5, <3>1, <3>4, <3>5
  <2>9. CASE CacheAges \/ ActiveChanges \/ (\E k \in Key : Expires(k)) \/ UNCHANGED licenceVars
    BY <2>6, <2>9 DEF CacheAges, ActiveChanges, Expires, licenceVars
  <2> QED BY <2>1, <2>2, <2>3, <2>4, <2>7, <2>8, <2>9 DEF LicenceNext, Served
<1> QED BY <1>1, <1>2, PTL DEF LicenceSpec

\* For any keys: one whose installation was acknowledged is kept until it is removed or
\* replaced, through the migration of the single key, as long as every setting could be
\* read (server_settings_store.py).
THEOREM KeysKeptHolds == LicenceSpec => []KeysKept
<1>1. KeysInv => KeysKept
  BY DEF KeysInv
<1> QED BY <1>1, KeysInvHolds, PTL

-----------------------------------------------------------------------------
(* The licence and the overage.                                             *)

Licensed == [team : BOOLEAN, seats : Nat \cup {-1}]

\* What is known of the licence, the file and the cache: a team licence has seats.
LicenceTyped ==
  /\ {file, backup} \subseteq Key \cup {NoKey, Torn} /\ expired \subseteq Key
  /\ licence \in Licensed /\ (licence.team => licence.seats \in Nat)
  /\ cache \in [overage : Nat, licensed : Nat] /\ seated \in 0 .. MaxActive
  /\ stale \in BOOLEAN /\ drift \in BOOLEAN /\ turns \in Nat

\* The seats of a stack of keys can be counted.
LEMMA SeatsCounted ==
  ASSUME NEW keys \in Seq(Key)
  PROVE  SeatsOf(keys) \in Nat
<1> DEFINE I == DOMAIN keys
           At(i) == {i} \X (1 .. keys[i].seats)
           places == {At(i) : i \in I}
           f == [i \in I |-> At(i)]
<1>1. /\ I = 1 .. Len(keys) /\ Len(keys) \in Nat
      /\ \A i \in I : keys[i] \in Key
  BY LenProperties, ElementOfSeq
<1>2. IsFiniteSet(I)
  BY <1>1, FS_Interval
<1>3. f \in Surjection(I, places)
  BY DEF Surjection
<1>4. IsFiniteSet(places)
  <2> HIDE DEF f, places, I
  <2> QED BY <1>2, <1>3, FS_Surjection
<1>5. ASSUME NEW T \in places  PROVE IsFiniteSet(T)
  <2>1. PICK i \in I : T = {i} \X (1 .. keys[i].seats)
    BY <1>5
  <2>2. keys[i].seats \in Nat
    BY <1>1, LicenceAssumption DEF Key, LicenceAssumption
  <2>3. IsFiniteSet(1 .. keys[i].seats)
    BY <2>2, FS_Interval
  <2>4. IsFiniteSet({i})
    BY FS_Singleton
  <2> QED BY <2>1, <2>3, <2>4, FS_Product
<1>6. IsFiniteSet(UNION places)
  <2> HIDE DEF places
  <2> QED BY <1>4, <1>5, FS_UNION
<1>7. Cardinality(UNION places) \in Nat
  <2> HIDE DEF places
  <2> QED BY <1>6, FS_CardinalityType
<1> QED BY <1>7 DEF SeatsOf

\* The licence made of keys, with the file's: for a team it has seats.
LEMMA AggregateTyped ==
  ASSUME NEW keys \in Seq(Key)
  PROVE  Aggregate(keys) \in Licensed /\ Aggregate(keys).seats \in Nat
<1> DEFINE raw == Raw(keys)
           I == {i \in DOMAIN raw : Validates(raw[i])}
<1>1. raw \in Seq(Key)
  BY AppendProperties DEF Raw
<1>2. I \in SUBSET (DOMAIN raw)
  OBVIOUS
<1> HIDE DEF raw, I
<1>3. Picked(raw, I) \in Seq(Key)
  BY <1>1, <1>2, PickedMembers
<1>4. SeatsOf(Picked(raw, I)) \in Nat
  BY <1>3, SeatsCounted
<1> PICK n : n = SeatsOf(Picked(raw, I))
  OBVIOUS
<1>5. Aggregate(keys) = NoLicence \/ Aggregate(keys) = [team |-> TRUE, seats |-> n]
  BY DEF Aggregate, raw, I
<1>6. NoLicence \in Licensed /\ NoLicence.seats \in Nat
  BY DEF Licensed, NoLicence
<1> PICK l : l = [team |-> TRUE, seats |-> n]
  OBVIOUS
<1>7. l \in Licensed /\ l.seats \in Nat
  BY <1>4 DEF Licensed
<1> QED BY <1>5, <1>6, <1>7

\* What a load makes of the licence.
LEMMA LoadTyped ==
  ASSUME NEW s \in Seq(Key), NEW l \in Key \cup {NoKey}, NEW f, LoadFrom(s, l, f)
  PROVE  licence' \in Licensed /\ licence'.seats \in Nat
<1>1. PICK o \in ReadKeys(s, l) : licence' = Aggregate(o.keys)
  BY DEF LoadFrom
<1>2. o.keys \in Seq(Key)
  BY ReadsWhatIsHeld
<1> QED BY <1>1, <1>2, AggregateTyped

\* The overage of a licence, for any number of users.
LEMMA ExcessTyped ==
  ASSUME NEW l \in Licensed, l.team => l.seats \in Nat, NEW n \in Nat
  PROVE  Excess(l, n) \in [overage : Nat, licensed : Nat]
<1>1. l.seats \in Int /\ l.seats >= -1
  BY DEF Licensed
<1>2. (IF l.team /\ n > l.seats THEN n - l.seats ELSE 0) \in Nat
  BY <1>1
<1>3. (IF l.team THEN l.seats ELSE 0) \in Nat
  OBVIOUS
<1> QED BY <1>2, <1>3 DEF Excess

\* Keys are installed and removed, the licence is loaded again, the API starts.
LEMMA LoadingTyped ==
  ASSUME KeysInv, LicenceTyped,
         \/ \E k \in Key : InstallAdd(k) \/ InstallReplace(k)
         \/ \E kid \in Kids : RemoveKey(kid)
         \/ Reload \/ StartApi
  PROVE  LicenceTyped'
<1>0. /\ stack \in Seq(Key) /\ legacy \in Key \cup {NoKey} /\ turns \in Nat
      /\ stale \in BOOLEAN /\ drift \in BOOLEAN
  BY DEF KeysInv, LicenceTyped
<1>1. ASSUME NEW k \in Key, InstallAdd(k)
      PROVE  licence' \in Licensed /\ licence'.seats \in Nat
  <2>1. PICK o \in ReadKeys(stack, legacy) :
          LoadFrom(IF SameKid(k, o.keys) THEN o.stack ELSE Append(o.keys, k), o.legacy, o.slips)
    BY <1>1 DEF InstallAdd
  <2>2. o.stack \in Seq(Key) /\ o.keys \in Seq(Key) /\ o.legacy \in Key \cup {NoKey}
    BY <1>0, ReadsWhatIsHeld
  <2> PICK s : s = IF SameKid(k, o.keys) THEN o.stack ELSE Append(o.keys, k)
    OBVIOUS
  <2>3. s \in Seq(Key) /\ LoadFrom(s, o.legacy, o.slips)
    BY <2>1, <2>2, AppendProperties
  <2> QED BY <2>2, <2>3, LoadTyped
<1>2. ASSUME NEW k \in Key, InstallReplace(k)
      PROVE  licence' \in Licensed /\ licence'.seats \in Nat
  <2>1. LoadFrom(<<k>>, legacy, <<>>) /\ <<k>> \in Seq(Key)
    BY <1>2 DEF InstallReplace
  <2> QED BY <1>0, <2>1, LoadTyped
<1>3. ASSUME NEW kid \in Kids, RemoveKey(kid)
      PROVE  \/ licence' \in Licensed /\ licence'.seats \in Nat
             \/ UNCHANGED licence
  <2>1. PICK o \in ReadKeys(stack, legacy) :
          LET left == Picked(o.keys, {i \in DOMAIN o.keys : o.keys[i].kid # kid})
          IN \/ UNCHANGED licence
             \/ LoadFrom(left, o.legacy, o.slips)
    BY <1>3 DEF RemoveKey
  <2>2. o.keys \in Seq(Key) /\ o.legacy \in Key \cup {NoKey}
    BY <1>0, ReadsWhatIsHeld
  <2> PICK keys, I : keys = o.keys /\ I = {i \in DOMAIN keys : keys[i].kid # kid}
    OBVIOUS
  <2>3. I \in SUBSET (DOMAIN keys) /\ keys \in Seq(Key)
    BY <2>2
  <2>4. Picked(keys, I) \in Seq(Key)
    BY <2>3, PickedMembers
  <2>5. UNCHANGED licence \/ LoadFrom(Picked(keys, I), o.legacy, o.slips)
    BY <2>1
  <2> QED BY <2>2, <2>4, <2>5, LoadTyped
<1>4. ASSUME Reload \/ StartApi
      PROVE  licence' \in Licensed /\ licence'.seats \in Nat
  <2>1. LoadFrom(stack, legacy, <<>>)
    BY <1>4 DEF Reload, StartApi
  <2> QED BY <1>0, <2>1, LoadTyped
<1>5. licence' \in Licensed /\ (licence'.team => licence'.seats \in Nat)
  BY <1>1, <1>2, <1>3, <1>4 DEF LicenceTyped
<1>6. CASE \E k \in Key : InstallAdd(k) \/ InstallReplace(k)
  <2>1. turns' = turns + 1 /\ UNCHANGED <<file, backup, expired, seated, cache, drift>>
    BY <1>6 DEF InstallAdd, InstallReplace, Turn
  <2>2. stale' = TRUE
    BY <1>6 DEF InstallAdd, InstallReplace, Invalidated
  <2> QED BY <1>5, <2>1, <2>2 DEF LicenceTyped
<1>7. CASE \E kid \in Kids : RemoveKey(kid)
  <2> PICK kid \in Kids : RemoveKey(kid)
    BY <1>7
  <2>1. turns' = turns + 1 /\ UNCHANGED <<file, backup, expired, seated, cache, drift>>
    BY DEF RemoveKey, Turn
  <2>2. stale' = TRUE \/ stale' = stale
    BY DEF RemoveKey, Invalidated
  <2>3. stale' \in BOOLEAN
    BY <1>0, <2>2
  <2> QED BY <1>5, <2>1, <2>3 DEF LicenceTyped
<1>8. CASE Reload \/ StartApi
  <2>1. UNCHANGED <<file, backup, expired, seated, turns>> /\ cache' \in {cache, NoOverage}
    BY <1>8 DEF Reload, StartApi
  <2>2. drift' = TRUE /\ (stale' \in BOOLEAN \/ stale' = stale)
    BY <1>8 DEF Reload, StartApi
  <2>3. stale' \in BOOLEAN /\ drift' \in BOOLEAN
    BY <1>0, <2>2
  <2> QED BY <1>5, <2>1, <2>3 DEF LicenceTyped, NoOverage
<1> QED BY <1>6, <1>7, <1>8

\* Everything else that happens to the licence.
LEMMA LicenceStepTyped ==
  ASSUME KeysInv, LicenceTyped, [LicenceNext]_licenceVars
  PROVE  LicenceTyped'
<1>0. MaxActive \in Nat
  BY LicenceAssumption DEF LicenceAssumption
<1>1. CASE \/ \E k \in Key : InstallAdd(k) \/ InstallReplace(k)
           \/ \E kid \in Kids : RemoveKey(kid)
           \/ Reload \/ StartApi
  BY <1>1, LoadingTyped
<1>2. CASE ListKeys
  BY <1>2 DEF ListKeys, LicenceTyped
<1>3. CASE Respond
  <2>1. /\ Excess(licence, seated) \in [overage : Nat, licensed : Nat]
        /\ Excess(licence, 0) \in [overage : Nat, licensed : Nat]
    BY <1>0, ExcessTyped DEF LicenceTyped
  <2> QED BY <1>3, <2>1 DEF Respond, LicenceTyped
<1>4. CASE CacheAges
  BY <1>4 DEF CacheAges, LicenceTyped
<1>5. CASE ActiveChanges
  BY <1>0, <1>5 DEF ActiveChanges, LicenceTyped, Turn
<1>6. CASE \E k \in Key : Expires(k)
  BY <1>6 DEF Expires, LicenceTyped, Turn
<1>7. ASSUME NEW k \in Key, InstallFile(k)
      PROVE  LicenceTyped'
  <2>1. /\ UNCHANGED <<expired, licence, seated, cache, stale, drift>> /\ turns' = turns + 1
        /\ backup' \in {file, backup} /\ file' \in {k, backup', Torn}
    BY <1>7 DEF InstallFile, Turn, BackedUp
  <2> QED BY <2>1 DEF LicenceTyped
<1>8. CASE UNCHANGED licenceVars
  BY <1>8 DEF licenceVars, LicenceTyped
<1> QED BY <1>1, <1>2, <1>3, <1>4, <1>5, <1>6, <1>7, <1>8 DEF LicenceNext, Served

\* The variables of the licences have their types, for any keys and any number of users:
\* what a key file or a setting that cannot be read leaves behind is a key or none, and
\* an overage is never less than nothing.
THEOREM LicencesTyped == LicenceSpec => []LicenceTypeOK
<1>1. LicenceInit => LicenceTyped
  <2> SUFFICES ASSUME LicenceInit  PROVE LicenceTyped
    OBVIOUS
  <2>1. MaxActive \in Nat
    BY LicenceAssumption DEF LicenceAssumption
  <2> QED BY <2>1 DEF LicenceInit, LicenceTyped, Licensed, NoKeyLoaded, NoOverage
<1>2. LicenceTyped /\ KeysInv => LicenceTypeOK
  BY DEF LicenceTyped, KeysInv, LicenceTypeOK, Licensed
<1> QED BY <1>1, <1>2, KeysInvHolds, LicenceStepTyped, PTL DEF LicenceSpec

=============================================================================
