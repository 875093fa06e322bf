---------------------------- MODULE CatalogProofs ----------------------------
(***************************************************************************)
(* Theorems about the catalog: the numbers it gives to equal names, the     *)
(* table of served games, the form of a filename, and the list as a whole.  *)
(***************************************************************************)
EXTENDS Catalog, SequenceLemmas, FiniteSetTheorems

-----------------------------------------------------------------------------
(* Sets of places in a sequence.                                            *)

\* A nonempty set of places has a first and a last.
LEMMA FirstAndLast ==
    ASSUME NEW N \in Nat, NEW J \in SUBSET (1 .. N), J # {}
    PROVE  /\ Min(J) \in J /\ \A j \in J : Min(J) <= j
           /\ Max(J) \in J /\ \A j \in J : j <= Max(J)
  <1>1. \E m \in J : \A j \in J : m <= j
    <2>1. J \in SUBSET Nat
      OBVIOUS
    <2>2. QED
      BY <2>1, LeastNatural
  <1> DEFINE T == {N - j : j \in J}
  <1>2. PICK m \in T : \A n \in T : m <= n
    <2>1. \A j \in J : N - j \in Nat
      OBVIOUS
    <2>2. T \in SUBSET Nat /\ T # {}
      BY <2>1
    <2> HIDE DEF T
    <2>3. QED
      BY <2>2, LeastNatural
  <1>3. PICK x \in J : m = N - x
    BY <1>2
  <1>4. \A j \in J : N - x <= N - j
    BY <1>2, <1>3
  <1>5. x \in J /\ \A j \in J : x >= j
    BY <1>4
  <1>6. Max(J) \in J /\ \A j \in J : Max(J) >= j
    BY <1>5 DEF Max
  <1>7. Min(J) \in J /\ \A j \in J : Min(J) =< j
    BY <1>1 DEF Min
  <1>8. \A j \in J : j \in Int
    OBVIOUS
  <1>9. QED
    BY <1>6, <1>7, <1>8

\* How many places of J there are up to j.
Rank(J, j) == Cardinality(J \cap (1 .. j))

\* It grows by one at each place of J.
LEMMA RankSteps ==
    ASSUME NEW N \in Nat, NEW J \in SUBSET (1 .. N)
    PROVE  /\ IsFiniteSet(J) /\ Cardinality(J) \in Nat /\ Rank(J, N) = Cardinality(J)
           /\ Rank(J, 0) = 0
           /\ \A j \in Nat : Rank(J, j) \in Nat
           /\ \A j \in Nat : Rank(J, j + 1) =
                 IF j + 1 \in J THEN Rank(J, j) + 1 ELSE Rank(J, j)
  <1>1. IsFiniteSet(1 .. N)
    BY FS_Interval
  <1>2. IsFiniteSet(J)
    BY <1>1, FS_Subset
  <1>3. \A j \in Nat : IsFiniteSet(J \cap (1 .. j))
    <2>1. \A j \in Nat : (J \cap (1 .. j)) \in SUBSET J
      OBVIOUS
    <2>2. QED
      BY <1>2, <2>1, FS_Subset
  <1>4. J \cap (1 .. 0) = {} /\ J \cap (1 .. N) = J
    <2>1. 1 .. 0 = {}
      OBVIOUS
    <2>2. QED
      BY <2>1
  <1>5. ASSUME NEW j \in Nat
        PROVE  Rank(J, j + 1) = IF j + 1 \in J THEN Rank(J, j) + 1 ELSE Rank(J, j)
    <2>1. CASE j + 1 \in J
      <3>1. J \cap (1 .. j + 1) = (J \cap (1 .. j)) \cup {j + 1} /\ j + 1 \notin 1 .. j
        BY <2>1
      <3>2. QED
        BY <1>3, <2>1, <3>1, FS_AddElement DEF Rank
    <2>2. CASE j + 1 \notin J
      <3>1. J \cap (1 .. j + 1) = J \cap (1 .. j)
        BY <2>2
      <3>2. QED
        BY <2>2, <3>1 DEF Rank
    <2>3. QED
      BY <2>1, <2>2
  <1>6. QED
    BY <1>2, <1>3, <1>4, <1>5, FS_CardinalityType, FS_EmptySet DEF Rank

\* At a place of J the rank is one more than just before it.
LEMMA RankBefore ==
    ASSUME NEW N \in Nat, NEW J \in SUBSET (1 .. N), NEW j \in J
    PROVE  Rank(J, j - 1) \in Nat /\ Rank(J, j) = Rank(J, j - 1) + 1
  <1>1. j - 1 \in Nat /\ (j - 1) + 1 = j
    OBVIOUS
  <1>2. /\ Rank(J, N) = Cardinality(J)
        /\ \A k \in Nat : Rank(J, k) \in Nat
        /\ \A k \in Nat : Rank(J, k + 1) =
              IF k + 1 \in J THEN Rank(J, k) + 1 ELSE Rank(J, k)
    BY RankSteps
  <1>3. QED
    BY <1>1, <1>2

\* It never falls, and is larger at a place of J than at all before it.
LEMMA RankGrows ==
    ASSUME NEW N \in Nat, NEW J \in SUBSET (1 .. N), NEW m \in Nat
    PROVE  /\ \A j \in Nat : m <= j => Rank(J, m) <= Rank(J, j)
           /\ \A j \in J : m < j => Rank(J, m) < Rank(J, j)
  <1>1. /\ Rank(J, N) = Cardinality(J)
        /\ \A j \in Nat : Rank(J, j) \in Nat
        /\ \A j \in Nat : Rank(J, j + 1) =
              IF j + 1 \in J THEN Rank(J, j) + 1 ELSE Rank(J, j)
    BY RankSteps
  <1> DEFINE T == {k \in Nat : Rank(J, m) <= Rank(J, m + k)}
  <1>2. 0 \in T
    <2>1. m + 0 = m
      OBVIOUS
    <2>2. QED
      BY <1>1, <2>1
  <1>3. ASSUME NEW k \in Nat, k \in T
        PROVE  k + 1 \in T
    <2>1. m + (k + 1) = (m + k) + 1 /\ m + k \in Nat
      OBVIOUS
    <2>2. /\ Rank(J, m) \in Nat /\ Rank(J, m + k) \in Nat /\ Rank(J, m) <= Rank(J, m + k)
          /\ \/ Rank(J, m + (k + 1)) = Rank(J, m + k) + 1
             \/ Rank(J, m + (k + 1)) = Rank(J, m + k)
      BY <1>1, <1>3, <2>1
    <2>3. QED
      BY <2>2
  <1>4. \A k \in Nat : k \in T
    <2> HIDE DEF T
    <2>1. QED
      BY <1>2, <1>3, Induction
  <1>5. ASSUME NEW j \in Nat, m <= j
        PROVE  Rank(J, m) <= Rank(J, j)
    <2>1. j - m \in Nat /\ m + (j - m) = j
      BY <1>5
    <2>2. QED
      BY <1>4, <2>1
  <1>6. ASSUME NEW j \in J, m < j
        PROVE  Rank(J, m) < Rank(J, j)
    <2>1. j - 1 \in Nat /\ m <= j - 1 /\ (j - 1) + 1 = j
      BY <1>6
    <2>2. Rank(J, m) <= Rank(J, j - 1)
      BY <1>5, <2>1
    <2>3. Rank(J, j) = Rank(J, j - 1) + 1
      BY <1>1, <2>1
    <2>4. QED
      BY <1>1, <2>1, <2>2, <2>3
  <1>7. QED
    BY <1>5, <1>6

\* No two places of J have as many before them.
LEMMA RanksDiffer ==
    ASSUME NEW N \in Nat, NEW J \in SUBSET (1 .. N), NEW j \in J, NEW k \in J,
           Rank(J, j - 1) = Rank(J, k - 1)
    PROVE  j = k
  <1>1. ASSUME NEW a \in J, NEW b \in J, a < b
        PROVE  Rank(J, a - 1) # Rank(J, b - 1)
    <2>1. a \in Nat /\ b - 1 \in Nat /\ a <= b - 1
      BY <1>1
    <2>2. Rank(J, a - 1) \in Nat /\ Rank(J, a) = Rank(J, a - 1) + 1 /\ Rank(J, b - 1) \in Nat
      BY RankBefore
    <2>3. Rank(J, a) <= Rank(J, b - 1)
      BY <2>1, RankGrows
    <2>4. QED
      BY <2>2, <2>3
  <1>2. ~(j < k) /\ ~(k < j)
    BY <1>1
  <1>3. QED
    BY <1>2

\* Place(J, k) is the k-th place of J: they are in order, and each place of J
\* is the one of its rank.
LEMMA PlacesInOrder ==
    ASSUME NEW N \in Nat, NEW J \in SUBSET (1 .. N)
    PROVE  /\ Cardinality(J) \in Nat
           /\ \A k \in 1 .. Cardinality(J) : Place(J, k) \in J /\ Rank(J, Place(J, k)) = k
           /\ \A k, l \in 1 .. Cardinality(J) : k < l => Place(J, k) < Place(J, l)
           /\ \A j \in J : Rank(J, j) \in 1 .. Cardinality(J) /\ Place(J, Rank(J, j)) = j
  <1> DEFINE C == Cardinality(J)
  <1>1. /\ C \in Nat /\ Rank(J, N) = C /\ Rank(J, 0) = 0
        /\ \A j \in Nat : Rank(J, j) \in Nat
        /\ \A j \in Nat : Rank(J, j + 1) =
              IF j + 1 \in J THEN Rank(J, j) + 1 ELSE Rank(J, j)
    BY RankSteps
  <1> HIDE DEF C
  <1>2. ASSUME NEW k \in 1 .. C
        PROVE  \E j \in J : Rank(J, j) = k
    <2> DEFINE T == {j \in Nat : k <= Rank(J, j)}
    <2>1. N \in T
      BY <1>1
    <2>2. PICK m \in T : \A n \in T : m <= n
      <3>1. T \in SUBSET Nat /\ T # {}
        BY <2>1
      <3> HIDE DEF T
      <3>2. QED
        BY <3>1, LeastNatural
    <2>3. m \in Nat /\ m # 0 /\ k <= Rank(J, m)
      BY <1>1, <2>2
    <2>4. m - 1 \in Nat /\ m - 1 \notin T /\ (m - 1) + 1 = m
      BY <2>2, <2>3
    <2>5. Rank(J, m - 1) \in Nat /\ Rank(J, m - 1) < k
      BY <1>1, <2>4
    <2>6. m \in J /\ Rank(J, m) = Rank(J, m - 1) + 1
      <3>1. Rank(J, m) = IF m \in J THEN Rank(J, m - 1) + 1 ELSE Rank(J, m - 1)
        BY <1>1, <2>4
      <3>2. Rank(J, m) # Rank(J, m - 1)
        BY <2>3, <2>5
      <3>3. QED
        BY <3>1, <3>2
    <2>7. Rank(J, m) = k
      BY <2>3, <2>5, <2>6
    <2>8. QED
      BY <2>6, <2>7
  <1>3. \A k \in 1 .. C : Place(J, k) \in J /\ Rank(J, Place(J, k)) = k
    BY <1>2 DEF Place, Rank
  <1>p. \A j \in J : j \in Nat
    OBVIOUS
  <1>4. ASSUME NEW m \in J, NEW j \in J, m < j
        PROVE  Rank(J, m) < Rank(J, j)
    <2>1. m \in Nat
      BY <1>p
    <2>2. QED
      BY <1>4, <2>1, RankGrows
  <1>5. ASSUME NEW k \in 1 .. C, NEW l \in 1 .. C, k < l
        PROVE  Place(J, k) < Place(J, l)
    <2>1. Place(J, k) \in 1 .. N /\ Place(J, l) \in 1 .. N
      BY <1>3
    <2>2. ~(Place(J, l) < Place(J, k))
      <3>1. SUFFICES ASSUME Place(J, l) < Place(J, k) PROVE FALSE
        OBVIOUS
      <3>2. Rank(J, Place(J, l)) < Rank(J, Place(J, k))
        BY <1>3, <1>4, <3>1
      <3>3. QED
        BY <1>3, <1>5, <3>2
    <2>3. Place(J, l) # Place(J, k)
      BY <1>3, <1>5
    <2>4. QED
      BY <2>1, <2>2, <2>3
  <1>6. ASSUME NEW j \in J
        PROVE  Rank(J, j) \in 1 .. C /\ Place(J, Rank(J, j)) = j
    <2>1. 0 \in Nat /\ 0 < j /\ j \in Nat /\ N \in Nat /\ j <= N
      OBVIOUS
    <2>2. Rank(J, 0) < Rank(J, j) /\ Rank(J, j) <= Rank(J, N)
      BY <2>1, RankGrows
    <2>3. Rank(J, j) \in 1 .. C
      BY <1>1, <2>1, <2>2
    <2>4. Place(J, Rank(J, j)) \in J /\ Rank(J, Place(J, Rank(J, j))) = Rank(J, j)
      BY <1>3, <2>3
    <2>5. ~(Place(J, Rank(J, j)) < j) /\ ~(j < Place(J, Rank(J, j)))
      <3>1. Rank(J, j) \in Nat
        BY <1>1, <2>1
      <3> DEFINE p == Place(J, Rank(J, j))
      <3>2. p \in J /\ Rank(J, p) = Rank(J, j)
        BY <2>4
      <3> HIDE DEF p
      <3>3. ~(p < j) /\ ~(j < p)
        BY <1>4, <3>1, <3>2
      <3>4. QED
        BY <3>3 DEF p
    <2>6. Place(J, Rank(J, j)) \in 1 .. N /\ j \in 1 .. N
      BY <2>4
    <2>7. QED
      BY <2>3, <2>5, <2>6
  <1>7. QED
    BY <1>1, <1>3, <1>5, <1>6 DEF C

-----------------------------------------------------------------------------
(* What sanitize makes of a name.                                           *)

\* A sequence is a function on its places.
LEMMA PlacesOf ==
    ASSUME NEW S, NEW s \in Seq(S)
    PROVE  Len(s) \in Nat /\ DOMAIN s = 1 .. Len(s) /\ \A j \in 1 .. Len(s) : s[j] \in S
  OBVIOUS

\* The other way round: a function on 1 .. n is a sequence.
LEMMA SequenceFrom ==
    ASSUME NEW S, NEW n \in Nat, NEW s \in [1 .. n -> S]
    PROVE  s \in Seq(S) /\ Len(s) = n
  OBVIOUS

\* Unnamed has this form.
LEMMA Triple ==
    ASSUME NEW S, NEW a \in S, NEW b \in S
    PROVE  <<a, b, b>> \in Seq(S) /\ <<a, b, b>> # <<>>
  OBVIOUS

\* A sequence over S is one over any larger set.
LEMMA SequenceWithin ==
    ASSUME NEW S, NEW T, S \subseteq T, NEW s \in Seq(S)
    PROVE  s \in Seq(T)
  OBVIOUS

\* Sequences with the same places have the same length.
LEMMA SameInterval ==
    ASSUME NEW m \in Nat, NEW n \in Nat, 1 .. m = 1 .. n
    PROVE  m = n
  <1>1. m # 0 => m \in 1 .. n
    OBVIOUS
  <1>2. n # 0 => n \in 1 .. m
    OBVIOUS
  <1>3. QED
    BY <1>1, <1>2

\* No two blanks in a row.
Spaced(s) == \A k \in 2 .. Len(s) : ~(s[k - 1] = " " /\ s[k] = " ")

\* A span of a sequence, and what a span has.
LEMMA SpanElements ==
    ASSUME NEW S, NEW s \in Seq(S), NEW a \in 1 .. Len(s), NEW b \in a .. Len(s)
    PROVE  /\ SubSeq(s, a, b) \in Seq(S) /\ Len(SubSeq(s, a, b)) = b - a + 1
           /\ \A k \in 1 .. b - a + 1 : SubSeq(s, a, b)[k] = s[a + k - 1]
  OBVIOUS

\* A span has no two blanks in a row if the sequence has none.
LEMMA SpanOf ==
    ASSUME NEW S, NEW s \in Seq(S), NEW a \in 1 .. Len(s), NEW b \in a .. Len(s)
    PROVE  /\ SubSeq(s, a, b) \in Seq(S) /\ Len(SubSeq(s, a, b)) = b - a + 1
           /\ Len(SubSeq(s, a, b)) \in 1 .. Len(s)
           /\ Spaced(s) => Spaced(SubSeq(s, a, b))
  <1> DEFINE p == SubSeq(s, a, b)
             n == Len(s)
  <1>1. n \in Nat /\ a \in Nat /\ b \in Nat /\ 1 <= a /\ a <= b /\ b <= n
    OBVIOUS
  <1>2. /\ p \in Seq(S) /\ Len(p) = b - a + 1
        /\ \A k \in 1 .. b - a + 1 : p[k] = s[a + k - 1]
    OBVIOUS
  <1> HIDE DEF p, n
  <1>3. Len(p) \in 1 .. n
    BY <1>1, <1>2
  <1>4. ASSUME \A k \in 2 .. n : ~(s[k - 1] = " " /\ s[k] = " "),
               NEW k \in 2 .. b - a + 1
        PROVE  ~(p[k - 1] = " " /\ p[k] = " ")
    <2>1. k - 1 \in 1 .. b - a + 1 /\ k \in 1 .. b - a + 1 /\ a + k - 1 \in 2 .. n
      BY <1>1
    <2>2. a + (k - 1) - 1 = (a + k - 1) - 1
      BY <1>1
    <2>3. p[k - 1] = s[(a + k - 1) - 1] /\ p[k] = s[a + k - 1]
      BY <1>2, <2>1, <2>2
    <2>4. QED
      BY <1>4, <2>1, <2>3
  <1>5. Spaced(s) => Spaced(p)
    BY <1>2, <1>4 DEF Spaced, n
  <1>6. QED
    BY <1>2, <1>3, <1>5 DEF p, n

\* Stripping leaves a span, or nothing.
LEMMA Stripped ==
    ASSUME NEW S, NEW s \in Seq(S), NEW c
    PROVE  /\ Strip(s, c) \in Seq(S)
           /\ Spaced(s) => Spaced(Strip(s, c))
           /\ StripRight(s, c) \in Seq(S)
           /\ Len(StripRight(s, c)) <= Len(s)
           /\ Others(s, c) # {} => Len(StripRight(s, c)) >= 1
           /\ Spaced(s) => Spaced(StripRight(s, c))
  <1> DEFINE J == Others(s, c)
             n == Len(s)
  <1>1. n \in Nat /\ J \in SUBSET (1 .. n)
    BY DEF Others
  <1>2. CASE J = {}
    <2>1. <<>> \in Seq(S) /\ Len(<<>>) = 0 /\ Spaced(<<>>)
      BY DEF Spaced
    <2>2. Strip(s, c) = <<>> /\ StripRight(s, c) = <<>>
      BY <1>2 DEF Strip, StripRight
    <2>3. QED
      BY <1>1, <1>2, <2>1, <2>2
  <1>3. CASE J # {}
    <2> DEFINE a == Min(J)
               b == Max(J)
    <2>1. a \in J /\ b \in J /\ a <= b
      <3> HIDE DEF J, n
      <3>1. QED
        BY <1>1, <1>3, FirstAndLast
    <2>2. Strip(s, c) = SubSeq(s, a, b) /\ StripRight(s, c) = SubSeq(s, 1, b)
      BY <1>3 DEF Strip, StripRight
    <2>3. a \in 1 .. n /\ b \in a .. n /\ 1 \in 1 .. n /\ b \in 1 .. n
      <3> HIDE DEF J, n, a, b
      <3>1. QED
        BY <1>1, <2>1
    <2> HIDE DEF J, a, b
    <2>4. /\ SubSeq(s, a, b) \in Seq(S)
          /\ Spaced(s) => Spaced(SubSeq(s, a, b))
      BY <2>3, SpanOf
    <2>5. /\ SubSeq(s, 1, b) \in Seq(S) /\ Len(SubSeq(s, 1, b)) \in 1 .. n
          /\ Spaced(s) => Spaced(SubSeq(s, 1, b))
      BY <2>3, SpanOf
    <2>6. QED
      BY <1>1, <2>2, <2>4, <2>5
  <1>4. QED
    BY <1>2, <1>3

\* The characters at some places are those, in order.
LEMMA CharactersAt ==
    ASSUME NEW S, NEW s \in Seq(S), NEW J \in SUBSET (1 .. Len(s))
    PROVE  /\ At(s, J) \in Seq({s[j] : j \in J}) /\ Len(At(s, J)) = Cardinality(J)
           /\ Cardinality(J) \in Nat
           /\ \A k \in 1 .. Cardinality(J) : At(s, J)[k] = s[Place(J, k)]
  <1> DEFINE C == Cardinality(J)
  <1>1. C \in Nat /\ \A k \in 1 .. C : Place(J, k) \in J
    <2>1. Len(s) \in Nat
      OBVIOUS
    <2>2. QED
      BY <2>1, PlacesInOrder
  <1>2. At(s, J) = [k \in 1 .. C |-> s[Place(J, k)]]
    BY DEF At
  <1> HIDE DEF C
  <1>3. At(s, J) \in [1 .. C -> {s[j] : j \in J}]
    BY <1>1, <1>2
  <1>4. At(s, J) \in Seq({s[j] : j \in J}) /\ Len(At(s, J)) = C
    BY <1>1, <1>3
  <1>5. QED
    BY <1>1, <1>2, <1>4 DEF C

\* Collapsed leaves no two blanks in a row: between two blanks that are left
\* lies another place that is left.
LEMMA CollapsedIsSpaced ==
    ASSUME NEW S, NEW s \in Seq(S)
    PROVE  Collapsed(s) \in Seq(S) /\ Spaced(Collapsed(s))
  <1> DEFINE N == Len(s)
             J == {j \in 1 .. N : j = 1 \/ s[j] # " " \/ s[j - 1] # " "}
             C == Cardinality(J)
             r == At(s, J)
  <1>1. N \in Nat /\ DOMAIN s = 1 .. N /\ \A j \in 1 .. N : s[j] \in S
    OBVIOUS
  <1>2. J \in SUBSET (1 .. N) /\ Collapsed(s) = r
    BY <1>1 DEF Collapsed
  <1>3. \A j \in 1 .. N : j \in J <=> (j = 1 \/ s[j] # " " \/ s[j - 1] # " ")
    OBVIOUS
  <1> HIDE DEF J
  <1>4. /\ r \in Seq({s[j] : j \in J}) /\ Len(r) = C /\ C \in Nat
        /\ \A k \in 1 .. C : r[k] = s[Place(J, k)]
    BY <1>2, CharactersAt
  <1> HIDE DEF N
  <1>5. /\ \A k \in 1 .. C : Place(J, k) \in J
        /\ \A k, l \in 1 .. C : k < l => Place(J, k) < Place(J, l)
        /\ \A j \in J : Rank(J, j) \in 1 .. C /\ Place(J, Rank(J, j)) = j
    BY <1>1, <1>2, PlacesInOrder
  <1> HIDE DEF r, C
  <1>6. r \in Seq(S)
    <2>1. {s[j] : j \in J} \subseteq S
      BY <1>1, <1>2
    <2>2. QED
      BY <1>4, <2>1
  <1>7. ASSUME NEW k \in 2 .. C, r[k - 1] = " ", r[k] = " "
        PROVE  FALSE
    <2> DEFINE p == Place(J, k - 1)
               q == Place(J, k)
    <2>1. k - 1 \in 1 .. C /\ k \in 1 .. C /\ k - 1 < k
      BY <1>4
    <2>2. p \in J /\ q \in J /\ p < q /\ s[p] = " " /\ s[q] = " "
      BY <1>4, <1>5, <1>7, <2>1
    <2> HIDE DEF p, q
    <2>3. p \in Nat /\ q \in Nat /\ q \in 1 .. N /\ q # 1 /\ q - 1 \in 1 .. N
      <3>1. p \in 1 .. N /\ q \in 1 .. N /\ p < q
        BY <1>2, <2>2
      <3>2. QED
        BY <1>1, <3>1
    <2>4. s[q - 1] # " " /\ q - 1 # p
      <3>1. s[q - 1] # " "
        BY <1>3, <2>2, <2>3
      <3>2. QED
        BY <2>2, <3>1
    <2>5. q - 1 \in J
      BY <1>3, <2>3, <2>4
    <2> DEFINE m == Rank(J, q - 1)
    <2>6. m \in 1 .. C /\ Place(J, m) = q - 1
      BY <1>5, <2>5
    <2> HIDE DEF m
    <2>7. m # k - 1 /\ m # k
      <3>1. m = k - 1 => q - 1 = p
        BY <2>6 DEF p
      <3>2. m = k => q - 1 = q
        BY <2>6 DEF q
      <3>3. QED
        <4>1. q - 1 # q
          BY <2>3
        <4>2. QED
          BY <2>4, <3>1, <3>2, <4>1
    <2>8. m < k - 1 => q - 1 < p
      BY <1>5, <2>1, <2>6 DEF p
    <2>9. k < m => q < q - 1
      BY <1>5, <2>1, <2>6 DEF q
    <2>10. m < k - 1 \/ k < m
      BY <1>4, <2>6, <2>7
    <2>11. ~(q - 1 < p) /\ ~(q < q - 1)
      <3>1. p < q
        BY <2>2
      <3>2. QED
        BY <2>3, <3>1
    <2>12. QED
      BY <2>8, <2>9, <2>10, <2>11
  <1>8. Spaced(r)
    BY <1>4, <1>7 DEF Spaced
  <1>9. QED
    BY <1>2, <1>6, <1>8

\* Separators and illegal characters are gone once both substitutions are made.
LEMMA LegalCharacters ==
    ASSUME NEW S, " " \in S, NEW s \in Seq(S)
    PROVE  Legal(Separated(s)) \in Seq(S \ {":", "*"})
  <1> DEFINE t == Separated(s)
             J == Others(t, "*")
  <1>1. t \in Seq(S \ {":"})
    <2>1. Len(s) \in Nat /\ DOMAIN s = 1 .. Len(s) /\ \A j \in 1 .. Len(s) : s[j] \in S
      BY PlacesOf
    <2>2. t = [j \in 1 .. Len(s) |-> IF s[j] = ":" THEN " " ELSE s[j]]
      BY <2>1 DEF Separated
    <2>3. t \in [1 .. Len(s) -> S \ {":"}]
      BY <2>1, <2>2
    <2> HIDE DEF t
    <2>4. QED
      BY <2>1, <2>3, SequenceFrom
  <1>2. J \in SUBSET (1 .. Len(t)) /\ \A j \in J : t[j] \in S \ {":", "*"}
    <2> HIDE DEF t
    <2>1. DOMAIN t = 1 .. Len(t) /\ \A j \in 1 .. Len(t) : t[j] \in S \ {":"}
      BY <1>1, PlacesOf
    <2>2. QED
      BY <2>1 DEF Others
  <1>3. Legal(t) = At(t, J)
    BY DEF Legal
  <1> HIDE DEF t, J
  <1>4. At(t, J) \in Seq({t[j] : j \in J})
    BY <1>1, <1>2, CharactersAt
  <1>5. {t[j] : j \in J} \subseteq S \ {":", "*"}
    BY <1>2
  <1>6. At(t, J) \in Seq(S \ {":", "*"})
    <2> DEFINE r == At(t, J)
               X == {t[j] : j \in J}
    <2> HIDE DEF r, X
    <2>1. r \in Seq(X) /\ X \subseteq S \ {":", "*"}
      BY <1>4, <1>5 DEF r, X
    <2>2. r \in Seq(S \ {":", "*"})
      BY <2>1, SequenceWithin
    <2>3. QED
      BY <2>2 DEF r
  <1>7. QED
    BY <1>3, <1>6 DEF t

\* What is left after a cut at MaxBaseLen is not all blanks, for two blanks in
\* a row were collapsed before.
LEMMA TruncatedName ==
    ASSUME NEW S, NEW s \in Seq(S), s # <<>>, Spaced(s)
    PROVE  /\ Truncated(s) \in Seq(S) /\ Len(Truncated(s)) \in 1 .. MaxBaseLen
           /\ Spaced(Truncated(s))
  <1>1. MaxBaseLen \in Nat /\ MaxBaseLen > 1 /\ Len(s) \in Nat /\ Len(s) # 0
    BY MaxBaseLenAssumption
  <1>2. CASE ~(Len(s) > MaxBaseLen)
    <2>1. Truncated(s) = s
      BY <1>2 DEF Truncated
    <2>2. QED
      BY <1>1, <1>2, <2>1
  <1>3. CASE Len(s) > MaxBaseLen
    <2> DEFINE p == SubSeq(s, 1, MaxBaseLen)
    <2>1. Truncated(s) = StripRight(p, " ")
      BY <1>3 DEF Truncated
    <2>2. 1 \in 1 .. Len(s) /\ MaxBaseLen \in 1 .. Len(s)
      BY <1>1, <1>3
    <2>3. p \in Seq(S) /\ Len(p) = MaxBaseLen /\ Spaced(p)
      <3> HIDE DEF p
      <3>1. p \in Seq(S) /\ Len(p) = MaxBaseLen - 1 + 1 /\ Spaced(p)
        BY <2>2, SpanOf DEF p
      <3>2. QED
        BY <1>1, <3>1
    <2> HIDE DEF p
    <2>4. ~(p[1] = " " /\ p[2] = " ")
      <3>1. 2 \in 2 .. Len(p) /\ 2 - 1 = 1
        BY <1>1, <2>3
      <3>2. QED
        BY <2>3, <3>1 DEF Spaced
    <2>5. Others(p, " ") # {}
      <3>1. 1 \in DOMAIN p /\ 2 \in DOMAIN p
        BY <1>1, <2>3
      <3>2. QED
        BY <2>4, <3>1 DEF Others
    <2>6. /\ StripRight(p, " ") \in Seq(S) /\ Spaced(StripRight(p, " "))
          /\ Len(StripRight(p, " ")) <= MaxBaseLen /\ Len(StripRight(p, " ")) >= 1
      BY <2>3, <2>5, Stripped
    <2>7. QED
      <3> DEFINE q == StripRight(p, " ")
      <3> HIDE DEF q
      <3>1. q \in Seq(S) /\ Spaced(q) /\ Len(q) <= MaxBaseLen /\ Len(q) >= 1
        BY <2>6 DEF q
      <3>2. Len(q) \in 1 .. MaxBaseLen
        BY <1>1, <3>1
      <3>3. QED
        BY <2>1, <3>1, <3>2 DEF q
  <1>4. QED
    BY <1>2, <1>3

\* A name without its two last characters.
LEMMA StemOf ==
    ASSUME NEW S, NEW b \in Seq(S), NEW s \in Seq(S), Len(b) >= 1, Len(s) = Len(b) + 2,
           \A k \in 1 .. Len(b) : s[k] = b[k]
    PROVE  SubSeq(s, 1, Len(s) - 2) = b
  <1> DEFINE p == SubSeq(s, 1, Len(s) - 2)
             m == Len(b)
  <1>1. m \in Nat /\ DOMAIN b = 1 .. m /\ Len(s) - 2 = m
    BY PlacesOf
  <1>2. p = [k \in 1 .. m |-> s[1 + k - 1]]
    BY <1>1
  <1>3. \A k \in 1 .. m : 1 + k - 1 = k
    BY <1>1
  <1>4. p = [k \in 1 .. m |-> b[k]]
    BY <1>2, <1>3
  <1>5. QED
    BY <1>1, <1>4

-----------------------------------------------------------------------------
(* Which characters are left of a name.                                     *)

\* A function that runs through a set of places in order gives its places.
Runs(f, n, J, N) ==
    /\ N \in Nat /\ J \in SUBSET (1 .. N) /\ n \in Nat /\ f \in [1 .. n -> J]
    /\ \A k, l \in 1 .. n : k < l => f[k] < f[l]
    /\ \A j \in J : \E k \in 1 .. n : f[k] = j

\* There is only one such function, Place itself.
LEMMA RunsThrough ==
    ASSUME NEW N, NEW J, NEW n, NEW f, Runs(f, n, J, N)
    PROVE  Cardinality(J) = n /\ \A k \in 1 .. n : Place(J, k) = f[k]
  <1>n. N \in Nat /\ J \in SUBSET (1 .. N) /\ n \in Nat
    BY DEF Runs
  <1>r. /\ \A k, l \in 1 .. n : k < l => f[k] < f[l]
        /\ \A j \in J : \E k \in 1 .. n : f[k] = j
    BY DEF Runs
  <1>p. (\A j \in J : j \in Nat /\ j >= 1) /\ \A k \in 1 .. n : f[k] \in J
    <2>1. \A j \in J : j \in Nat /\ j >= 1
      BY <1>n
    <2>2. QED
      BY <2>1 DEF Runs
  <1> DEFINE T == {k \in Nat : k \in 1 .. n => Rank(J, f[k]) = k}
  <1>1. 0 \in T
    OBVIOUS
  <1>2. ASSUME NEW k \in Nat, k \in T
        PROVE  k + 1 \in T
    <2>n. SUFFICES ASSUME k + 1 \in 1 .. n PROVE Rank(J, f[k + 1]) = k + 1
      <3>1. k + 1 \in Nat
        OBVIOUS
      <3>2. QED
        BY <3>1
    <2> DEFINE j == f[k + 1]
    <2>1. j \in J /\ j \in Nat /\ j >= 1
      BY <1>p, <2>n
    <2> HIDE DEF j
    <2>2. Rank(J, j - 1) \in Nat /\ Rank(J, j) = Rank(J, j - 1) + 1
      BY <1>n, <2>1, RankBefore
    <2>3. CASE k = 0
      <3>1. ASSUME NEW m \in J PROVE ~(m < j)
        <4>1. PICK l \in 1 .. n : f[l] = m
          BY <1>r
        <4>2. l = 1 \/ 1 < l
          OBVIOUS
        <4>3. f[1] = j /\ 1 \in 1 .. n
          BY <2>n, <2>3 DEF j
        <4>4. m = j \/ j < m
          BY <1>r, <4>1, <4>2, <4>3
        <4>5. m \in Nat
          BY <1>p
        <4>6. QED
          BY <2>1, <4>4, <4>5
      <3>2. J \cap (1 .. j - 1) = {}
        BY <2>1, <3>1
      <3>3. Rank(J, j - 1) = 0
        BY <3>2, FS_EmptySet DEF Rank
      <3>4. QED
        BY <2>2, <2>3, <3>3 DEF j
    <2>4. CASE k # 0
      <3> DEFINE i0 == f[k]
      <3>1. k \in 1 .. n /\ k < k + 1
        BY <1>n, <2>n, <2>4
      <3>2. i0 \in J /\ i0 \in Nat /\ i0 < j /\ Rank(J, i0) = k
        <4>1. Rank(J, i0) = k
          BY <1>2, <3>1
        <4>2. i0 < j
          BY <1>r, <2>n, <3>1 DEF j
        <4>3. i0 \in J /\ i0 \in Nat
          BY <1>p, <3>1
        <4>4. QED
          BY <4>1, <4>2, <4>3
      <3>3. ASSUME NEW m \in J PROVE ~(i0 < m /\ m < j)
        <4>1. PICK l \in 1 .. n : f[l] = m
          BY <1>r
        <4>2. l < k \/ l = k \/ l = k + 1 \/ k + 1 < l
          BY <3>1
        <4>3. m < i0 \/ m = i0 \/ m = j \/ j < m
          BY <1>r, <2>n, <3>1, <4>1, <4>2 DEF j
        <4>4. m \in Nat
          BY <1>p
        <4> HIDE DEF i0
        <4>5. QED
          BY <2>1, <3>2, <4>3, <4>4
      <3> HIDE DEF i0
      <3>4. J \cap (1 .. j - 1) = J \cap (1 .. i0)
        BY <2>1, <3>2, <3>3
      <3>5. Rank(J, j - 1) = k
        BY <3>2, <3>4 DEF Rank
      <3>6. QED
        BY <2>2, <3>5 DEF j
    <2>5. QED
      BY <2>3, <2>4
  <1>3. \A k \in Nat : k \in T
    <2> HIDE DEF T
    <2>1. QED
      BY <1>1, <1>2, Induction
  <1>4. \A k \in 1 .. n : f[k] \in J /\ Rank(J, f[k]) = k
    BY <1>3, <1>p
  <1> DEFINE C == Cardinality(J)
  <1>5. /\ C \in Nat
        /\ \A k \in 1 .. C : Place(J, k) \in J /\ Rank(J, Place(J, k)) = k
        /\ \A j \in J : Rank(J, j) \in 1 .. C /\ Place(J, Rank(J, j)) = j
    BY <1>n, PlacesInOrder
  <1> HIDE DEF C
  <1>6. \A k \in 1 .. n : k \in 1 .. C
    BY <1>4, <1>5
  <1>7. \A k \in 1 .. C : k \in 1 .. n
    <2>1. ASSUME NEW k \in 1 .. C PROVE k \in 1 .. n
      <3>1. PICK l \in 1 .. n : f[l] = Place(J, k)
        BY <1>5, <1>r
      <3>2. k = l
        BY <1>4, <1>5, <3>1
      <3>3. QED
        BY <3>2
    <2>2. QED
      BY <2>1
  <1>8. C = n
    <2>1. 1 .. C = 1 .. n
      BY <1>6, <1>7
    <2>2. QED
      BY <1>n, <1>5, <2>1, SameInterval
  <1>9. \A k \in 1 .. n : Place(J, k) = f[k]
    BY <1>4, <1>5
  <1>10. QED
    BY <1>8, <1>9 DEF C

\* The places of the characters that are not in P.
Kept(s, P) == {j \in DOMAIN s : s[j] \notin P}

\* Dropping characters of P, or changing them to others of P, leaves the rest:
\* g says where each character of t was in s.
Thins(g, s, t, P) ==
    /\ g \in [1 .. Len(t) -> 1 .. Len(s)]
    /\ \A k, l \in 1 .. Len(t) : k < l => g[k] < g[l]
    /\ \A k \in 1 .. Len(t) : t[k] = s[g[k]] \/ (t[k] \in P /\ s[g[k]] \in P)
    /\ \A j \in Kept(s, P) : \E k \in 1 .. Len(t) : g[k] = j

\* So what is left of P's others is the same before and after.
LEMMA OthersKept ==
    ASSUME NEW S, NEW R, NEW P, NEW s \in Seq(S), NEW t \in Seq(R), NEW g, Thins(g, s, t, P)
    PROVE  At(t, Kept(t, P)) = At(s, Kept(s, P))
  <1> DEFINE K == Kept(t, P)
             J == Kept(s, P)
             n == Cardinality(K)
             f == [k \in 1 .. n |-> g[Place(K, k)]]
             N == Len(s)
             M == Len(t)
  <1>1. N \in Nat /\ DOMAIN s = 1 .. N /\ M \in Nat /\ DOMAIN t = 1 .. M
    BY PlacesOf
  <1>2. /\ J \in SUBSET (1 .. N) /\ \A j \in 1 .. N : j \in J <=> s[j] \notin P
        /\ K \in SUBSET (1 .. M) /\ \A k \in 1 .. M : k \in K <=> t[k] \notin P
    BY <1>1 DEF Kept
  <1>3. \A k \in K : g[k] \in J /\ t[k] = s[g[k]]
    BY <1>2 DEF Thins
  <1>4. \A j \in J : \E k \in K : g[k] = j
    BY <1>2 DEF Thins
  <1>5. \A k, l \in K : k < l => g[k] < g[l]
    BY <1>2 DEF Thins
  <1> HIDE DEF J, K, N, M
  <1>6. /\ n \in Nat
        /\ \A k \in 1 .. n : Place(K, k) \in K
        /\ \A k, l \in 1 .. n : k < l => Place(K, k) < Place(K, l)
        /\ \A j \in K : Rank(K, j) \in 1 .. n /\ Place(K, Rank(K, j)) = j
    BY <1>1, <1>2, PlacesInOrder
  <1> HIDE DEF n
  <1>7. f \in [1 .. n -> J] /\ \A k, l \in 1 .. n : k < l => f[k] < f[l]
    BY <1>3, <1>5, <1>6
  <1>8. \A j \in J : \E k \in 1 .. n : f[k] = j
    BY <1>4, <1>6
  <1>9. \A k \in 1 .. n : f[k] = g[Place(K, k)]
    OBVIOUS
  <1> HIDE DEF f
  <1>10. Cardinality(J) = n /\ \A k \in 1 .. n : Place(J, k) = f[k]
    <2>1. N \in Nat /\ J \in SUBSET (1 .. N) /\ n \in Nat
      BY <1>1, <1>2, <1>6
    <2>2. Runs(f, n, J, N)
      BY <1>7, <1>8, <2>1 DEF Runs
    <2>3. QED
      BY <2>2, RunsThrough
  <1>11. At(t, K) = [k \in 1 .. n |-> t[Place(K, k)]] /\ At(s, J) = [k \in 1 .. n |-> s[Place(J, k)]]
    BY <1>10 DEF At, n
  <1>12. \A k \in 1 .. n : t[Place(K, k)] = s[Place(J, k)]
    <2>1. ASSUME NEW k \in 1 .. n
          PROVE  t[Place(K, k)] = s[Place(J, k)]
      <3>1. Place(J, k) = g[Place(K, k)] /\ Place(K, k) \in K
        BY <1>6, <1>9, <1>10
      <3>2. QED
        BY <1>3, <3>1
    <2>2. QED
      BY <2>1
  <1>13. At(t, K) = At(s, J)
    BY <1>11, <1>12
  <1>14. QED
    BY <1>13 DEF K, J

\* A prefix in places is one as a sequence.
LEMMA PrefixByPlaces ==
    ASSUME NEW S, NEW p \in Seq(S), NEW s \in Seq(S), Len(p) <= Len(s),
           \A k \in 1 .. Len(p) : p[k] = s[k]
    PROVE  IsPrefix(p, s)
  BY DEF IsPrefix

\* And a prefix has those places.
LEMMA PrefixElements ==
    ASSUME NEW S, NEW p \in Seq(S), NEW s \in Seq(S), IsPrefix(p, s)
    PROVE  Len(p) <= Len(s) /\ \A k \in 1 .. Len(p) : p[k] = s[k]
  <1>1. Len(p) <= Len(s) /\ SubSeq(p, 1, Len(p)) = SubSeq(s, 1, Len(p))
    BY DEF IsPrefix
  <1>2. \A k \in 1 .. Len(p) : SubSeq(p, 1, Len(p))[k] = p[k] /\ SubSeq(s, 1, Len(p))[k] = s[k]
    BY <1>1
  <1>3. QED
    BY <1>1, <1>2

\* What is left of a prefix is a prefix of what is left.
LEMMA OthersOfPrefix ==
    ASSUME NEW S, NEW P, NEW p \in Seq(S), NEW s \in Seq(S), Len(p) <= Len(s),
           \A k \in 1 .. Len(p) : p[k] = s[k]
    PROVE  IsPrefix(At(p, Kept(p, P)), At(s, Kept(s, P)))
  <1> DEFINE K == Kept(p, P)
             J == Kept(s, P)
             N == Len(s)
             M == Len(p)
             m == Cardinality(K)
             C == Cardinality(J)
  <1>1. /\ N \in Nat /\ DOMAIN s = 1 .. N /\ \A j \in 1 .. N : s[j] \in S
        /\ M \in Nat /\ DOMAIN p = 1 .. M /\ \A j \in 1 .. M : p[j] \in S
    BY PlacesOf
  <1>2. J \in SUBSET (1 .. N) /\ K \in SUBSET (1 .. M)
    BY <1>1 DEF Kept
  <1>3. K = J \cap (1 .. M)
    BY <1>1 DEF Kept
  <1>4. /\ At(p, K) \in Seq({p[j] : j \in K}) /\ Len(At(p, K)) = m
        /\ \A k \in 1 .. m : At(p, K)[k] = p[Place(K, k)]
    <2> HIDE DEF K
    <2>1. QED
      BY <1>2, CharactersAt
  <1>5. /\ At(s, J) \in Seq({s[j] : j \in J}) /\ Len(At(s, J)) = C
        /\ \A k \in 1 .. C : At(s, J)[k] = s[Place(J, k)]
    <2> HIDE DEF J
    <2>1. QED
      BY <1>2, CharactersAt
  <1> HIDE DEF J, K
  <1>6. M <= N /\ \A k \in 1 .. M : p[k] = s[k]
    OBVIOUS
  <1> HIDE DEF N, M
  <1>7. m \in Nat /\ \A k \in 1 .. m : Place(K, k) \in K /\ Rank(K, Place(K, k)) = k
    BY <1>1, <1>2, PlacesInOrder
  <1>8. C \in Nat /\ \A j \in J : Rank(J, j) \in 1 .. C /\ Place(J, Rank(J, j)) = j
    BY <1>1, <1>2, PlacesInOrder
  <1> HIDE DEF m, C
  <1>9. ASSUME NEW k \in 1 .. m
        PROVE  k \in 1 .. C /\ Place(J, k) = Place(K, k) /\ Place(K, k) \in 1 .. M
    <2> DEFINE j == Place(K, k)
    <2>1. j \in K /\ Rank(K, j) = k
      BY <1>7
    <2> HIDE DEF j
    <2>2. j \in J /\ j \in 1 .. M
      BY <1>3, <2>1
    <2>3. K \cap (1 .. j) = J \cap (1 .. j)
      BY <1>1, <1>3, <2>2
    <2>4. Rank(J, j) = k
      BY <2>1, <2>3 DEF Rank
    <2>5. QED
      BY <1>8, <2>2, <2>4 DEF j
  <1>10. m <= C
    <2>1. CASE m = 0
      BY <1>8, <2>1
    <2>2. CASE m # 0
      <3>1. m \in 1 .. m
        BY <1>7, <2>2
      <3>2. m \in 1 .. C
        BY <1>9, <3>1
      <3>3. QED
        BY <1>8, <3>2
    <2>3. QED
      BY <2>1, <2>2
  <1> DEFINE q == At(p, K)
             r == At(s, J)
  <1>11. q \in Seq(S) /\ r \in Seq(S)
    <2>1. {p[j] : j \in K} \subseteq S /\ {s[j] : j \in J} \subseteq S
      BY <1>1, <1>2
    <2>2. QED
      BY <1>4, <1>5, <2>1, SequenceWithin
  <1>12. \A k \in 1 .. m : q[k] = r[k]
    BY <1>4, <1>5, <1>6, <1>9
  <1>13. Len(q) = m /\ Len(r) = C
    BY <1>4, <1>5
  <1> HIDE DEF q, r
  <1>14. IsPrefix(q, r)
    BY <1>10, <1>11, <1>12, <1>13, PrefixByPlaces
  <1>15. QED
    BY <1>14 DEF q, r, K, J

\* Stripping a character of P.
LEMMA StripKeeps ==
    ASSUME NEW S, NEW s \in Seq(S), NEW P, NEW c \in P
    PROVE  At(Strip(s, c), Kept(Strip(s, c), P)) = At(s, Kept(s, P))
  <1> DEFINE J == Others(s, c)
             n == Len(s)
             t == Strip(s, c)
  <1>1. n \in Nat /\ DOMAIN s = 1 .. n
    BY PlacesOf
  <1>2. J \in SUBSET (1 .. n) /\ \A j \in Kept(s, P) : j \in J
    BY <1>1 DEF Others, Kept
  <1>3. CASE J = {}
    <2> DEFINE g == [k \in 1 .. 0 |-> k]
    <2>1. t = <<>> /\ Kept(s, P) = {}
      BY <1>2, <1>3 DEF Strip
    <2>2. Kept(t, P) = {}
      BY <2>1 DEF Kept
    <2>3. At(t, {}) = At(s, {})
      <3>1. 1 .. Cardinality({}) = {}
        BY FS_EmptySet
      <3>2. QED
        BY <3>1 DEF At
    <2>4. QED
      BY <2>1, <2>2, <2>3
  <1>4. CASE J # {}
    <2> DEFINE a == Min(J)
               b == Max(J)
               m == b - a + 1
    <2>1. a \in J /\ b \in J /\ a <= b /\ \A j \in J : a <= j /\ j <= b
      <3> HIDE DEF J, n
      <3>1. QED
        BY <1>1, <1>2, <1>4, FirstAndLast
    <2>2. t = SubSeq(s, a, b)
      BY <1>4 DEF Strip
    <2>3. a \in 1 .. n /\ b \in a .. n /\ a \in Nat /\ b \in Nat
      <3> HIDE DEF J, n, a, b
      <3>1. QED
        BY <1>1, <1>2, <2>1
    <2> HIDE DEF J, a, b
    <2>4. t \in Seq(S) /\ Len(t) = m /\ \A k \in 1 .. m : t[k] = s[a + k - 1]
      BY <2>2, <2>3, SpanElements
    <2> DEFINE g == [k \in 1 .. m |-> a + k - 1]
    <2> HIDE DEF t, n
    <2>5. g \in [1 .. Len(t) -> 1 .. n] /\ \A k \in 1 .. m : g[k] = a + k - 1
      BY <1>1, <2>3, <2>4
    <2>6. \A k, l \in 1 .. Len(t) : k < l => g[k] < g[l]
      BY <2>3, <2>4
    <2>7. ASSUME NEW j \in J PROVE \E k \in 1 .. Len(t) : g[k] = j
      <3>1. a <= j /\ j <= b /\ j \in Nat
        BY <1>2, <2>1, <2>3
      <3>2. j - a + 1 \in 1 .. m /\ a + (j - a + 1) - 1 = j
        BY <2>3, <3>1
      <3>3. g[j - a + 1] = j
        BY <2>5, <3>2
      <3>4. QED
        BY <2>4, <3>2, <3>3
    <2>8. \A k \in 1 .. Len(t) : t[k] = s[g[k]]
      BY <2>4, <2>5
    <2> HIDE DEF g
    <2>9. \A j \in Kept(s, P) : \E k \in 1 .. Len(t) : g[k] = j
      BY <1>2, <2>7
    <2>10. At(t, Kept(t, P)) = At(s, Kept(s, P))
      <3>1. Thins(g, s, t, P)
        BY <2>5, <2>6, <2>8, <2>9 DEF Thins, n
      <3>2. QED
        BY <2>4, <3>1, OthersKept
    <2>11. QED
      BY <2>10 DEF t
  <1>5. QED
    BY <1>3, <1>4

\* Taking the characters at places that include all those not in P.
LEMMA SelectionKeeps ==
    ASSUME NEW S, NEW s \in Seq(S), NEW P, NEW J \in SUBSET (1 .. Len(s)), Kept(s, P) \subseteq J
    PROVE  At(At(s, J), Kept(At(s, J), P)) = At(s, Kept(s, P))
  <1> DEFINE t == At(s, J)
             n == Len(s)
             C == Cardinality(J)
             X == {s[j] : j \in J}
             g == [k \in 1 .. C |-> Place(J, k)]
  <1>1. n \in Nat
    BY PlacesOf
  <1>2. t \in Seq(X) /\ Len(t) = C /\ C \in Nat /\ \A k \in 1 .. C : t[k] = s[Place(J, k)]
    BY CharactersAt
  <1>3. /\ \A k \in 1 .. C : Place(J, k) \in J
        /\ \A k, l \in 1 .. C : k < l => Place(J, k) < Place(J, l)
        /\ \A j \in J : Rank(J, j) \in 1 .. C /\ Place(J, Rank(J, j)) = j
    BY <1>1, PlacesInOrder
  <1> HIDE DEF t, C, X
  <1>4. \A k \in 1 .. C : g[k] = Place(J, k)
    OBVIOUS
  <1>5. g \in [1 .. Len(t) -> 1 .. Len(s)]
    BY <1>2, <1>3
  <1> HIDE DEF g
  <1>6. \A k, l \in 1 .. Len(t) : k < l => g[k] < g[l]
    BY <1>2, <1>3, <1>4
  <1>7. \A k \in 1 .. Len(t) : t[k] = s[g[k]]
    BY <1>2, <1>4
  <1>8. \A j \in Kept(s, P) : \E k \in 1 .. Len(t) : g[k] = j
    BY <1>2, <1>3, <1>4
  <1>9. At(t, Kept(t, P)) = At(s, Kept(s, P))
    <2>1. Thins(g, s, t, P)
      BY <1>5, <1>6, <1>7, <1>8 DEF Thins
    <2>2. QED
      BY <1>2, <2>1, OthersKept
  <1>10. QED
    BY <1>9 DEF t

\* Changing characters of P to others of P, place by place.
LEMMA ChangeKeeps ==
    ASSUME NEW S, NEW R, NEW s \in Seq(S), NEW t \in Seq(R), NEW P, Len(t) = Len(s),
           \A k \in 1 .. Len(s) : t[k] = s[k] \/ (t[k] \in P /\ s[k] \in P)
    PROVE  At(t, Kept(t, P)) = At(s, Kept(s, P))
  <1> DEFINE n == Len(s)
             g == [k \in 1 .. n |-> k]
  <1>1. n \in Nat /\ DOMAIN s = 1 .. n
    BY PlacesOf
  <1>2. g \in [1 .. n -> 1 .. n] /\ \A k \in 1 .. n : g[k] = k
    OBVIOUS
  <1>3. \A j \in Kept(s, P) : j \in 1 .. n
    BY <1>1 DEF Kept
  <1> HIDE DEF g
  <1>4. Thins(g, s, t, P)
    BY <1>2, <1>3 DEF Thins
  <1>5. QED
    BY <1>4, OthersKept

\* Separated changes colons to blanks and leaves the rest.
LEMMA SeparatedKeeps ==
    ASSUME NEW S, NEW s \in Seq(S), NEW P, {" ", ":"} \subseteq P
    PROVE  At(Separated(s), Kept(Separated(s), P)) = At(s, Kept(s, P))
  <1> DEFINE t == Separated(s)
             n == Len(s)
             R == S \cup {" "}
  <1>1. n \in Nat /\ DOMAIN s = 1 .. n /\ \A k \in 1 .. n : s[k] \in S
    BY PlacesOf
  <1>2. t = [k \in 1 .. n |-> IF s[k] = ":" THEN " " ELSE s[k]]
    BY <1>1 DEF Separated
  <1>3. t \in [1 .. n -> R]
    BY <1>1, <1>2
  <1>4. \A k \in 1 .. n : t[k] = s[k] \/ (t[k] \in P /\ s[k] \in P)
    BY <1>2
  <1> HIDE DEF t, R
  <1>5. t \in Seq(R) /\ Len(t) = n
    BY <1>1, <1>3, SequenceFrom
  <1>6. At(t, Kept(t, P)) = At(s, Kept(s, P))
    <2>1. s \in Seq(S) /\ t \in Seq(R) /\ Len(t) = Len(s)
      BY <1>5
    <2>2. \A k \in 1 .. Len(s) : t[k] = s[k] \/ (t[k] \in P /\ s[k] \in P)
      BY <1>4
    <2> HIDE DEF n
    <2>3. QED
      BY ONLY <2>1, <2>2, ChangeKeeps
  <1>7. QED
    BY <1>6 DEF t

\* A name before it is cut: of its characters all but blanks and punctuation are
\* left, it is legal and well spaced.
LEMMA TrimmedName ==
    ASSUME NEW S, " " \in S, NEW s \in Seq(S), NEW P, {" ", ".", ":", "*"} \subseteq P
    PROVE  LET d == EdgesTrimmed(Collapsed(Legal(Separated(Strip(s, " ")))))
           IN  /\ d \in Seq(S \ {":", "*"}) /\ Spaced(d)
               /\ At(d, Kept(d, P)) = At(s, Kept(s, P))
  <1> DEFINE L == S \ {":", "*"}
             left(x) == At(x, Kept(x, P))
             r == Strip(s, " ")
             q == Separated(r)
             a == Legal(q)
             b == Collapsed(a)
             c == Strip(b, " ")
             d == Strip(c, ".")
  <1>1. r \in Seq(S) /\ left(r) = left(s)
    BY Stripped, StripKeeps
  <1> HIDE DEF r
  <1>2. left(q) = left(r)
    BY <1>1, SeparatedKeeps
  <1>3. a \in Seq(L)
    BY <1>1, LegalCharacters
  <1>4. q \in Seq(S)
    <2>1. Len(r) \in Nat /\ DOMAIN r = 1 .. Len(r) /\ \A j \in 1 .. Len(r) : r[j] \in S
      BY <1>1, PlacesOf
    <2>2. q = [j \in 1 .. Len(r) |-> IF r[j] = ":" THEN " " ELSE r[j]]
      BY <2>1 DEF Separated
    <2>3. q \in [1 .. Len(r) -> S]
      BY <2>1, <2>2
    <2> HIDE DEF q
    <2>4. QED
      BY <2>1, <2>3, SequenceFrom
  <1> HIDE DEF q
  <1>5. left(a) = left(q)
    <2> DEFINE J == Others(q, "*")
    <2>1. a = At(q, J)
      BY DEF Legal
    <2>2. DOMAIN q = 1 .. Len(q)
      BY <1>4, PlacesOf
    <2>3. J \in SUBSET (1 .. Len(q)) /\ Kept(q, P) \subseteq J
      BY <2>2 DEF Others, Kept
    <2> HIDE DEF J, a
    <2>4. QED
      BY <1>4, <2>1, <2>3, SelectionKeeps
  <1> HIDE DEF a
  <1>6. b \in Seq(L) /\ Spaced(b)
    <2> HIDE DEF L
    <2>1. QED
      BY <1>3, CollapsedIsSpaced
  <1>7. left(b) = left(a)
    <2> DEFINE J == {j \in DOMAIN a : j = 1 \/ a[j] # " " \/ a[j - 1] # " "}
    <2>1. b = At(a, J)
      BY DEF Collapsed
    <2>2. DOMAIN a = 1 .. Len(a)
      BY <1>3, PlacesOf
    <2>3. J \in SUBSET (1 .. Len(a)) /\ Kept(a, P) \subseteq J
      BY <2>2 DEF Kept
    <2> HIDE DEF J, b, L
    <2>4. QED
      BY <1>3, <2>1, <2>3, SelectionKeeps
  <1> HIDE DEF b
  <1>8. c \in Seq(L) /\ Spaced(c) /\ left(c) = left(b)
    <2> HIDE DEF L
    <2>1. QED
      BY <1>6, Stripped, StripKeeps
  <1> HIDE DEF c
  <1>9. d \in Seq(L) /\ Spaced(d) /\ left(d) = left(c)
    <2> HIDE DEF L
    <2>1. QED
      BY <1>8, Stripped, StripKeeps
  <1> HIDE DEF d
  <1>10. EdgesTrimmed(Collapsed(Legal(Separated(Strip(s, " "))))) = d
    BY DEF EdgesTrimmed, r, q, a, b, c, d
  <1>11. left(d) = left(s)
    BY <1>1, <1>2, <1>5, <1>7, <1>8, <1>9
  <1> HIDE DEF left
  <1>12. d \in Seq(L) /\ Spaced(d)
    BY <1>9
  <1>13. QED
    BY <1>10, <1>11, <1>12 DEF left

\* The cut leaves a prefix that is at most one blank short of MaxBaseLen.
LEMMA CutIsPrefix ==
    ASSUME NEW S, NEW s \in Seq(S), Spaced(s)
    PROVE  LET t == Truncated(s)
           IN  /\ Len(t) <= Len(s) /\ \A k \in 1 .. Len(t) : t[k] = s[k]
               /\ t = s \/ Len(t) >= MaxBaseLen - 1
  <1> DEFINE M == MaxBaseLen
             n == Len(s)
             t == Truncated(s)
  <1>1. M \in Nat /\ M > 1 /\ n \in Nat
    BY MaxBaseLenAssumption, PlacesOf
  <1>2. CASE ~(n > M)
    <2>1. t = s
      BY <1>2 DEF Truncated
    <2> HIDE DEF t
    <2>2. QED
      BY <1>1, <2>1 DEF t
  <1>3. CASE n > M
    <2> DEFINE p == SubSeq(s, 1, M)
               J == Others(p, " ")
               b == Max(J)
    <2>1. 1 \in 1 .. n /\ M \in 1 .. n /\ M - 1 + 1 = M
      BY <1>1, <1>3
    <2>2. p \in Seq(S) /\ Len(p) = M /\ \A k \in 1 .. M : p[k] = s[k]
      <3>1. /\ p \in Seq(S) /\ Len(p) = M - 1 + 1
            /\ \A k \in 1 .. M - 1 + 1 : p[k] = s[1 + k - 1]
        BY <2>1, SpanElements
      <3>2. \A k \in 1 .. M : 1 + k - 1 = k
        BY <1>1
      <3> HIDE DEF p
      <3>3. QED
        BY <2>1, <3>1, <3>2
    <2>3. t = StripRight(p, " ")
      BY <1>3 DEF Truncated
    <2> HIDE DEF p
    <2>4. DOMAIN p = 1 .. M
      BY <2>2, PlacesOf
    <2>5. J \in SUBSET (1 .. M) /\ \A k \in 1 .. M : k \in J <=> p[k] # " "
      BY <2>4 DEF Others
    <2>6. M \in 2 .. n /\ M - 1 \in 1 .. M /\ M \in 1 .. M
      BY <1>1, <2>1
    <2>7. ~(p[M - 1] = " " /\ p[M] = " ")
      BY <2>2, <2>6 DEF Spaced
    <2>8. J # {} /\ (M \in J \/ M - 1 \in J)
      BY <2>5, <2>6, <2>7
    <2>9. t = SubSeq(p, 1, b)
      BY <2>3, <2>8 DEF StripRight
    <2> HIDE DEF J
    <2>10. b \in J /\ \A j \in J : j <= b
      BY <1>1, <2>5, <2>8, FirstAndLast
    <2> HIDE DEF b, t
    <2>11. b \in 1 .. M /\ b >= M - 1 /\ 1 \in 1 .. M
      <3>1. M <= b \/ M - 1 <= b
        BY <2>8, <2>10
      <3>2. b \in 1 .. M
        BY <2>5, <2>10
      <3>3. QED
        BY <1>1, <3>1, <3>2
    <2>12. Len(t) = b /\ \A k \in 1 .. b : t[k] = p[k]
      <3>1. Len(t) = b - 1 + 1 /\ \A k \in 1 .. b - 1 + 1 : t[k] = p[1 + k - 1]
        BY <2>2, <2>9, <2>11, SpanElements
      <3>2. b - 1 + 1 = b /\ \A k \in 1 .. b : 1 + k - 1 = k
        BY <2>11
      <3>3. QED
        BY <3>1, <3>2
    <2>13. \A k \in 1 .. b : k \in 1 .. M
      BY <1>1, <2>11
    <2>14. Len(t) <= n /\ Len(t) >= M - 1
      BY <1>1, <1>3, <2>11, <2>12
    <2>15. QED
      BY <2>2, <2>12, <2>13, <2>14 DEF t
  <1>4. QED
    BY <1>2, <1>3

\* The base of a filename: of its name's characters, legal, well spaced, never
\* empty and never too long.
LEMMA SanitizedBase ==
    ASSUME NEW S, {" ", "u", "n"} \subseteq S, NEW s \in Seq(S)
    PROVE  /\ SanitizedName(s) \in Seq(S \ {":", "*"})
           /\ Len(SanitizedName(s)) \in 1 .. MaxBaseLen
           /\ Spaced(SanitizedName(s))
  <1> DEFINE L == S \ {":", "*"}
             d == EdgesTrimmed(Collapsed(Legal(Separated(Strip(s, " ")))))
             e == Named(d)
  <1>5. d \in Seq(L) /\ Spaced(d)
    BY TrimmedName
  <1> HIDE DEF d
  <1>6. e \in Seq(L) /\ Spaced(e) /\ e # <<>>
    <2>1. Unnamed \in Seq(L) /\ Unnamed # <<>> /\ Spaced(Unnamed)
      <3>1. Unnamed \in Seq(L) /\ Unnamed # <<>>
        <4>1. "u" \in L /\ "n" \in L
          OBVIOUS
        <4> HIDE DEF L
        <4>2. QED
          BY <4>1, Triple DEF Unnamed
      <3>2. Len(Unnamed) = 3 /\ Unnamed[1] # " " /\ Unnamed[2] # " " /\ Unnamed[3] # " "
        BY DEF Unnamed
      <3>3. \A k \in 2 .. 3 : (k = 2 \/ k = 3) /\ (k = 2 => k - 1 = 1) /\ (k = 3 => k - 1 = 2)
        BY ONLY TRUE
      <3>4. Spaced(Unnamed)
        BY <3>2, <3>3 DEF Spaced
      <3>5. QED
        BY <3>1, <3>4
    <2>2. QED
      BY <1>5, <2>1 DEF Named
  <1> HIDE DEF e
  <1>7. SanitizedName(s) = Truncated(e)
    BY DEF SanitizedName, d, e
  <1>8. QED
    <2> HIDE DEF L
    <2>1. /\ Truncated(e) \in Seq(L) /\ Len(Truncated(e)) \in 1 .. MaxBaseLen
          /\ Spaced(Truncated(e))
      BY <1>6, TruncatedName
    <2>2. QED
      BY <1>7, <2>1 DEF L

-----------------------------------------------------------------------------
(* Types.                                                                   *)

Characters == DOMAIN Lower
GameRecords == [name : Seq(Characters), url : Urls, filename : Seq(Characters)]

\* An entry of the catalog file, and what makes a game of it.
LEMMA EntryTypes ==
    ASSUME entries \in Catalogs, NEW k \in 1 .. Len(entries)
    PROVE  /\ Len(entries) \in Nat /\ entries[k].name \in Seq(Characters)
           /\ Usable(entries[k]) => entries[k].url \in Urls
  <1>1. entries \in Seq([name : Seq(Characters), url : Urls \cup {"none"}])
    BY CatalogsAssumption DEF Characters
  <1>2. entries[k] \in [name : Seq(Characters), url : Urls \cup {"none"}]
    BY <1>1, PlacesOf
  <1>3. Len(entries) \in Nat
    BY <1>1, PlacesOf
  <1>4. QED
    BY <1>2, <1>3 DEF Usable

\* SanitizedName makes such a base of any name of the catalog file.
LEMMA LegalBase ==
    ASSUME NEW name \in Seq(Characters)
    PROVE  /\ SanitizedName(name) \in Seq(Characters \ {":", "*"})
           /\ SanitizedName(name) \in Seq(Characters)
           /\ Len(SanitizedName(name)) \in 1 .. MaxBaseLen
           /\ Spaced(SanitizedName(name))
  <1> DEFINE b == SanitizedName(name)
  <1>1. {" ", "u", "n"} \subseteq Characters
    BY LowerAssumption DEF Characters
  <1>2. b \in Seq(Characters \ {":", "*"}) /\ Len(b) \in 1 .. MaxBaseLen /\ Spaced(b)
    BY <1>1, SanitizedBase
  <1> HIDE DEF b
  <1>3. b \in Seq(Characters)
    BY <1>2, SequenceWithin
  <1>4. QED
    BY <1>2, <1>3 DEF b

\* A base and two characters more.
LEMMA NumberedName ==
    ASSUME NEW S, NEW b \in Seq(S), NEW d \in S, NEW x \in S
    PROVE  /\ b \o <<d, x>> \in Seq(S) /\ Len(b \o <<d, x>>) = Len(b) + 2
           /\ \A k \in 1 .. Len(b) : (b \o <<d, x>>)[k] = b[k]
           /\ (b \o <<d, x>>)[Len(b) + 1] = d /\ (b \o <<d, x>>)[Len(b) + 2] = x
  OBVIOUS

\* What the assumptions say of the two characters of a suffix.
LEMMA NumberCharacters ==
    ASSUME entries \in Catalogs, NEW n \in 1 .. Len(entries)
    PROVE  /\ ToString(n) \in Characters \ {":", "*"} /\ ToString(n) # " "
           /\ "-" \in Characters \ {":", "*"} /\ "-" # " "
           /\ Lower["-"] = "-" /\ Lower[ToString(n)] = ToString(n)
           /\ \A m \in 1 .. Len(entries) : ToString(m) = ToString(n) => m = n
  BY LowerAssumption, NumbersAssumption DEF Characters

\* Numbering a base leaves it a sequence of characters.
LEMMA FilenameType ==
    ASSUME entries \in Catalogs, NEW n \in 0 .. Len(entries), NEW S, Characters \ {":", "*"} \subseteq S,
           NEW b \in Seq(S)
    PROVE  Filename(b, n) \in Seq(S)
  <1>1. CASE n = 0
    BY <1>1 DEF Filename
  <1>2. CASE n # 0
    <2>1. n \in 1 .. Len(entries)
      BY <1>2
    <2>2. "-" \in S /\ ToString(n) \in S
      BY <2>1, NumberCharacters
    <2>3. b \o <<"-", ToString(n)>> \in Seq(S)
      BY <2>2, NumberedName
    <2>4. QED
      BY <1>2, <2>3 DEF Filename
  <1>3. QED
    BY <1>1, <1>2

\* The characters of a numbered name, place by place.
LEMMA FilenameParts ==
    ASSUME entries \in Catalogs, NEW n \in 1 .. Len(entries), NEW b \in Seq(Characters)
    PROVE  LET s == Filename(b, n)
           IN  /\ Len(s) = Len(b) + 2 /\ \A k \in 1 .. Len(b) : s[k] = b[k]
               /\ s[Len(b) + 1] = "-" /\ s[Len(b) + 2] = ToString(n)
  <1> DEFINE s == Filename(b, n)
             x == ToString(n)
             d == "-"
  <1>1. x \in Characters /\ d \in Characters
    BY NumberCharacters
  <1>2. s = b \o <<d, x>>
    BY DEF Filename
  <1> HIDE DEF s, x, d
  <1>3. LET r == b \o <<d, x>>
        IN  /\ Len(r) = Len(b) + 2 /\ \A k \in 1 .. Len(b) : r[k] = b[k]
            /\ r[Len(b) + 1] = d /\ r[Len(b) + 2] = x
    BY <1>1, NumberedName
  <1>4. QED
    BY <1>2, <1>3 DEF s, x, d

\* A filename is well named.
LEMMA FilenameForm ==
    ASSUME entries \in Catalogs, NEW n \in 0 .. Len(entries), NEW name \in Seq(Characters)
    PROVE  LET s == Filename(SanitizedName(name), n)
           IN  /\ Len(s) \in 1 .. MaxBaseLen + 2 /\ Range(s) \cap {":", "*"} = {}
               /\ Spaced(s)
  <1> DEFINE b == SanitizedName(name)
             s == Filename(b, n)
  <1>1. /\ b \in Seq(Characters \ {":", "*"})
        /\ Len(b) \in 1 .. MaxBaseLen /\ Spaced(b) /\ MaxBaseLen \in Nat
    BY LegalBase, MaxBaseLenAssumption
  <1> HIDE DEF b
  <1>2. s \in Seq(Characters \ {":", "*"})
    BY <1>1, FilenameType
  <1>3. Range(s) \cap {":", "*"} = {}
    <2> HIDE DEF s
    <2>1. \A k \in DOMAIN s : s[k] \in Characters \ {":", "*"}
      BY <1>2, PlacesOf
    <2>2. QED
      BY <2>1 DEF Range
  <1>4. CASE n = 0
    <2>1. s = b
      BY <1>4 DEF Filename
    <2>2. Len(b) \in 1 .. MaxBaseLen + 2
      BY <1>1
    <2>3. QED
      BY <1>1, <1>3, <2>1, <2>2 DEF b
  <1>5. CASE n # 0
    <2> DEFINE x == ToString(n)
    <2>1. x \in Characters \ {":", "*"} /\ "-" \in Characters \ {":", "*"} /\ x # " "
      <3>1. n \in 1 .. Len(entries)
        BY <1>5
      <3>2. QED
        BY <3>1, NumberCharacters
    <2> HIDE DEF x, s
    <2>3. /\ Len(s) = Len(b) + 2 /\ \A k \in 1 .. Len(b) : s[k] = b[k]
          /\ s[Len(b) + 1] = "-" /\ s[Len(b) + 2] = x
      <3>1. n \in 1 .. Len(entries)
        BY <1>5
      <3>2. b \in Seq(Characters)
        BY LegalBase DEF b
      <3>3. QED
        BY <3>1, <3>2, FilenameParts DEF s, x
    <2>4. Len(s) \in 1 .. MaxBaseLen + 2
      BY <1>1, <2>3
    <2>5. ASSUME NEW k \in 2 .. Len(s)
          PROVE  ~(s[k - 1] = " " /\ s[k] = " ")
      <3>1. \/ k \in 2 .. Len(b) /\ k - 1 \in 1 .. Len(b) /\ k \in 1 .. Len(b)
            \/ k = Len(b) + 1 \/ k = Len(b) + 2
        BY <1>1, <2>3
      <3>2. CASE k \in 2 .. Len(b) /\ k - 1 \in 1 .. Len(b) /\ k \in 1 .. Len(b)
        BY <1>1, <2>3, <3>2 DEF Spaced
      <3>3. CASE k = Len(b) + 1 \/ k = Len(b) + 2
        BY <2>1, <2>3, <3>3
      <3>4. QED
        BY <3>1, <3>2, <3>3
    <2>6. Spaced(s)
      BY <2>5 DEF Spaced
    <2>7. QED
      BY <1>3, <2>4, <2>6 DEF b, s
  <1>6. QED
    BY <1>4, <1>5

-----------------------------------------------------------------------------
(* The invariant.                                                           *)

\* The empty list numbers its games in order and misses no URL.
LEMMA CatalogInvStarts == Init => CatalogInv
  <1>1. SUFFICES ASSUME Init PROVE CatalogInv
    OBVIOUS
  <1>2. /\ entries \in Catalogs /\ i = 0 /\ games = <<>> /\ seen = <<>> /\ served = <<>>
        /\ DOMAIN <<>> = {}
    BY <1>1 DEF Init
  <1>3. Len(entries) \in Nat
    <2>1. entries \in Seq([name : Seq(DOMAIN Lower), url : Urls \cup {"none"}])
      BY <1>2, CatalogsAssumption
    <2>2. QED
      BY <2>1, PlacesOf
  <1>4. TypeOK
    <2>1. games \in Seq(GameRecords) /\ Len(games) = 0
      BY <1>2
    <2>2. seen \in [DOMAIN seen -> Nat \ {0}]
      BY <1>2
    <2>3. QED
      BY <1>2, <1>3, <2>1, <2>2 DEF TypeOK, GameRecords, Characters
  <1>5. NumberedInOrder
    BY <1>2 DEF NumberedInOrder
  <1>6. NoneMissed
    <2>1. 1 .. i = {}
      BY <1>2
    <2>2. UrlsSeen = {} /\ {entries[k].url : k \in {m \in 1 .. i : Usable(entries[m])}} = {}
      BY <1>2, <2>1 DEF UrlsSeen
    <2>3. QED
      BY <1>2, <2>2 DEF NoneMissed
  <1>7. QED
    BY <1>4, <1>5, <1>6 DEF CatalogInv

\* What the invariant says of the types.
LEMMA CatalogTypes ==
    ASSUME TypeOK
    PROVE  /\ entries \in Catalogs /\ Len(entries) \in Nat /\ i \in Nat /\ i <= Len(entries)
           /\ games \in Seq(GameRecords) /\ Len(games) \in Nat /\ Len(games) <= i
           /\ DOMAIN games = 1 .. Len(games) /\ \A j \in DOMAIN games : games[j] \in GameRecords
  <1>1. entries \in Catalogs /\ i \in 0 .. Len(entries) /\ Len(games) <= i
        /\ games \in Seq(GameRecords)
    BY DEF TypeOK, GameRecords, Characters
  <1>2. Len(entries) \in Nat
    <2>1. entries \in Seq([name : Seq(DOMAIN Lower), url : Urls \cup {"none"}])
      BY <1>1, CatalogsAssumption
    <2>2. QED
      BY <2>1, PlacesOf
  <1>3. /\ Len(games) \in Nat /\ DOMAIN games = 1 .. Len(games)
        /\ \A j \in DOMAIN games : games[j] \in GameRecords
    BY <1>1, PlacesOf
  <1>4. QED
    BY <1>1, <1>2, <1>3

\* An entry that is passed over adds no URL.
LEMMA SkipKeeps ==
    ASSUME CatalogInv, Skip
    PROVE  CatalogInv'
  <1>1. TypeOK /\ NumberedInOrder /\ NoneMissed
    BY DEF CatalogInv
  <1>2. i < Len(entries) /\ i' = i + 1 /\ UNCHANGED <<entries, games, seen, served>>
    BY DEF Skip
  <1>3. i \in Nat /\ Len(entries) \in Nat /\ Len(games) \in Nat /\ Len(games) <= i
    BY <1>1, CatalogTypes
  <1>4. TypeOK'
    <2>1. i' \in 0 .. Len(entries) /\ Len(games) <= i'
      BY <1>2, <1>3
    <2>2. QED
      BY <1>1, <1>2, <2>1 DEF TypeOK, LowerName
  <1>5. NumberedInOrder'
    BY <1>1, <1>2 DEF NumberedInOrder, Number, Places
  <1>6. NoneMissed'
    <2>1. \A m : m \in 1 .. i + 1 <=> m \in 1 .. i \/ m = i + 1
      BY <1>3
    <2>2. Usable(entries[i + 1]) => entries[i + 1].url \in UrlsSeen
      BY DEF Skip
    <2>3. UrlsSeen = {entries[k].url : k \in {m \in 1 .. i : Usable(entries[m])}}
      BY <1>1 DEF NoneMissed
    <2>4. {entries[k].url : k \in {m \in 1 .. i + 1 : Usable(entries[m])}} = UrlsSeen
      BY <2>1, <2>2, <2>3
    <2>5. UrlsSeen' = UrlsSeen
      BY <1>2 DEF UrlsSeen
    <2>6. i # Len(entries)
      BY <1>2, <1>3
    <2>7. DOMAIN served' = {}
      BY <1>1, <1>2, <2>6 DEF NoneMissed
    <2>8. UrlsSeen' = {entries'[k].url : k \in {m \in 1 .. i' : Usable(entries'[m])}}
      BY <1>2, <2>4, <2>5
    <2>9. QED
      BY <2>7, <2>8 DEF NoneMissed, Usable
  <1>7. QED
    BY <1>4, <1>5, <1>6 DEF CatalogInv

\* The table is keyed by what it holds.
LEMMA ServeKeeps ==
    ASSUME CatalogInv, Serve
    PROVE  CatalogInv'
  <1>1. TypeOK /\ NumberedInOrder /\ NoneMissed
    BY DEF CatalogInv
  <1>2. i = Len(entries) /\ served' = Table(games) /\ UNCHANGED <<entries, i, games, seen>>
    BY DEF Serve
  <1>3. Len(games) \in Nat /\ DOMAIN games = 1 .. Len(games)
    BY <1>1, CatalogTypes
  <1>4. ASSUME NEW name \in DOMAIN Table(games)
        PROVE  LowerName(Table(games)[name].filename) = name
    <2> DEFINE J == {j \in DOMAIN games : LowerName(games[j].filename) = name}
    <2>1. Table(games)[name] = games[Max(J)] /\ J # {} /\ J \in SUBSET (1 .. Len(games))
      BY <1>3 DEF Table
    <2>2. Max(J) \in J
      <3> HIDE DEF J
      <3>1. QED
        BY <1>3, <2>1, FirstAndLast
    <2>3. QED
      BY <2>1, <2>2
  <1>5. TypeOK'
    BY <1>1, <1>2, <1>4 DEF TypeOK, LowerName
  <1>6. NumberedInOrder'
    BY <1>1, <1>2 DEF NumberedInOrder, Number, Places
  <1>7. NoneMissed'
    <2>1. UrlsSeen' = {entries'[k].url : k \in {m \in 1 .. i' : Usable(entries'[m])}}
      <3>1. UrlsSeen = {entries[k].url : k \in {m \in 1 .. i : Usable(entries[m])}}
        BY <1>1 DEF NoneMissed
      <3>2. UrlsSeen' = UrlsSeen /\ entries' = entries /\ i' = i
        BY <1>2 DEF UrlsSeen
      <3>3. QED
        BY <3>1, <3>2
    <2>2. Table(games)' = Table(games)
      BY <1>2 DEF Table, LowerName
    <2>3. i' = Len(entries)' /\ served' = Table(games)'
      BY <1>2, <2>2
    <2>4. QED
      BY <2>1, <2>3 DEF NoneMissed, Usable
  <1>8. QED
    BY <1>5, <1>6, <1>7 DEF CatalogInv

\* The games of a base, and of each base before a place.
LEMMA PlacesAreFinite ==
    ASSUME TypeOK, NEW base
    PROVE  /\ Places(base) \in SUBSET (1 .. Len(games)) /\ IsFiniteSet(Places(base))
           /\ Cardinality(Places(base)) \in Nat /\ Cardinality(Places(base)) <= Len(games)
  <1>1. Len(games) \in Nat /\ DOMAIN games = 1 .. Len(games)
    BY CatalogTypes
  <1>2. Places(base) \in SUBSET (1 .. Len(games))
    BY <1>1 DEF Places
  <1>3. IsFiniteSet(1 .. Len(games)) /\ Cardinality(1 .. Len(games)) = Len(games)
    <2> DEFINE N == Len(games)
    <2>1. N \in Int /\ N \in Nat /\ 1 \in Int
      BY <1>1
    <2> HIDE DEF N
    <2>2. IsFiniteSet(1 .. N) /\ Cardinality(1 .. N) = IF 1 > N THEN 0 ELSE N - 1 + 1
      BY <2>1, FS_Interval
    <2>3. Cardinality(1 .. N) = N
      BY <2>1, <2>2
    <2>4. QED
      BY <2>2, <2>3 DEF N
  <1>4. QED
    BY <1>2, <1>3, FS_Subset, FS_CardinalityType

\* seen.get(base, 0) is the number of games that have the base.
LEMMA UsesCount ==
    ASSUME TypeOK, NumberedInOrder, NEW base
    PROVE  Uses(base) = Cardinality(Places(base))
  <1>1. CASE base \in DOMAIN seen
    BY <1>1 DEF NumberedInOrder, Uses
  <1>2. CASE base \notin DOMAIN seen
    <2>1. Places(base) = {}
      BY <1>2 DEF NumberedInOrder, Places
    <2>2. QED
      BY <1>2, <2>1, FS_EmptySet DEF Uses
  <1>3. QED
    BY <1>1, <1>2

\* The game that is added.
LEMMA AddedGame ==
    ASSUME TypeOK, NumberedInOrder, Add
    PROVE  LET entry == entries[i + 1]
               game == GameOf(entry, Uses(Base(entry)))
           IN  /\ i + 1 \in 1 .. Len(entries) /\ Usable(entry) /\ entry.url \notin UrlsSeen
               /\ game \in GameRecords /\ game.url = entry.url /\ Base(game) = Base(entry)
               /\ game.filename = Filename(Base(entry), Uses(Base(entry)))
               /\ games' = Append(games, game)
  <1> DEFINE entry == entries[i + 1]
             base == Base(entry)
             n == Uses(base)
             game == GameOf(entry, n)
  <1>1. /\ i < Len(entries) /\ Usable(entry) /\ entry.url \notin UrlsSeen
        /\ games' = Append(games, game)
    BY DEF Add, Suffix, Base
  <1>2. /\ entries \in Catalogs /\ i \in Nat /\ Len(entries) \in Nat
        /\ Len(games) \in Nat /\ Len(games) <= i
    BY CatalogTypes
  <1>3. i + 1 \in 1 .. Len(entries)
    BY <1>1, <1>2
  <1>4. entry.name \in Seq(Characters) /\ entry.url \in Urls
    BY <1>1, <1>2, <1>3, EntryTypes
  <1>5. n \in 0 .. Len(entries)
    <2>1. n \in Nat /\ n <= Len(games)
      <3> HIDE DEF base
      <3>1. QED
        BY UsesCount, PlacesAreFinite
    <2> HIDE DEF n
    <2>2. QED
      BY <1>1, <1>2, <2>1
  <1> HIDE DEF n
  <1>6. base \in Seq(Characters)
    BY <1>4, LegalBase DEF Base
  <1>7. Filename(base, n) \in Seq(Characters)
    <2> HIDE DEF base
    <2>1. Characters \ {":", "*"} \subseteq Characters
      OBVIOUS
    <2>2. QED
      BY <1>2, <1>5, <1>6, <2>1, FilenameType
  <1>8. game = [name |-> entry.name, url |-> entry.url, filename |-> Filename(base, n)]
    BY DEF GameOf, Base
  <1>9. game \in GameRecords
    BY <1>4, <1>7, <1>8 DEF GameRecords
  <1>10. game.url = entry.url /\ game.filename = Filename(base, n) /\ Base(game) = base
    BY <1>8 DEF Base
  <1>11. QED
    BY <1>1, <1>3, <1>9, <1>10 DEF n

\* What adding a game does to the places and numbers.
LEMMA PlacesAfterAdd ==
    ASSUME TypeOK, NumberedInOrder, Add
    PROVE  LET N == Len(games)
               base == Base(entries[i + 1])
           IN  /\ Len(games)' = N + 1 /\ DOMAIN games' = 1 .. N + 1
               /\ \A j \in 1 .. N : games'[j] = games[j]
               /\ games'[N + 1] = GameOf(entries[i + 1], Uses(base))
               /\ Base(games'[N + 1]) = base
               /\ \A b : Places(b)' = IF b = base THEN Places(b) \cup {N + 1} ELSE Places(b)
  <1> DEFINE N == Len(games)
             base == Base(entries[i + 1])
             game == GameOf(entries[i + 1], Uses(base))
  <1>1. game \in GameRecords /\ Base(game) = base /\ games' = Append(games, game)
    BY AddedGame
  <1>2. games \in Seq(GameRecords) /\ N \in Nat /\ DOMAIN games = 1 .. N
    BY CatalogTypes
  <1> HIDE DEF game, base
  <1>3. /\ games' \in Seq(GameRecords) /\ Len(games') = N + 1
        /\ \A j \in 1 .. N : games'[j] = games[j]
        /\ games'[N + 1] = game
    BY <1>1, <1>2, AppendElements
  <1>4. DOMAIN games' = 1 .. N + 1
    BY <1>3, PlacesOf
  <1>5. ASSUME NEW b
        PROVE  Places(b)' = IF b = base THEN Places(b) \cup {N + 1} ELSE Places(b)
    <2>1. Places(b)' = {k \in 1 .. N + 1 : Base(games'[k]) = b}
      BY <1>4 DEF Places, Base
    <2>2. \A k \in 1 .. N + 1 : k \in 1 .. N \/ k = N + 1
      BY <1>2
    <2>3. N + 1 \in 1 .. N + 1 /\ \A k \in 1 .. N : k \in 1 .. N + 1
      BY <1>2
    <2>4. Places(b) = {k \in 1 .. N : Base(games[k]) = b}
      BY <1>2 DEF Places
    <2> HIDE DEF N
    <2>5. QED
      BY <1>1, <1>3, <2>1, <2>2, <2>3, <2>4
  <1>6. QED
    BY <1>1, <1>3, <1>4, <1>5 DEF game, base

\* The new game takes the next number of its base; the others keep theirs.
LEMMA AddKeepsNumbers ==
    ASSUME TypeOK, NumberedInOrder, Add
    PROVE  NumberedInOrder'
  <1> DEFINE N == Len(games)
             base == Base(entries[i + 1])
             new == games'[N + 1]
  <1>1. /\ DOMAIN games' = 1 .. N + 1
        /\ \A j \in 1 .. N : games'[j] = games[j]
        /\ Base(new) = base /\ new.filename = Filename(base, Uses(base))
        /\ \A b : Places(b)' = IF b = base THEN Places(b) \cup {N + 1} ELSE Places(b)
    <2>1. LET game == GameOf(entries[i + 1], Uses(base))
          IN  game.filename = Filename(base, Uses(base))
      BY AddedGame
    <2>2. QED
      BY <2>1, PlacesAfterAdd
  <1>2. N \in Nat /\ DOMAIN games = 1 .. N
    BY CatalogTypes
  <1>3. \A b : /\ Places(b) \in SUBSET (1 .. N) /\ IsFiniteSet(Places(b))
               /\ Uses(b) = Cardinality(Places(b))
    BY PlacesAreFinite, UsesCount
  <1>4. seen' = [b \in DOMAIN seen \cup {base} |-> IF b = base THEN Uses(base) + 1 ELSE seen[b]]
    BY DEF Add, Base
  <1> DEFINE PlacesNow(b) == {k \in DOMAIN games' : Base(games'[k]) = b}
             Numbered(j) == Cardinality(PlacesNow(Base(games'[j])) \cap (1 .. j - 1))
  <1> HIDE DEF new, base
  <1>4a. \A b : Places(b)' = PlacesNow(b)
    BY DEF Places, Base
  <1> HIDE DEF PlacesNow, Numbered
  <1>5. ASSUME NEW b, NEW j \in 1 .. N + 1
        PROVE  Places(b)' \cap (1 .. j - 1) = Places(b) \cap (1 .. j - 1)
    <2>1. N + 1 \notin 1 .. j - 1
      BY <1>2
    <2>2. QED
      BY <1>1, <2>1
  <1>6. ASSUME NEW j \in 1 .. N
        PROVE  games'[j].filename = Filename(Base(games'[j]), Numbered(j))
    <2>1. games'[j] = games[j] /\ games[j].filename = Filename(Base(games[j]), Number(j))
      BY <1>1, <1>2 DEF NumberedInOrder
    <2>2. j \in 1 .. N + 1
      BY <1>2
    <2>4. \A b : PlacesNow(b) \cap (1 .. j - 1) = Places(b) \cap (1 .. j - 1)
      BY <1>4a, <1>5, <2>2
    <2>5. Numbered(j) = Number(j)
      BY <2>1, <2>4 DEF Number, Numbered
    <2>6. QED
      BY <2>1, <2>5
  <1>7. new.filename = Filename(Base(new), Numbered(N + 1))
    <2>2. N + 1 \in 1 .. N + 1 /\ N + 1 - 1 = N /\ Places(base) \cap (1 .. N) = Places(base)
      BY <1>2, <1>3
    <2>3. PlacesNow(base) \cap (1 .. N + 1 - 1) = Places(base)
      BY <1>4a, <1>5, <2>2
    <2>4. Numbered(N + 1) = Uses(base)
      <3>1. Base(games'[N + 1]) = base
        BY <1>1 DEF new
      <3>2. Numbered(N + 1) = Cardinality(PlacesNow(base) \cap (1 .. N + 1 - 1))
        BY <3>1 DEF Numbered
      <3>3. QED
        BY <1>3, <2>3, <3>2
    <2>5. QED
      BY <1>1, <2>4
  <1>8. \A j \in DOMAIN games' : games'[j].filename = Filename(Base(games'[j]), Numbered(j))
    <2>1. \A j \in 1 .. N + 1 : j \in 1 .. N \/ j = N + 1
      BY <1>2
    <2> HIDE DEF N
    <2>2. QED
      BY <1>1, <1>6, <1>7, <2>1 DEF new
  <1>9. DOMAIN seen' = {Base(games'[j]) : j \in DOMAIN games'}
    <2>1. DOMAIN seen' = DOMAIN seen \cup {base}
      BY <1>4
    <2>2. DOMAIN seen = {Base(games[j]) : j \in 1 .. N}
      BY <1>2 DEF NumberedInOrder
    <2>3. \A j : j \in 1 .. N + 1 <=> j \in 1 .. N \/ j = N + 1
      BY <1>2
    <2> HIDE DEF N
    <2>4. QED
      BY <1>1, <2>1, <2>2, <2>3 DEF new
  <1>10. ASSUME NEW b \in DOMAIN seen'
         PROVE  seen'[b] = Cardinality(Places(b)')
    <2>1. CASE b = base
      <3>1. seen'[b] = Cardinality(Places(b)) + 1
        BY <1>3, <1>4, <2>1
      <3>2. Places(b)' = Places(b) \cup {N + 1}
        BY <1>1, <2>1
      <3>3. N + 1 \notin Places(b) /\ IsFiniteSet(Places(b))
        BY <1>2, <1>3
      <3>4. QED
        BY <3>1, <3>2, <3>3, FS_AddElement
    <2>2. CASE b # base
      BY <1>1, <1>4, <2>2 DEF NumberedInOrder
    <2>3. QED
      BY <2>1, <2>2
  <1>11. \A j \in DOMAIN games' : games'[j].filename = Filename(Base(games'[j]), Number(j)')
    BY <1>8 DEF Number, Places, Base, Numbered, PlacesNow
  <1>12. QED
    BY <1>9, <1>10, <1>11 DEF NumberedInOrder, Base

\* A game that is added has the URL of the entry it is made of.
LEMMA AddKeeps ==
    ASSUME CatalogInv, Add
    PROVE  CatalogInv'
  <1> DEFINE N == Len(games)
             entry == entries[i + 1]
             base == Base(entry)
             game == GameOf(entry, Uses(base))
  <1>1. TypeOK /\ NumberedInOrder /\ NoneMissed
    BY DEF CatalogInv
  <1>2. /\ i < Len(entries) /\ i' = i + 1 /\ entries' = entries /\ served' = served
        /\ seen' = [b \in DOMAIN seen \cup {base} |-> IF b = base THEN Uses(base) + 1 ELSE seen[b]]
    BY DEF Add, Base
  <1>3. /\ entries \in Catalogs /\ i \in Nat /\ Len(entries) \in Nat
        /\ N \in Nat /\ N <= i /\ games \in Seq(GameRecords) /\ DOMAIN games = 1 .. N
    BY <1>1, CatalogTypes
  <1>4. /\ Usable(entry) /\ entry.url \notin UrlsSeen
        /\ game \in GameRecords /\ game.url = entry.url /\ games' = Append(games, game)
    BY <1>1, AddedGame
  <1>5. DOMAIN served = {}
    <2>1. i # Len(entries)
      BY <1>2, <1>3
    <2>2. QED
      BY <1>1, <2>1 DEF NoneMissed
  <1> HIDE DEF game, base
  <1>6. /\ games' \in Seq(GameRecords) /\ Len(games') = N + 1
        /\ \A j \in 1 .. N : games'[j] = games[j]
        /\ games'[N + 1] = game
    BY <1>3, <1>4, AppendElements
  <1>7. TypeOK'
    <2>1. i' \in 0 .. Len(entries) /\ Len(games') <= i'
      BY <1>2, <1>3, <1>6
    <2>2. seen' \in [DOMAIN seen' -> Nat \ {0}]
      <3>1. seen \in [DOMAIN seen -> Nat \ {0}]
        BY <1>1 DEF TypeOK
      <3>2. Uses(base) + 1 \in Nat \ {0}
        BY <3>1 DEF Uses
      <3> DEFINE u == Uses(base) + 1
      <3> HIDE DEF u
      <3>3. seen' = [b \in DOMAIN seen \cup {base} |-> IF b = base THEN u ELSE seen[b]]
        BY <1>2 DEF u
      <3>4. u \in Nat \ {0}
        BY <3>2 DEF u
      <3>5. QED
        BY <3>1, <3>3, <3>4
    <2>3. entries' \in Catalogs /\ DOMAIN served' = {}
      BY <1>2, <1>3, <1>5
    <2>4. games' \in Seq([name : Seq(DOMAIN Lower), url : Urls, filename : Seq(DOMAIN Lower)])
      BY <1>6 DEF GameRecords, Characters
    <2>5. i' \in 0 .. Len(entries')
      BY <1>2, <2>1
    <2>6. QED
      BY <2>1, <2>2, <2>3, <2>4, <2>5 DEF TypeOK
  <1>8. NumberedInOrder'
    BY <1>1, AddKeepsNumbers
  <1>9. NoneMissed'
    <2>1. UrlsSeen' = UrlsSeen \cup {entry.url}
      <3>1. DOMAIN games' = 1 .. N + 1
        BY <1>6, PlacesOf
      <3>2. \A j : j \in 1 .. N + 1 <=> j \in 1 .. N \/ j = N + 1
        BY <1>3
      <3>3. UrlsSeen' = {games'[j].url : j \in 1 .. N + 1}
        BY <3>1 DEF UrlsSeen
      <3>4. UrlsSeen = {games[j].url : j \in 1 .. N}
        BY <1>3 DEF UrlsSeen
      <3> HIDE DEF N
      <3>5. QED
        BY <1>4, <1>6, <3>2, <3>3, <3>4
    <2>2. UrlsSeen = {entries[k].url : k \in {m \in 1 .. i : Usable(entries[m])}}
      BY <1>1 DEF NoneMissed
    <2>3. \A m : m \in 1 .. i + 1 <=> m \in 1 .. i \/ m = i + 1
      BY <1>3
    <2>4. {entries[k].url : k \in {m \in 1 .. i + 1 : Usable(entries[m])}} = UrlsSeen \cup {entry.url}
      BY <1>4, <2>2, <2>3
    <2>5. UrlsSeen' = {entries'[k].url : k \in {m \in 1 .. i' : Usable(entries'[m])}}
      BY <1>2, <2>1, <2>4
    <2>6. DOMAIN served' = {}
      BY <1>2, <1>5
    <2>7. QED
      BY <2>5, <2>6 DEF NoneMissed, Usable
  <1>10. QED
    BY <1>7, <1>8, <1>9 DEF CatalogInv

\* Every step of the loop, and building the table, keeps the invariant.
LEMMA CatalogInvStays == CatalogInv /\ [Next]_vars => CatalogInv'
  <1>1. SUFFICES ASSUME CatalogInv, [Next]_vars PROVE CatalogInv'
    OBVIOUS
  <1>2. CASE Skip
    BY <1>1, <1>2, SkipKeeps
  <1>3. CASE Add
    BY <1>1, <1>3, AddKeeps
  <1>4. CASE Serve
    BY <1>1, <1>4, ServeKeeps
  <1>5. CASE UNCHANGED vars
    <2>1. UNCHANGED <<entries, i, games, seen, served>>
      BY <1>5 DEF vars
    <2>2. TypeOK' /\ NumberedInOrder' /\ NoneMissed'
      <3>1. TypeOK /\ NumberedInOrder /\ NoneMissed
        BY <1>1 DEF CatalogInv
      <3>2. TypeOK'
        BY <2>1, <3>1 DEF TypeOK, LowerName
      <3>3. NumberedInOrder'
        BY <2>1, <3>1 DEF NumberedInOrder, Number, Places
      <3>4. NoneMissed'
        <4>1. UrlsSeen' = UrlsSeen /\ Table(games)' = Table(games)
          BY <2>1 DEF UrlsSeen, Table, LowerName
        <4>2. UrlsSeen = {entries[k].url : k \in {m \in 1 .. i : Usable(entries[m])}}
          BY <3>1 DEF NoneMissed
        <4>3. UrlsSeen' = {entries'[k].url : k \in {m \in 1 .. i' : Usable(entries'[m])}}
          BY <2>1, <4>1, <4>2
        <4>4. DOMAIN served' # {} => i' = Len(entries)' /\ served' = Table(games)'
          BY <2>1, <3>1, <4>1 DEF NoneMissed
        <4>5. QED
          BY <4>3, <4>4 DEF NoneMissed, Usable
      <3>5. QED
        BY <3>2, <3>3, <3>4
    <2>3. QED
      BY <2>2 DEF CatalogInv
  <1>6. QED
    BY <1>1, <1>2, <1>3, <1>4, <1>5 DEF Next

\* Types, numbers and URLs: the games in the list are numbered by the games of
\* their base before them, and every usable URL of the entries visited has one.
THEOREM CatalogInvariant == Spec => []CatalogInv
  BY CatalogInvStarts, CatalogInvStays, PTL DEF Spec

-----------------------------------------------------------------------------
(* What follows from it.                                                    *)

\* The suffixes of a name count its games up from 0 without a gap.
SuffixesCount ==
    \A base \in DOMAIN seen : \A n \in 0 .. seen[base] - 1 :
        \E j \in DOMAIN games : games[j].filename = Filename(base, n)

\* The game with number n of a base is at its (n + 1)-th place.
LEMMA InvImpliesCount == CatalogInv => SuffixesCount
  <1>1. SUFFICES ASSUME CatalogInv,
                        NEW base \in DOMAIN seen, NEW n \in 0 .. seen[base] - 1
                 PROVE  \E j \in DOMAIN games : games[j].filename = Filename(base, n)
    BY DEF SuffixesCount
  <1> DEFINE J == Places(base)
             N == Len(games)
             C == Cardinality(J)
             j == Place(J, n + 1)
  <1>2. TypeOK /\ NumberedInOrder
    BY <1>1 DEF CatalogInv
  <1>3. N \in Nat /\ DOMAIN games = 1 .. N /\ J \in SUBSET (1 .. N) /\ C \in Nat
    BY <1>2, CatalogTypes, PlacesAreFinite
  <1>4. n + 1 \in 1 .. C /\ n \in Nat
    <2>1. seen[base] = C
      BY <1>2 DEF NumberedInOrder
    <2> HIDE DEF C
    <2>2. QED
      BY <1>3, <2>1
  <1>5. j \in J /\ Rank(J, j) = n + 1
    <2> HIDE DEF J, N
    <2>1. QED
      BY <1>3, <1>4, PlacesInOrder
  <1> HIDE DEF j
  <1>6. j \in DOMAIN games /\ Base(games[j]) = base /\ j \in 1 .. N
    BY <1>3, <1>5 DEF Places
  <1>7. Rank(J, j - 1) = n
    <2> HIDE DEF J, N
    <2>1. Rank(J, j - 1) \in Nat /\ Rank(J, j) = Rank(J, j - 1) + 1
      BY <1>3, <1>5, RankBefore
    <2>2. QED
      BY <1>4, <1>5, <2>1
  <1>8. games[j].filename = Filename(base, n)
    <2>1. Number(j) = Rank(J, j - 1)
      BY <1>6 DEF Number, Rank
    <2>2. QED
      BY <1>2, <1>6, <1>7, <2>1 DEF NumberedInOrder
  <1>9. QED
    BY <1>6, <1>8

\* The numbers given to a base count up from 0 without a gap.
THEOREM CatalogSuffixesCount == Spec => []SuffixesCount
  BY CatalogInvariant, InvImpliesCount, PTL

\* The number of a game is that of a game visited before.
LEMMA NumberInRange ==
    ASSUME CatalogInv, NEW j \in DOMAIN games
    PROVE  /\ Number(j) \in 0 .. Len(entries)
           /\ entries \in Catalogs /\ games[j].name \in Seq(Characters)
           /\ games[j].filename = Filename(Base(games[j]), Number(j))
  <1> DEFINE J == Places(Base(games[j]))
             N == Len(games)
  <1>1. TypeOK /\ NumberedInOrder
    BY DEF CatalogInv
  <1>2. /\ N \in Nat /\ j \in 1 .. N /\ entries \in Catalogs /\ games[j] \in GameRecords
        /\ i \in Nat /\ N <= i /\ i <= Len(entries) /\ Len(entries) \in Nat
    BY <1>1, CatalogTypes
  <1>3. J \in SUBSET (1 .. N) /\ Cardinality(J) \in Nat /\ Cardinality(J) <= N
    BY <1>1, PlacesAreFinite
  <1>4. Number(j) = Rank(J, j - 1)
    BY DEF Number, Rank
  <1>5. Rank(J, j - 1) \in Nat /\ Rank(J, j - 1) <= N
    <2> HIDE DEF J, N
    <2>1. j - 1 \in Nat /\ j - 1 <= N
      BY <1>2
    <2>2. Rank(J, N) = Cardinality(J) /\ Rank(J, j - 1) \in Nat
      BY <1>2, <1>3, <2>1, RankSteps
    <2>3. Rank(J, j - 1) <= Rank(J, N)
      BY <1>2, <1>3, <2>1, RankGrows
    <2>4. QED
      BY <1>2, <1>3, <2>2, <2>3
  <1> HIDE DEF J, N
  <1>6. Number(j) \in 0 .. Len(entries)
    BY <1>2, <1>4, <1>5
  <1>7. QED
    BY <1>1, <1>2, <1>6 DEF GameRecords, NumberedInOrder

\* A number of the list is small enough to be one character.
LEMMA InvImpliesForm == CatalogInv => \A j \in DOMAIN games : WellNamed(games[j])
  <1>1. SUFFICES ASSUME CatalogInv, NEW j \in DOMAIN games PROVE WellNamed(games[j])
    OBVIOUS
  <1> DEFINE name == games[j].name
             n == Number(j)
             s == Filename(SanitizedName(name), n)
  <1>2. n \in 0 .. Len(entries) /\ entries \in Catalogs /\ name \in Seq(Characters)
        /\ games[j].filename = s
    BY <1>1, NumberInRange DEF Base
  <1> HIDE DEF n, name
  <1>3. Len(s) \in 1 .. MaxBaseLen + 2 /\ Range(s) \cap {":", "*"} = {} /\ Spaced(s)
    BY <1>2, FilenameForm
  <1> HIDE DEF s
  <1>4. QED
    BY <1>2, <1>3 DEF WellNamed, Spaced

-----------------------------------------------------------------------------
(* Plain names.                                                             *)

\* str.lower() makes two names equal if it does so at every place.
LEMMA SameLowerName ==
    ASSUME NEW s \in Seq(Characters), NEW t \in Seq(Characters)
    PROVE  LowerName(s) = LowerName(t) <=>
               Len(s) = Len(t) /\ \A k \in 1 .. Len(s) : Lower[s[k]] = Lower[t[k]]
  <1>1. /\ Len(s) \in Nat /\ DOMAIN s = 1 .. Len(s)
        /\ Len(t) \in Nat /\ DOMAIN t = 1 .. Len(t)
    BY PlacesOf
  <1>2. /\ LowerName(s) = [k \in 1 .. Len(s) |-> Lower[s[k]]]
        /\ LowerName(t) = [k \in 1 .. Len(t) |-> Lower[t[k]]]
    BY <1>1 DEF LowerName
  <1>3. ASSUME LowerName(s) = LowerName(t)
        PROVE  Len(s) = Len(t) /\ \A k \in 1 .. Len(s) : Lower[s[k]] = Lower[t[k]]
    <2>1. 1 .. Len(s) = 1 .. Len(t)
      <3>1. DOMAIN LowerName(s) = 1 .. Len(s) /\ DOMAIN LowerName(t) = 1 .. Len(t)
        BY <1>2
      <3>2. QED
        BY <1>3, <3>1
    <2>2. Len(s) = Len(t)
      BY <1>1, <2>1, SameInterval
    <2>3. ASSUME NEW k \in 1 .. Len(s)
          PROVE  Lower[s[k]] = Lower[t[k]]
      <3>1. LowerName(s)[k] = Lower[s[k]] /\ LowerName(t)[k] = Lower[t[k]]
        BY <1>2, <2>1
      <3>2. QED
        BY <1>3, <3>1
    <2>4. QED
      BY <2>2, <2>3
  <1>4. ASSUME Len(s) = Len(t), \A k \in 1 .. Len(s) : Lower[s[k]] = Lower[t[k]]
        PROVE  LowerName(s) = LowerName(t)
    BY <1>2, <1>4
  <1>5. QED
    BY <1>3, <1>4

\* A base that is not like a suffixed name is never served as another base with
\* a number.
LEMMA BaseIsNoOther ==
    ASSUME entries \in Catalogs, NEW b \in Seq(Characters), NEW c \in Seq(Characters),
           Len(c) >= 1, ~Suffixed(b), NEW n \in 1 .. Len(entries),
           LowerName(b) = LowerName(Filename(c, n))
    PROVE  FALSE
  <1> DEFINE t == Filename(c, n)
             L == Len(c)
  <1>1. t \in Seq(Characters) /\ L \in Nat
    <2>1. n \in 0 .. Len(entries) /\ Characters \ {":", "*"} \subseteq Characters
      OBVIOUS
    <2>2. QED
      BY <2>1, FilenameType, PlacesOf
  <1>2. Len(t) = L + 2 /\ t[L + 1] = "-"
    BY FilenameParts
  <1>3. Len(b) = Len(t) /\ \A k \in 1 .. Len(b) : Lower[b[k]] = Lower[t[k]]
    <2> HIDE DEF t
    <2>1. LowerName(b) = LowerName(t)
      BY DEF t
    <2>2. QED
      BY <1>1, <2>1, SameLowerName
  <1> HIDE DEF t, L
  <1>4. Len(b) > 2 /\ Len(b) - 1 = L + 1 /\ L + 1 \in 1 .. Len(b)
    <2>1. L >= 1 /\ Len(b) = L + 2
      BY <1>2, <1>3 DEF L
    <2>2. QED
      BY <1>1, <2>1
  <1>5. Lower[b[L + 1]] = Lower["-"]
    BY <1>2, <1>3, <1>4
  <1>6. b[L + 1] \in Characters
    BY <1>4, PlacesOf
  <1>7. b[L + 1] = "-"
    BY <1>5, <1>6, LowerAssumption DEF Characters
  <1>8. QED
    BY <1>4, <1>7 DEF Suffixed

\* Filenames of plain bases that differ in case only are of one base and number.
LEMMA SameFilename ==
    ASSUME entries \in Catalogs, NEW b \in Seq(Characters), NEW c \in Seq(Characters),
           Len(b) >= 1, Len(c) >= 1, ~Suffixed(b), ~Suffixed(c),
           NEW m \in 0 .. Len(entries), NEW n \in 0 .. Len(entries),
           LowerName(Filename(b, m)) = LowerName(Filename(c, n))
    PROVE  LowerName(b) = LowerName(c) /\ m = n
  <1>1. (m = 0 \/ m \in 1 .. Len(entries)) /\ (n = 0 \/ n \in 1 .. Len(entries))
    OBVIOUS
  <1>2. CASE m = 0 /\ n = 0
    BY <1>2 DEF Filename
  <1>3. CASE m = 0 /\ n \in 1 .. Len(entries)
    <2>1. LowerName(b) = LowerName(Filename(c, n))
      BY <1>3 DEF Filename
    <2>2. QED
      BY <1>3, <2>1, BaseIsNoOther
  <1>4. CASE m \in 1 .. Len(entries) /\ n = 0
    <2>1. LowerName(c) = LowerName(Filename(b, m))
      BY <1>4 DEF Filename
    <2>2. QED
      BY <1>4, <2>1, BaseIsNoOther
  <1>5. CASE m \in 1 .. Len(entries) /\ n \in 1 .. Len(entries)
    <2> DEFINE s == Filename(b, m)
               t == Filename(c, n)
               x == ToString(m)
               y == ToString(n)
    <2>1. s \in Seq(Characters) /\ t \in Seq(Characters)
      <3>1. Characters \ {":", "*"} \subseteq Characters
        OBVIOUS
      <3>2. QED
        BY <3>1, FilenameType
    <2>2. Len(s) = Len(b) + 2 /\ (\A k \in 1 .. Len(b) : s[k] = b[k]) /\ s[Len(b) + 2] = x
      BY <1>5, FilenameParts
    <2>3. Len(t) = Len(c) + 2 /\ (\A k \in 1 .. Len(c) : t[k] = c[k]) /\ t[Len(c) + 2] = y
      BY <1>5, FilenameParts
    <2>4. Lower[x] = x /\ Lower[y] = y /\ (x = y => m = n)
      BY <1>5, NumberCharacters
    <2> HIDE DEF s, t, x, y
    <2>5. Len(s) = Len(t) /\ \A k \in 1 .. Len(s) : Lower[s[k]] = Lower[t[k]]
      <3>1. LowerName(s) = LowerName(t)
        BY DEF s, t
      <3>2. QED
        BY <2>1, <3>1, SameLowerName
    <2>6. Len(b) \in Nat /\ Len(c) \in Nat
      BY PlacesOf
    <2>7. Len(b) = Len(c)
      BY <2>2, <2>3, <2>5, <2>6
    <2>8. \A k \in 1 .. Len(b) : Lower[b[k]] = Lower[c[k]]
      <3>1. \A k \in 1 .. Len(b) : k \in 1 .. Len(s)
        BY <2>2, <2>6
      <3>2. QED
        BY <2>2, <2>3, <2>5, <2>7, <3>1
    <2>9. Lower[x] = Lower[y]
      <3>1. Len(b) + 2 \in 1 .. Len(s)
        BY <2>2, <2>6
      <3>2. QED
        BY <2>2, <2>3, <2>5, <2>7, <3>1
    <2>10. LowerName(b) = LowerName(c)
      BY <2>7, <2>8, SameLowerName
    <2>11. QED
      BY <2>4, <2>9, <2>10
  <1>6. QED
    BY <1>1, <1>2, <1>3, <1>4, <1>5

\* If the bases are plain, no two games are served under one name.
LEMMA NamesDiffer ==
    ASSUME CatalogInv, PlainNames, NEW j \in DOMAIN games, NEW k \in DOMAIN games,
           LowerName(games[j].filename) = LowerName(games[k].filename)
    PROVE  j = k
  <1> DEFINE b == Base(games[j])
             c == Base(games[k])
             J == Places(b)
             N == Len(games)
  <1>1. TypeOK /\ NumberedInOrder
    BY DEF CatalogInv
  <1>2. /\ Number(j) \in 0 .. Len(entries) /\ Number(k) \in 0 .. Len(entries)
        /\ entries \in Catalogs /\ games[j].name \in Seq(Characters)
        /\ games[k].name \in Seq(Characters)
        /\ games[j].filename = Filename(b, Number(j))
        /\ games[k].filename = Filename(c, Number(k))
    BY NumberInRange
  <1>3. b \in Seq(Characters) /\ c \in Seq(Characters) /\ Len(b) >= 1 /\ Len(c) >= 1
    <2>1. Len(b) \in 1 .. MaxBaseLen /\ Len(c) \in 1 .. MaxBaseLen
      BY <1>2, LegalBase DEF Base
    <2>2. MaxBaseLen \in Nat
      BY MaxBaseLenAssumption
    <2>3. b \in Seq(Characters) /\ c \in Seq(Characters)
      BY <1>2, LegalBase DEF Base
    <2> HIDE DEF b, c
    <2>4. QED
      BY <2>1, <2>2, <2>3
  <1>4. ~Suffixed(b) /\ ~Suffixed(c) /\ (LowerName(b) = LowerName(c) => b = c)
    <2>1. b \in DOMAIN seen /\ c \in DOMAIN seen
      BY <1>1 DEF NumberedInOrder
    <2>2. QED
      BY <2>1 DEF PlainNames
  <1>5. b = c /\ Number(j) = Number(k)
    <2> HIDE DEF b, c
    <2>1. LowerName(Filename(b, Number(j))) = LowerName(Filename(c, Number(k)))
      BY <1>2
    <2>2. LowerName(b) = LowerName(c) /\ Number(j) = Number(k)
      BY <1>2, <1>3, <1>4, <2>1, SameFilename
    <2>3. QED
      BY <1>4, <2>2
  <1>6. j \in J /\ k \in J
    BY <1>5 DEF Places
  <1>7. Rank(J, j - 1) = Rank(J, k - 1)
    BY <1>5 DEF Number, Rank
  <1>8. N \in Nat /\ J \in SUBSET (1 .. N)
    BY <1>1, CatalogTypes, PlacesAreFinite
  <1> HIDE DEF J, N
  <1>9. QED
    BY <1>6, <1>7, <1>8, RanksDiffer

\* Each entry of the table is the only game of its name.
LEMMA InvImpliesServed == CatalogInv => PlainNamesServed
  <1>1. SUFFICES ASSUME CatalogInv, PlainNames, DOMAIN served # {}
                 PROVE  /\ \A j \in DOMAIN games : served[LowerName(games[j].filename)] = games[j]
                        /\ {entries[j].url : j \in {k \in DOMAIN entries : Usable(entries[k])}} =
                               {served[name].url : name \in DOMAIN served}
    BY DEF PlainNamesServed
  <1>2. TypeOK /\ NoneMissed
    BY <1>1 DEF CatalogInv
  <1>3. i = Len(entries) /\ served = Table(games)
    BY <1>1, <1>2 DEF NoneMissed
  <1>4. Len(games) \in Nat /\ DOMAIN games = 1 .. Len(games) /\ entries \in Catalogs
    BY <1>2, CatalogTypes
  <1>5. ASSUME NEW j \in DOMAIN games
        PROVE  served[LowerName(games[j].filename)] = games[j]
    <2> DEFINE name == LowerName(games[j].filename)
               J == {k \in DOMAIN games : LowerName(games[k].filename) = name}
    <2>1. served[name] = games[Max(J)]
      BY <1>3 DEF Table
    <2>2. j \in J /\ J \in SUBSET (1 .. Len(games))
      BY <1>4
    <2>3. Max(J) \in J
      <3> HIDE DEF J
      <3>1. QED
        BY <1>4, <2>2, FirstAndLast
    <2>4. Max(J) = j
      BY <1>1, <2>3, NamesDiffer
    <2>5. QED
      BY <2>1, <2>4
  <1>6. DOMAIN served = {LowerName(games[j].filename) : j \in DOMAIN games}
    BY <1>3 DEF Table
  <1>7. {served[name].url : name \in DOMAIN served} = UrlsSeen
    BY <1>5, <1>6 DEF UrlsSeen
  <1>8. DOMAIN entries = 1 .. i
    <2>1. entries \in Seq([name : Seq(DOMAIN Lower), url : Urls \cup {"none"}])
      BY <1>4, CatalogsAssumption
    <2>2. QED
      BY <1>3, <2>1, PlacesOf
  <1>9. {entries[j].url : j \in {k \in DOMAIN entries : Usable(entries[k])}} = UrlsSeen
    BY <1>2, <1>8 DEF NoneMissed
  <1>10. QED
    BY <1>5, <1>7, <1>9

\* With plain names every game is served under its own filename, and every
\* usable URL of the catalog file is served.
THEOREM PlainNamesAreServed == Spec => []PlainNamesServed
  BY CatalogInvariant, InvImpliesServed, PTL

-----------------------------------------------------------------------------
(* Letters.                                                                 *)

Punctuation == {" ", ".", ":", "*"}

\* The letters are what is left without the punctuation.
LEMMA LettersAreKept == \A s : Letters(s) = At(s, Kept(s, Punctuation))
  BY DEF Letters, Letter, Kept, Punctuation

\* The base is the trimmed name, or a prefix of it cut at MaxBaseLen.
LEMMA BaseKeepsLetters ==
    ASSUME NEW name \in Seq(Characters), Letters(name) # <<>>
    PROVE  LET b == SanitizedName(name)
           IN  /\ IsPrefix(Letters(b), Letters(name))
               /\ Letters(b) = Letters(name) \/ Len(b) >= MaxBaseLen - 1
  <1> DEFINE d == EdgesTrimmed(Collapsed(Legal(Separated(Strip(name, " ")))))
             b == SanitizedName(name)
             P == Punctuation
  <1>1. /\ d \in Seq(Characters \ {":", "*"}) /\ Spaced(d)
        /\ At(d, Kept(d, P)) = At(name, Kept(name, P))
    <2>1. " " \in Characters /\ {" ", ".", ":", "*"} \subseteq P
      BY LowerAssumption DEF Characters, Punctuation
    <2> HIDE DEF P
    <2>2. QED
      BY <2>1, TrimmedName
  <1> HIDE DEF d
  <1>2. d # <<>>
    <2>1. SUFFICES ASSUME d = <<>> PROVE FALSE
      OBVIOUS
    <2>2. Kept(d, P) = {}
      BY <2>1 DEF Kept
    <2>3. At(d, Kept(d, P)) = <<>>
      <3>1. 1 .. Cardinality({}) = {}
        BY FS_EmptySet
      <3>2. At(d, {}) = [k \in {} |-> d[Place({}, k)]]
        BY <3>1 DEF At
      <3>3. QED
        BY <2>2, <3>2
    <2>4. QED
      BY <1>1, <2>3, LettersAreKept
  <1>3. b = Truncated(d)
    BY <1>2 DEF SanitizedName, Named, d
  <1>4. d \in Seq(Characters) /\ b \in Seq(Characters)
    <2>1. Characters \ {":", "*"} \subseteq Characters
      OBVIOUS
    <2>2. QED
      BY <1>1, <2>1, SequenceWithin, LegalBase
  <1>5. /\ Len(b) <= Len(d) /\ \A k \in 1 .. Len(b) : b[k] = d[k]
        /\ b = d \/ Len(b) >= MaxBaseLen - 1
    <2> HIDE DEF b
    <2>1. QED
      BY <1>1, <1>3, <1>4, CutIsPrefix
  <1> HIDE DEF b, P
  <1>6. IsPrefix(At(b, Kept(b, P)), At(d, Kept(d, P)))
    BY ONLY <1>4, <1>5, OthersOfPrefix
  <1>7. Letters(d) = Letters(name) /\ IsPrefix(Letters(b), Letters(d))
    BY <1>1, <1>6, LettersAreKept DEF P
  <1>8. QED
    BY <1>5, <1>7 DEF b

\* A suffix comes after the letters of the base.
LEMMA FilenameKeepsLetters ==
    ASSUME entries \in Catalogs, NEW n \in 0 .. Len(entries), NEW name \in Seq(Characters),
           Letters(name) # <<>>
    PROVE  LET s == Filename(SanitizedName(name), n)
               wanted == Letters(name)
           IN  \/ IsPrefix(wanted, Letters(s))
               \/ CutFrom(s, wanted)
               \/ Suffixed(s) /\ CutFrom(SubSeq(s, 1, Len(s) - 2), wanted)
  <1> DEFINE b == SanitizedName(name)
             s == Filename(b, n)
             wanted == Letters(name)
             P == Punctuation
  <1>1. b \in Seq(Characters) /\ Len(b) \in Nat /\ Len(b) >= 1
    <2>1. b \in Seq(Characters) /\ Len(b) \in 1 .. MaxBaseLen
      BY LegalBase
    <2> HIDE DEF b
    <2>2. QED
      BY <2>1, MaxBaseLenAssumption
  <1>2. IsPrefix(Letters(b), wanted) /\ (Letters(b) = wanted \/ Len(b) >= MaxBaseLen - 1)
    BY BaseKeepsLetters
  <1> HIDE DEF b, wanted
  <1>3. CASE n = 0
    <2>1. s = b
      BY <1>3 DEF Filename
    <2>2. CASE Letters(b) = wanted
      BY <1>2, <2>1, <2>2 DEF b, wanted
    <2>3. CASE Len(b) >= MaxBaseLen - 1
      BY <1>2, <2>1, <2>3 DEF b, wanted, CutFrom
    <2>4. QED
      BY <1>2, <2>2, <2>3
  <1>4. CASE n \in 1 .. Len(entries)
    <2>1. Len(s) = Len(b) + 2 /\ (\A k \in 1 .. Len(b) : s[k] = b[k]) /\ s[Len(b) + 1] = "-"
      BY <1>1, <1>4, FilenameParts
    <2>2. s \in Seq(Characters)
      <3>1. Characters \ {":", "*"} \subseteq Characters
        OBVIOUS
      <3>2. QED
        BY <1>1, <3>1, FilenameType
    <2> HIDE DEF s, P
    <2>3. Len(b) <= Len(s) /\ Len(s) - 2 = Len(b) /\ Len(s) - 1 = Len(b) + 1 /\ Len(s) > 2
      BY <1>1, <2>1
    <2>4. CASE Letters(b) = wanted
      <3>1. IsPrefix(At(b, Kept(b, P)), At(s, Kept(s, P)))
        BY ONLY <1>1, <2>1, <2>2, <2>3, OthersOfPrefix
      <3>2. IsPrefix(wanted, Letters(s))
        BY <2>4, <3>1, LettersAreKept DEF P
      <3>3. QED
        BY <3>2 DEF b, s, wanted
    <2>5. CASE Len(b) >= MaxBaseLen - 1
      <3>1. Suffixed(s)
        BY <2>1, <2>3 DEF Suffixed
      <3>2. SubSeq(s, 1, Len(s) - 2) = b
        <4>1. b \in Seq(Characters) /\ s \in Seq(Characters) /\ Len(b) >= 1
              /\ Len(s) = Len(b) + 2 /\ \A k \in 1 .. Len(b) : s[k] = b[k]
          BY <1>1, <2>1, <2>2
        <4>2. QED
          BY ONLY <4>1, StemOf
      <3>3. CutFrom(b, wanted)
        BY <1>2, <2>5 DEF CutFrom
      <3>4. QED
        BY <3>1, <3>2, <3>3 DEF b, s, wanted
    <2>6. QED
      BY <1>2, <2>4, <2>5
  <1>5. QED
    BY <1>3, <1>4

\* A filename is a sanitized name and its number, and each keeps the letters.
LEMMA InvImpliesSanitary == CatalogInv => Sanitary
  <1>1. SUFFICES ASSUME CatalogInv, NEW j \in DOMAIN games
                 PROVE  WellNamed(games[j]) /\ KeepsLetters(games[j])
    BY DEF Sanitary
  <1> DEFINE name == games[j].name
             n == Number(j)
             s == Filename(SanitizedName(name), n)
  <1>2. n \in 0 .. Len(entries) /\ entries \in Catalogs /\ name \in Seq(Characters)
        /\ games[j].filename = s
    BY <1>1, NumberInRange DEF Base
  <1> HIDE DEF n, name
  <1>3. ASSUME Letters(name) # <<>>
        PROVE  \/ IsPrefix(Letters(name), Letters(s))
               \/ CutFrom(s, Letters(name))
               \/ Suffixed(s) /\ CutFrom(SubSeq(s, 1, Len(s) - 2), Letters(name))
    BY <1>2, <1>3, FilenameKeepsLetters
  <1> HIDE DEF s
  <1>4. KeepsLetters(games[j])
    BY <1>2, <1>3 DEF KeepsLetters, name
  <1>5. QED
    BY <1>1, <1>4, InvImpliesForm

\* Every filename is legal, not empty and not too long, and has the letters of
\* the display name in their order, all of them unless it was cut.
THEOREM FilenamesSanitary == Spec => []Sanitary
  BY CatalogInvariant, InvImpliesSanitary, PTL

\* With plain names equal filenames are of one game.
LEMMA PlainImpliesUnique == CatalogInv => (PlainNames => FilenamesUnique)
  <1>1. SUFFICES ASSUME CatalogInv, PlainNames, NEW j \in DOMAIN games, NEW k \in DOMAIN games,
                        games[j].filename = games[k].filename
                 PROVE  j = k
    BY DEF FilenamesUnique
  <1>2. LowerName(games[j].filename) = LowerName(games[k].filename)
    BY <1>1
  <1>3. QED
    BY <1>1, <1>2, NamesDiffer

\* With plain names the filenames are unique, as load_catalog says they are.
THEOREM PlainFilenamesUnique == Spec => [](PlainNames => FilenamesUnique)
  BY CatalogInvariant, PlainImpliesUnique, PTL

-----------------------------------------------------------------------------
(* The list is the one the file should make.                                *)

\* One place more is one element more.
LEMMA AtAppend ==
    ASSUME NEW G, NEW n \in Nat, NEW J \in SUBSET (1 .. n)
    PROVE  At(G, J \cup {n + 1}) = Append(At(G, J), G[n + 1])
  <1> DEFINE m == Cardinality(J)
             L == J \cup {n + 1}
             f == [k \in 1 .. m + 1 |-> IF k <= m THEN Place(J, k) ELSE n + 1]
             S == {G[j] : j \in J}
  <1>1. /\ m \in Nat
        /\ \A k \in 1 .. m : Place(J, k) \in J
        /\ \A k, l \in 1 .. m : k < l => Place(J, k) < Place(J, l)
        /\ \A j \in J : Rank(J, j) \in 1 .. m /\ Place(J, Rank(J, j)) = j
    BY PlacesInOrder
  <1>2. At(G, J) \in Seq(S) /\ Len(At(G, J)) = m /\ \A k \in 1 .. m : At(G, J)[k] = G[Place(J, k)]
    <2>1. At(G, J) = [k \in 1 .. m |-> G[Place(J, k)]]
      BY DEF At
    <2> HIDE DEF m
    <2>2. At(G, J) \in [1 .. m -> S]
      BY <1>1, <2>1
    <2> HIDE DEF S
    <2>3. At(G, J) \in Seq(S) /\ Len(At(G, J)) = m
      BY <1>1, <2>2, SequenceFrom
    <2>4. QED
      BY <2>1, <2>3
  <1>3. /\ n + 1 \in Nat /\ L \in SUBSET (1 .. n + 1)
        /\ \A j \in J : j \in Nat /\ j < n + 1
    OBVIOUS
  <1>4. \A k : k \in 1 .. m + 1 <=> k \in 1 .. m \/ k = m + 1
    BY <1>1
  <1>5. \A k \in 1 .. m : k <= m /\ k \in Nat
    BY <1>1
  <1> HIDE DEF m
  <1>6. (\A k \in 1 .. m : f[k] = Place(J, k)) /\ f[m + 1] = n + 1
    BY <1>1, <1>4, <1>5
  <1>7. f \in [1 .. m + 1 -> L]
    <2>1. \A k \in 1 .. m + 1 : (IF k <= m THEN Place(J, k) ELSE n + 1) \in L
      BY <1>1, <1>4, <1>5
    <2>2. QED
      BY <2>1
  <1> HIDE DEF f
  <1>8. ASSUME NEW k \in 1 .. m + 1, NEW l \in 1 .. m + 1, k < l
        PROVE  f[k] < f[l]
    <2>1. k \in 1 .. m
      BY <1>1, <1>8
    <2>2. CASE l \in 1 .. m
      BY <1>1, <1>6, <1>8, <2>1, <2>2
    <2>3. CASE l = m + 1
      BY <1>1, <1>3, <1>6, <2>1, <2>3
    <2>4. QED
      BY <1>4, <2>2, <2>3
  <1>9. \A j \in L : \E k \in 1 .. m + 1 : f[k] = j
    BY <1>1, <1>4, <1>6
  <1> HIDE DEF L
  <1>10. m + 1 \in Nat
    BY <1>1
  <1>11. Runs(f, m + 1, L, n + 1)
    BY <1>3, <1>7, <1>8, <1>9, <1>10 DEF Runs
  <1>12. Cardinality(L) = m + 1 /\ \A k \in 1 .. m + 1 : Place(L, k) = f[k]
    BY <1>11, RunsThrough
  <1>13. At(G, L) = [k \in 1 .. m + 1 |-> G[f[k]]]
    BY <1>12 DEF At
  <1> DEFINE t == At(G, J)
             x == G[n + 1]
             T == S \cup {x}
  <1>14. t \in Seq(T)
    <2>1. S \subseteq T
      OBVIOUS
    <2> HIDE DEF S, T
    <2>2. QED
      BY <1>2, <2>1, SequenceWithin
  <1>15. x \in T
    OBVIOUS
  <1>16. Len(t) = m /\ \A k \in 1 .. m : t[k] = G[f[k]]
    BY <1>2, <1>6
  <1>17. x = G[f[m + 1]]
    BY <1>6
  <1> HIDE DEF t, x, T
  <1>18. /\ Append(t, x) \in Seq(T) /\ Len(Append(t, x)) = m + 1
         /\ \A k \in 1 .. m : Append(t, x)[k] = t[k]
         /\ Append(t, x)[m + 1] = x
    BY <1>14, <1>15, <1>16, AppendElements
  <1>19. \A k \in 1 .. m + 1 : Append(t, x)[k] = G[f[k]]
    BY <1>4, <1>16, <1>17, <1>18
  <1>20. Append(t, x) = [k \in 1 .. m + 1 |-> G[f[k]]]
    <2> DEFINE a == Append(t, x)
    <2>1. a \in Seq(T) /\ Len(a) = m + 1 /\ \A k \in 1 .. m + 1 : a[k] = G[f[k]]
      BY <1>18, <1>19
    <2> HIDE DEF a
    <2>2. a = [k \in 1 .. m + 1 |-> a[k]]
      BY <2>1
    <2>3. a = [k \in 1 .. m + 1 |-> G[f[k]]]
      BY <2>1, <2>2
    <2>4. QED
      BY <2>3 DEF a
  <1>21. QED
    BY <1>13, <1>20 DEF L, t, x

\* The games a file makes, one at each first use of a URL.
FileGames(file) ==
    [k \in DOMAIN file |-> GameOf(file[k], Cardinality(UsesIn(file, k - 1, Base(file[k]))))]

\* An entry is the first use of its URL iff load_catalog takes it.
LEMMA FirstUseNext ==
    ASSUME CatalogInv, i < Len(entries)
    PROVE  i + 1 \in FirstUses(entries) <=>
               Usable(entries[i + 1]) /\ entries[i + 1].url \notin UrlsSeen
  <1>1. TypeOK /\ NoneMissed
    BY DEF CatalogInv
  <1>2. i \in Nat /\ Len(entries) \in Nat /\ entries \in Catalogs
    BY <1>1, CatalogTypes
  <1>3. DOMAIN entries = 1 .. Len(entries)
    BY <1>2, CatalogsAssumption, PlacesOf
  <1>4. i + 1 \in DOMAIN entries /\ (i + 1) - 1 = i
    BY <1>2, <1>3
  <1>5. UrlsSeen = {entries[k].url : k \in {m \in 1 .. i : Usable(entries[m])}}
    BY <1>1 DEF NoneMissed
  <1> DEFINE url == entries[i + 1].url
  <1>6. url \in UrlsSeen <=> \E m \in 1 .. i : Usable(entries[m]) /\ entries[m].url = url
    BY <1>5
  <1>7. i + 1 \in FirstUses(entries) <=>
          /\ Usable(entries[i + 1])
          /\ \A m \in 1 .. i : Usable(entries[m]) => entries[m].url # url
    <2> DEFINE First(k) ==
                 /\ Usable(entries[k])
                 /\ \A m \in 1 .. k - 1 : Usable(entries[m]) => entries[m].url # entries[k].url
    <2>1. FirstUses(entries) = {k \in DOMAIN entries : First(k)}
      BY DEF FirstUses
    <2>2. First(i + 1) <=>
            /\ Usable(entries[i + 1])
            /\ \A m \in 1 .. (i + 1) - 1 : Usable(entries[m]) => entries[m].url # url
      OBVIOUS
    <2> HIDE DEF First, url
    <2>3. i + 1 \in FirstUses(entries) <=> First(i + 1)
      BY <1>4, <2>1
    <2>4. QED
      BY <1>4, <2>2, <2>3
  <1>8. QED
    BY <1>6, <1>7

\* One entry more is one first use more, or none.
LEMMA FirstUsesGrow ==
    ASSUME NEW file, NEW n \in Nat
    PROVE  /\ FirstUses(file) \cap (1 .. n + 1) =
                 IF n + 1 \in FirstUses(file)
                 THEN (FirstUses(file) \cap (1 .. n)) \cup {n + 1}
                 ELSE FirstUses(file) \cap (1 .. n)
           /\ \A base : UsesIn(file, n + 1, base) =
                 IF n + 1 \in FirstUses(file) /\ Base(file[n + 1]) = base
                 THEN UsesIn(file, n, base) \cup {n + 1}
                 ELSE UsesIn(file, n, base)
           /\ \A base : /\ IsFiniteSet(UsesIn(file, n, base)) /\ n + 1 \notin UsesIn(file, n, base)
                        /\ Cardinality(UsesIn(file, n, base)) \in Nat
  <1>1. \A m : m \in 1 .. n + 1 <=> m \in 1 .. n \/ m = n + 1
    OBVIOUS
  <1>2. n + 1 \notin 1 .. n
    OBVIOUS
  <1>3. IsFiniteSet(1 .. n)
    BY FS_Interval
  <1> DEFINE F == FirstUses(file)
  <1>4. \A m, base : UsesIn(file, m, base) = {k \in F \cap (1 .. m) : Base(file[k]) = base}
    BY DEF UsesIn
  <1> HIDE DEF F
  <1>5. F \cap (1 .. n + 1) = IF n + 1 \in F THEN (F \cap (1 .. n)) \cup {n + 1} ELSE F \cap (1 .. n)
    BY <1>1
  <1>6. ASSUME NEW base
        PROVE  /\ UsesIn(file, n + 1, base) =
                    IF n + 1 \in F /\ Base(file[n + 1]) = base
                    THEN UsesIn(file, n, base) \cup {n + 1}
                    ELSE UsesIn(file, n, base)
               /\ IsFiniteSet(UsesIn(file, n, base)) /\ n + 1 \notin UsesIn(file, n, base)
               /\ Cardinality(UsesIn(file, n, base)) \in Nat
    <2> DEFINE U == {k \in F \cap (1 .. n) : Base(file[k]) = base}
               V == {k \in F \cap (1 .. n + 1) : Base(file[k]) = base}
    <2>1. V = IF n + 1 \in F /\ Base(file[n + 1]) = base THEN U \cup {n + 1} ELSE U
      BY <1>1
    <2>2. U \subseteq 1 .. n
      OBVIOUS
    <2>3. UsesIn(file, n, base) = U /\ UsesIn(file, n + 1, base) = V
      BY <1>4
    <2> HIDE DEF U, V
    <2>4. IsFiniteSet(U)
      BY <1>3, <2>2, FS_Subset
    <2>5. Cardinality(U) \in Nat
      BY <2>4, FS_CardinalityType
    <2>6. QED
      BY <1>2, <2>1, <2>2, <2>3, <2>4, <2>5
  <1>7. QED
    BY <1>5, <1>6 DEF F

\* Nothing is loaded before the first entry.
LEMMA NothingLoaded ==
    ASSUME NEW file
    PROVE  Loaded(file, 0) = <<>> /\ \A base : Cardinality(UsesIn(file, 0, base)) = 0
  <1>1. 1 .. 0 = {}
    OBVIOUS
  <1>2. FirstUses(file) \cap (1 .. 0) = {}
    BY <1>1
  <1>3. \A base : UsesIn(file, 0, base) = {}
    BY <1>2 DEF UsesIn
  <1>4. Cardinality({}) = 0
    BY FS_EmptySet
  <1>5. At(FileGames(file), {}) = <<>>
    BY <1>1, <1>4 DEF At
  <1>6. QED
    BY <1>2, <1>3, <1>4, <1>5 DEF Loaded, FileGames

\* What one entry more makes of the list.
LEMMA LoadedGrows ==
    ASSUME NEW file, NEW n \in Nat, n + 1 \in DOMAIN file
    PROVE  Loaded(file, n + 1) =
             IF n + 1 \in FirstUses(file)
             THEN Append(Loaded(file, n),
                         GameOf(file[n + 1], Cardinality(UsesIn(file, n, Base(file[n + 1])))))
             ELSE Loaded(file, n)
  <1> DEFINE G == FileGames(file)
             J == FirstUses(file) \cap (1 .. n)
             L == FirstUses(file) \cap (1 .. n + 1)
  <1>1. Loaded(file, n) = At(G, J) /\ Loaded(file, n + 1) = At(G, L)
    BY DEF Loaded, FileGames
  <1>2. L = IF n + 1 \in FirstUses(file) THEN J \cup {n + 1} ELSE J
    BY FirstUsesGrow
  <1>3. J \in SUBSET (1 .. n)
    OBVIOUS
  <1>4. G[n + 1] = GameOf(file[n + 1], Cardinality(UsesIn(file, n, Base(file[n + 1]))))
    <2>1. n + 1 - 1 = n
      OBVIOUS
    <2>2. G[n + 1] = GameOf(file[n + 1], Cardinality(UsesIn(file, n + 1 - 1, Base(file[n + 1]))))
      BY DEF FileGames
    <2>3. QED
      BY <2>1, <2>2
  <1> HIDE DEF G, J, L
  <1>5. At(G, J \cup {n + 1}) = Append(At(G, J), G[n + 1])
    BY <1>3, AtAppend
  <1>6. QED
    BY <1>1, <1>2, <1>4, <1>5

\* At first there is nothing.
LEMMA ReferenceStarts == Init => LoadsReference
  <1>1. SUFFICES ASSUME Init PROVE LoadsReference
    OBVIOUS
  <1>2. i = 0 /\ games = <<>> /\ seen = <<>> /\ DOMAIN seen = {}
    BY <1>1 DEF Init
  <1>3. Loaded(entries, 0) = <<>> /\ \A base : Cardinality(UsesIn(entries, 0, base)) = 0
    BY NothingLoaded
  <1>4. \A base : Uses(base) = 0
    BY <1>2 DEF Uses
  <1>5. QED
    BY <1>2, <1>3, <1>4 DEF LoadsReference

\* An entry is skipped if it is not the first use of a URL.
LEMMA SkipLoads ==
    ASSUME CatalogInv, LoadsReference, Skip
    PROVE  LoadsReference'
  <1>1. i < Len(entries) /\ i' = i + 1 /\ UNCHANGED <<entries, games, seen, served>>
    BY DEF Skip
  <1>2. i \in Nat /\ DOMAIN entries = 1 .. Len(entries) /\ i + 1 \in DOMAIN entries
    <2>1. TypeOK
      BY DEF CatalogInv
    <2>2. i \in Nat /\ Len(entries) \in Nat /\ entries \in Catalogs
      BY <2>1, CatalogTypes
    <2>3. DOMAIN entries = 1 .. Len(entries)
      BY <2>2, CatalogsAssumption, PlacesOf
    <2>4. QED
      BY <1>1, <2>2, <2>3
  <1>3. i + 1 \notin FirstUses(entries)
    BY <1>1, FirstUseNext DEF Skip
  <1>4. Loaded(entries, i + 1) = Loaded(entries, i)
    BY <1>2, <1>3, LoadedGrows
  <1>5. \A base : UsesIn(entries, i + 1, base) = UsesIn(entries, i, base)
    BY <1>2, <1>3, FirstUsesGrow
  <1>6. games' = Loaded(entries, i)
    BY <1>1 DEF LoadsReference
  <1>7. \A k \in DOMAIN entries :
           Uses(Base(entries[k]))' = Cardinality(UsesIn(entries, i + 1, Base(entries[k])))
    BY <1>1, <1>5 DEF LoadsReference, Uses, Base
  <1>8. QED
    <2>1. games' = Loaded(entries, i + 1)
      BY <1>4, <1>6
    <2>2. entries' = entries /\ i' = i + 1
      BY <1>1
    <2>3. QED
      BY <1>7, <2>1, <2>2 DEF LoadsReference, Base

\* An entry that is the first use of its URL gets the next number of its base.
LEMMA AddLoads ==
    ASSUME CatalogInv, LoadsReference, Add
    PROVE  LoadsReference'
  <1> DEFINE entry == entries[i + 1]
             base == Base(entry)
             u == Uses(base)
  <1>1. /\ i < Len(entries) /\ i' = i + 1 /\ entries' = entries
        /\ seen' = [b \in DOMAIN seen \cup {base} |-> IF b = base THEN u + 1 ELSE seen[b]]
        /\ games' = Append(games, GameOf(entry, u))
    BY DEF Add, Suffix, Base
  <1>2. i \in Nat /\ i + 1 \in DOMAIN entries
    <2>1. TypeOK
      BY DEF CatalogInv
    <2>2. i \in Nat /\ Len(entries) \in Nat /\ entries \in Catalogs
      BY <2>1, CatalogTypes
    <2>3. DOMAIN entries = 1 .. Len(entries)
      BY <2>2, CatalogsAssumption, PlacesOf
    <2>4. QED
      BY <1>1, <2>2, <2>3
  <1>3. i + 1 \in FirstUses(entries)
    BY <1>1, FirstUseNext DEF Add
  <1>4. /\ games = Loaded(entries, i)
        /\ \A k \in DOMAIN entries :
              Uses(Base(entries[k])) = Cardinality(UsesIn(entries, i, Base(entries[k])))
    BY DEF LoadsReference
  <1>5. u = Cardinality(UsesIn(entries, i, base))
    BY <1>2, <1>4
  <1>7. Loaded(entries, i + 1) =
           Append(Loaded(entries, i), GameOf(entry, Cardinality(UsesIn(entries, i, base))))
    BY <1>2, <1>3, LoadedGrows
  <1>8. \A b : UsesIn(entries, i + 1, b) =
           IF b = base THEN UsesIn(entries, i, b) \cup {i + 1} ELSE UsesIn(entries, i, b)
    BY <1>2, <1>3, FirstUsesGrow
  <1>9. \A b : IsFiniteSet(UsesIn(entries, i, b)) /\ i + 1 \notin UsesIn(entries, i, b)
    BY <1>2, FirstUsesGrow
  <1> HIDE DEF base, u
  <1>10. Cardinality(UsesIn(entries, i + 1, base)) = Cardinality(UsesIn(entries, i, base)) + 1
    BY <1>8, <1>9, FS_AddElement
  <1>11. \A k \in DOMAIN entries :
            Uses(Base(entries[k]))' = Cardinality(UsesIn(entries, i + 1, Base(entries[k])))
    <2>1. ASSUME NEW k \in DOMAIN entries
          PROVE  Uses(Base(entries[k]))' = Cardinality(UsesIn(entries, i + 1, Base(entries[k])))
      <3> DEFINE b == Base(entries[k])
      <3>1. Uses(b) = Cardinality(UsesIn(entries, i, b))
        BY <1>4
      <3> DEFINE v == IF b \in DOMAIN seen' THEN seen'[b] ELSE 0
      <3>2. Uses(b)' = v
        BY <1>1 DEF Uses, Base
      <3>3. v = IF b = base THEN u + 1 ELSE Uses(b)
        <4> HIDE DEF b
        <4>1. QED
          BY <1>1 DEF Uses
      <3> HIDE DEF b, v
      <3>4. v = Cardinality(UsesIn(entries, i + 1, b))
        BY <1>5, <1>8, <1>10, <3>1, <3>3
      <3>5. QED
        BY <3>2, <3>4 DEF b
    <2>2. QED
      BY <2>1
  <1>12. games' = Loaded(entries, i + 1)
    BY <1>1, <1>4, <1>5, <1>7
  <1>13. QED
    BY <1>1, <1>11, <1>12 DEF LoadsReference, Base

\* So the list is always the one the entries visited should make.
LEMMA ReferenceStays == CatalogInv /\ LoadsReference /\ [Next]_vars => LoadsReference'
  <1>1. SUFFICES ASSUME CatalogInv, LoadsReference, [Next]_vars PROVE LoadsReference'
    OBVIOUS
  <1>2. CASE Skip
    BY <1>1, <1>2, SkipLoads
  <1>3. CASE Add
    BY <1>1, <1>3, AddLoads
  <1>4. ASSUME UNCHANGED <<entries, i, games, seen>>
        PROVE  LoadsReference'
    BY <1>1, <1>4 DEF LoadsReference, Uses, Base
  <1>5. CASE Serve
    BY <1>4, <1>5 DEF Serve
  <1>6. CASE UNCHANGED vars
    BY <1>4, <1>6 DEF vars
  <1>7. QED
    BY <1>1, <1>2, <1>3, <1>5, <1>6 DEF Next

\* load_catalog's list is the function of the entries visited that its comments
\* describe: the first usable entry of each URL, in the order of the file,
\* numbered by the games of its base before it.
THEOREM CatalogLoadsReference == Spec => []LoadsReference
  BY CatalogInvariant, ReferenceStarts, ReferenceStays, PTL DEF Spec

\* The entries a file begins with make the same games, whatever follows them.
LEMMA LoadedOfPrefix ==
    ASSUME NEW old, NEW new, NEW n \in Nat, 1 .. n \subseteq DOMAIN old, 1 .. n \subseteq DOMAIN new,
           \A k \in 1 .. n : old[k] = new[k]
    PROVE  Loaded(old, n) = Loaded(new, n)
  <1>1. \A k \in 1 .. n : k - 1 \in Nat /\ \A m \in 1 .. k - 1 : m \in 1 .. n
    OBVIOUS
  <1> DEFINE J == FirstUses(old) \cap (1 .. n)
             First(file, k) ==
                 /\ Usable(file[k])
                 /\ \A m \in 1 .. k - 1 : Usable(file[m]) => file[m].url # file[k].url
  <1>2. FirstUses(new) \cap (1 .. n) = J
    <2>1. ASSUME NEW k \in 1 .. n
          PROVE  First(old, k) <=> First(new, k)
      <3>1. old[k] = new[k] /\ \A m \in 1 .. k - 1 : old[m] = new[m]
        BY <1>1
      <3>2. QED
        BY <3>1 DEF Usable
    <2>2. /\ FirstUses(old) = {k \in DOMAIN old : First(old, k)}
          /\ FirstUses(new) = {k \in DOMAIN new : First(new, k)}
      BY DEF FirstUses
    <2> HIDE DEF First
    <2>3. QED
      BY <2>1, <2>2
  <1>3. ASSUME NEW k \in J, NEW base
        PROVE  UsesIn(old, k - 1, base) = UsesIn(new, k - 1, base)
    <2>1. \A m \in 1 .. k - 1 : m \in 1 .. n
      BY <1>1
    <2>2. FirstUses(old) \cap (1 .. k - 1) = FirstUses(new) \cap (1 .. k - 1)
      BY <1>2, <2>1
    <2>3. \A m \in 1 .. k - 1 : Base(old[m]) = Base(new[m])
      BY <2>1
    <2>4. QED
      BY <2>2, <2>3 DEF UsesIn
  <1>4. \A k \in J : FileGames(old)[k] = FileGames(new)[k]
    <2>1. ASSUME NEW k \in J
          PROVE  FileGames(old)[k] = FileGames(new)[k]
      <3>1. old[k] = new[k] /\ k \in DOMAIN old /\ k \in DOMAIN new
        OBVIOUS
      <3>2. UsesIn(old, k - 1, Base(old[k])) = UsesIn(new, k - 1, Base(new[k]))
        BY <1>3, <3>1
      <3> HIDE DEF J
      <3>3. QED
        BY <3>1, <3>2 DEF FileGames
    <2>2. QED
      BY <2>1
  <1>5. /\ Cardinality(J) \in Nat
        /\ \A k \in 1 .. Cardinality(J) : Place(J, k) \in J
    <2>1. J \in SUBSET (1 .. n)
      OBVIOUS
    <2> HIDE DEF J
    <2>2. QED
      BY <2>1, PlacesInOrder
  <1>6. Loaded(old, n) = At(FileGames(old), J) /\ Loaded(new, n) = At(FileGames(new), J)
    BY <1>2 DEF Loaded, FileGames
  <1> HIDE DEF J
  <1>7. At(FileGames(old), J) = At(FileGames(new), J)
    BY <1>4, <1>5 DEF At
  <1>8. QED
    BY <1>6, <1>7

\* What is loaded of fewer entries is a prefix of what is loaded of more.
LEMMA LoadedInOrder ==
    ASSUME NEW file, NEW n \in Nat, NEW m \in Nat, 1 .. n + m \subseteq DOMAIN file
    PROVE  IsPrefix(Loaded(file, n), Loaded(file, n + m))
  <1> DEFINE S == {FileGames(file)[k] : k \in DOMAIN file}
             T == {l \in Nat : l <= m => /\ Loaded(file, n + l) \in Seq(S)
                                         /\ IsPrefix(Loaded(file, n), Loaded(file, n + l))}
  <1>1. ASSUME NEW l \in Nat, l <= n + m
        PROVE  Loaded(file, l) \in Seq(S)
    <2> DEFINE J == FirstUses(file) \cap (1 .. l)
               C == Cardinality(J)
    <2>1. J \in SUBSET (1 .. l) /\ J \subseteq DOMAIN file
      BY <1>1
    <2>2. Loaded(file, l) = At(FileGames(file), J)
      BY DEF Loaded, FileGames
    <2> HIDE DEF J
    <2>3. C \in Nat /\ \A k \in 1 .. C : Place(J, k) \in J
      BY <2>1, PlacesInOrder
    <2>4. At(FileGames(file), J) = [k \in 1 .. C |-> FileGames(file)[Place(J, k)]]
      BY DEF At
    <2> HIDE DEF C
    <2>5. At(FileGames(file), J) \in [1 .. C -> S]
      BY <2>1, <2>3, <2>4
    <2> HIDE DEF S
    <2>6. QED
      BY <2>2, <2>3, <2>5, SequenceFrom
  <1>2. 0 \in T
    <2>1. Loaded(file, n) \in Seq(S) /\ n + 0 = n
      BY <1>1
    <2> HIDE DEF S
    <2>2. IsPrefix(Loaded(file, n), Loaded(file, n))
      <3> DEFINE p == Loaded(file, n)
      <3>1. p \in Seq(S) /\ Len(p) \in Nat
        BY <2>1, PlacesOf
      <3> HIDE DEF p
      <3>2. IsPrefix(p, p)
        BY <3>1, PrefixByPlaces
      <3>3. QED
        BY <3>2 DEF p
    <2>3. QED
      BY <2>1, <2>2
  <1>3. ASSUME NEW l \in Nat, l \in T
        PROVE  l + 1 \in T
    <2>1. SUFFICES ASSUME l + 1 <= m
                   PROVE  /\ Loaded(file, n + (l + 1)) \in Seq(S)
                          /\ IsPrefix(Loaded(file, n), Loaded(file, n + (l + 1)))
      OBVIOUS
    <2> DEFINE k == n + l
               p == Loaded(file, n)
               q == Loaded(file, k)
               r == Loaded(file, k + 1)
    <2>2. k \in Nat /\ k + 1 = n + (l + 1) /\ k + 1 \in 1 .. n + m /\ n <= n + m /\ k + 1 <= n + m
      BY <2>1
    <2>3. p \in Seq(S) /\ r \in Seq(S)
      <3> HIDE DEF k, S, T
      <3>1. k + 1 \in Nat
        BY <2>2
      <3>2. QED
        BY <1>1, <2>2, <3>1
    <2>4. q \in Seq(S) /\ IsPrefix(p, q)
      BY <1>3, <2>1
    <2> HIDE DEF T
    <2>5. \/ r = q
          \/ \E x : r = Append(q, x)
      <3> HIDE DEF k
      <3>1. k + 1 \in DOMAIN file
        BY <2>2
      <3>2. QED
        BY <2>2, <3>1, LoadedGrows
    <2> HIDE DEF k, p, q, r
    <2>6. CASE \E x : r = Append(q, x)
      <3>1. PICK x : r = Append(q, x)
        BY <2>6
      <3> DEFINE U == S \cup {x}
      <3>2. S \subseteq U /\ x \in U
        OBVIOUS
      <3> HIDE DEF U, S
      <3>3. p \in Seq(U) /\ q \in Seq(U)
        BY <2>3, <2>4, <3>2, SequenceWithin
      <3>4. r \in Seq(U) /\ Len(r) = Len(q) + 1 /\ \A j \in 1 .. Len(q) : r[j] = q[j]
        BY <3>1, <3>2, <3>3, AppendElements
      <3>5. Len(p) \in Nat /\ Len(q) \in Nat
        BY <3>3, PlacesOf
      <3>6. Len(p) <= Len(q) /\ \A j \in 1 .. Len(p) : p[j] = q[j]
        BY <2>4, <3>3, <3>5, PrefixElements
      <3>7. Len(p) <= Len(r) /\ \A j \in 1 .. Len(p) : p[j] = r[j]
        BY <3>4, <3>5, <3>6
      <3>8. QED
        BY <2>2, <2>3, <3>3, <3>4, <3>7, PrefixByPlaces DEF p, r
    <2>7. CASE r = q
      BY <2>2, <2>4, <2>7 DEF p, r
    <2>8. QED
      BY <2>5, <2>6, <2>7
  <1>4. \A l \in Nat : l \in T
    <2> HIDE DEF T
    <2>1. QED
      BY <1>2, <1>3, Induction
  <1>5. m \in T
    <2> HIDE DEF T
    <2>1. QED
      BY <1>4
  <1>6. QED
    BY <1>5

\* A catalog file that only grows at its end keeps every game it had, under the
\* filename it had: the list of the old file is a prefix of that of the new one.
THEOREM GrowingCatalogRenamesNone ==
    ASSUME NEW S, NEW old \in Seq(S), NEW new \in Seq(S), IsPrefix(old, new)
    PROVE  IsPrefix(Loaded(old, Len(old)), Loaded(new, Len(new)))
  <1> DEFINE n == Len(old)
             m == Len(new) - n
  <1>1. Len(old) <= Len(new) /\ \A k \in 1 .. Len(old) : old[k] = new[k]
    BY PrefixElements
  <1>2. DOMAIN old = 1 .. Len(old) /\ DOMAIN new = 1 .. Len(new)
    BY PlacesOf
  <1>3. n \in Nat /\ m \in Nat /\ n + m = Len(new) /\ 1 .. n \subseteq DOMAIN new
    <2>1. Len(old) \in Nat /\ Len(new) \in Nat
      BY PlacesOf
    <2>2. \A k \in 1 .. Len(old) : k \in 1 .. Len(new)
      BY <1>1, <2>1
    <2>3. QED
      BY <1>1, <1>2, <2>1, <2>2
  <1>4. Loaded(old, n) = Loaded(new, n)
    <2>1. 1 .. n \subseteq DOMAIN old /\ \A k \in 1 .. n : old[k] = new[k]
      BY <1>1, <1>2
    <2> HIDE DEF n, m
    <2>2. QED
      BY <1>3, <2>1, LoadedOfPrefix
  <1>5. IsPrefix(Loaded(new, n), Loaded(new, n + m))
    <2>1. 1 .. n + m \subseteq DOMAIN new
      BY <1>2, <1>3
    <2> HIDE DEF n, m
    <2>2. QED
      BY <1>3, <2>1, LoadedInOrder
  <1>6. QED
    BY <1>3, <1>4, <1>5
=============================================================================
