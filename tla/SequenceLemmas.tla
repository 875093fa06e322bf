--------------------------- MODULE SequenceLemmas ---------------------------
(***************************************************************************)
(* Facts about natural numbers and sequences, and about the operators of    *)
(* module Listing, that the proofs of several components use.               *)
(***************************************************************************)
EXTENDS Listing, WellFoundedInduction, TLAPS

-----------------------------------------------------------------------------
(* Induction, over a set instead of a predicate.                            *)

\* A nonempty set of natural numbers has a least element.
LEMMA LeastNatural ==
    ASSUME NEW T \in SUBSET Nat, T # {}
    PROVE  \E m \in T : \A n \in T : m <= n
  <1> DEFINE R == {p \in Nat \X Nat : p[1] < p[2]}
  <1>1. OpToRel(<, Nat) = R
    BY DEF OpToRel
  <1>2. IsWellFoundedOn(R, Nat)
    BY <1>1, NatLessThanWellFounded
  <1>3. \E x \in T : \A y \in T : ~ (<<y, x>> \in R)
    <2> HIDE DEF R
    <2>1. QED
      BY <1>2, WFMin
  <1>4. \A x, y \in Nat : y < x => <<y, x>> \in R
    OBVIOUS
  <1> HIDE DEF R
  <1>5. \A x, y \in Nat : ~(y < x) => x <= y
    OBVIOUS
  <1>6. QED
    BY <1>3, <1>4, <1>5

\* What holds of 0, and of n + 1 if of n, holds of every natural number.
LEMMA Induction ==
    ASSUME NEW S, 0 \in S, \A n \in Nat : n \in S => n + 1 \in S
    PROVE  \A n \in Nat : n \in S
  <1> SUFFICES ASSUME NEW k \in Nat, k \notin S PROVE FALSE
    OBVIOUS
  <1> DEFINE T == {n \in Nat : n \notin S}
  <1>1. PICK m \in T : \A n \in T : m <= n
    <2>1. T \in SUBSET Nat /\ T # {}
      OBVIOUS
    <2> HIDE DEF T
    <2>2. QED
      BY <2>1, LeastNatural
  <1>2. m \in Nat /\ m # 0 /\ m \notin S
    OBVIOUS
  <1>3. m - 1 \in Nat /\ m - 1 \in S
    BY <1>1, <1>2
  <1>4. QED
    BY <1>2, <1>3

\* A function on 0 .. N defined from its value at 0 by steps.
Steps(f, S, c, N, step) ==
    f \in [0 .. N -> S] /\ f[0] = c /\ \A j \in 1 .. N : f[j] = step[<<j, f[j - 1]>>]

\* There is one.
LEMMA StepsDefine ==
    ASSUME NEW S, NEW c \in S, NEW N \in Nat, NEW step \in [(1 .. N) \X S -> S]
    PROVE  \E f : Steps(f, S, c, N, step)
  <1> DEFINE upTo(n) == \E f \in [0 .. n -> S] :
                           f[0] = c /\ \A j \in 1 .. n : f[j] = step[<<j, f[j - 1]>>]
             T == {n \in Nat : n <= N => upTo(n)}
  <1>1. 0 \in T
    <2> DEFINE g == [j \in 0 .. 0 |-> c]
    <2>1. g \in [0 .. 0 -> S] /\ g[0] = c /\ \A j \in 1 .. 0 : FALSE
      OBVIOUS
    <2> HIDE DEF g
    <2>2. upTo(0)
      BY <2>1
    <2>3. QED
      BY <2>2
  <1>2. ASSUME NEW n \in Nat, n \in T
        PROVE  n + 1 \in T
    <2>1. SUFFICES ASSUME n + 1 <= N PROVE upTo(n + 1)
      OBVIOUS
    <2>2. PICK f \in [0 .. n -> S] :
             f[0] = c /\ \A j \in 1 .. n : f[j] = step[<<j, f[j - 1]>>]
      BY <1>2, <2>1
    <2>3. f[n] \in S /\ n + 1 \in 1 .. N
      BY <2>1
    <2>4. step[<<n + 1, f[n]>>] \in S
      BY <2>3
    <2> DEFINE g == [j \in 0 .. n + 1 |-> IF j = n + 1 THEN step[<<n + 1, f[n]>>] ELSE f[j]]
    <2>5. g \in [0 .. n + 1 -> S]
      BY <2>4
    <2>6. g[0] = c /\ g[n + 1] = step[<<n + 1, f[n]>>] /\ \A j \in 0 .. n : g[j] = f[j]
      BY <2>2
    <2> HIDE DEF g
    <2>7. \A j \in 1 .. n + 1 : g[j] = step[<<j, g[j - 1]>>]
      <3>1. SUFFICES ASSUME NEW j \in 1 .. n + 1 PROVE g[j] = step[<<j, g[j - 1]>>]
        OBVIOUS
      <3>2. CASE j = n + 1
        <4>1. j - 1 = n /\ n \in 0 .. n
          BY <3>2
        <4>2. g[n] = f[n]
          BY <2>6, <4>1
        <4>3. QED
          BY <2>6, <3>2, <4>1, <4>2
      <3>3. CASE j # n + 1
        <4>1. j \in 1 .. n /\ j \in 0 .. n /\ j - 1 \in 0 .. n
          BY <3>3
        <4>2. QED
          BY <2>2, <2>6, <4>1
      <3>4. QED
        BY <3>2, <3>3
    <2>8. QED
      BY <2>5, <2>6, <2>7
  <1>3. N \in T
    <2> HIDE DEF T
    <2>1. QED
      BY <1>1, <1>2, Induction
  <1>4. QED
    BY <1>3 DEF Steps
-----------------------------------------------------------------------------
(* Sequences.                                                               *)

\* Appending adds one element, at the end.
LEMMA AppendElements ==
    ASSUME NEW S, NEW s \in Seq(S), NEW x \in S
    PROVE  /\ Append(s, x) \in Seq(S) /\ Len(Append(s, x)) = Len(s) + 1
           /\ \A j \in 1 .. Len(s) : Append(s, x)[j] = s[j]
           /\ Append(s, x)[Len(s) + 1] = x
           /\ Range(Append(s, x)) = Range(s) \cup {x}
  <1>1. /\ Append(s, x) \in Seq(S) /\ Len(Append(s, x)) = Len(s) + 1
        /\ \A j \in 1 .. Len(s) : Append(s, x)[j] = s[j]
        /\ Append(s, x)[Len(s) + 1] = x
    OBVIOUS
  <1>2. Range(Append(s, x)) = Range(s) \cup {x}
    <2>1. /\ Range(s) = {s[j] : j \in 1 .. Len(s)}
          /\ Range(Append(s, x)) = {Append(s, x)[j] : j \in 1 .. Len(s) + 1}
      BY DEF Range
    <2>2. \A j \in 1 .. Len(s) + 1 : j \in 1 .. Len(s) \/ j = Len(s) + 1
      OBVIOUS
    <2>3. QED
      BY <1>1, <2>1, <2>2
  <1>3. QED
    BY <1>1, <1>2

\* Two sequences one after the other.
LEMMA ConcatElements ==
    ASSUME NEW S, NEW s \in Seq(S), NEW t \in Seq(S)
    PROVE  /\ s \o t \in Seq(S) /\ Len(s \o t) = Len(s) + Len(t)
           /\ \A j \in 1 .. Len(s) + Len(t) :
                 (s \o t)[j] = IF j <= Len(s) THEN s[j] ELSE t[j - Len(s)]
  OBVIOUS

\* Three sequences one after the other.
LEMMA ConcatAssociative ==
    ASSUME NEW S, NEW s \in Seq(S), NEW t \in Seq(S), NEW u \in Seq(S)
    PROVE  (s \o t) \o u = s \o (t \o u)
  <1> DEFINE a == s \o t
             b == t \o u
             m == Len(s)
             n == Len(t)
             k == Len(u)
  <1>1. m \in Nat /\ n \in Nat /\ k \in Nat
    OBVIOUS
  <1>2. /\ a \in Seq(S) /\ Len(a) = m + n
        /\ \A j \in 1 .. m + n : a[j] = IF j <= m THEN s[j] ELSE t[j - m]
    BY ConcatElements
  <1>3. /\ b \in Seq(S) /\ Len(b) = n + k
        /\ \A j \in 1 .. n + k : b[j] = IF j <= n THEN t[j] ELSE u[j - n]
    BY ConcatElements
  <1> HIDE DEF a, b
  <1>4. /\ a \o u \in Seq(S) /\ Len(a \o u) = Len(a) + k
        /\ \A j \in 1 .. Len(a) + k : (a \o u)[j] = IF j <= Len(a) THEN a[j] ELSE u[j - Len(a)]
    BY <1>2, ConcatElements
  <1>5. /\ s \o b \in Seq(S) /\ Len(s \o b) = m + Len(b)
        /\ \A j \in 1 .. m + Len(b) : (s \o b)[j] = IF j <= m THEN s[j] ELSE b[j - m]
    BY <1>3, ConcatElements
  <1> DEFINE left == a \o u
             right == s \o b
  <1> HIDE DEF m, n, k, left, right
  <1>6. Len(left) = m + n + k /\ Len(right) = m + n + k
        /\ left \in Seq(S) /\ right \in Seq(S)
    BY <1>1, <1>2, <1>3, <1>4, <1>5 DEF left, right
  <1>7. ASSUME NEW j \in 1 .. m + n + k
        PROVE  left[j] = right[j]
    <2>1. /\ left[j] = IF j <= m + n THEN a[j] ELSE u[j - (m + n)]
          /\ right[j] = IF j <= m THEN s[j] ELSE b[j - m]
      BY <1>1, <1>2, <1>3, <1>4, <1>5 DEF left, right
    <2>2. CASE j <= m
      <3>1. j \in 1 .. m + n /\ j <= m + n
        BY <1>1, <2>2
      <3>2. QED
        BY <1>2, <2>1, <2>2, <3>1
    <2>3. CASE j > m /\ j <= m + n
      <3>1. j \in 1 .. m + n /\ j - m \in 1 .. n + k /\ j - m <= n /\ ~(j <= m)
        BY <1>1, <2>3
      <3>2. QED
        BY <1>2, <1>3, <2>1, <2>3, <3>1
    <2>4. CASE j > m + n
      <3>1. /\ j - m \in 1 .. n + k /\ ~(j - m <= n) /\ ~(j <= m) /\ ~(j <= m + n)
            /\ (j - m) - n = j - (m + n)
        BY <1>1, <2>4
      <3>2. QED
        BY <1>3, <2>1, <3>1
    <2>5. QED
      BY <1>1, <2>2, <2>3, <2>4
  <1>8. left = right
    BY <1>1, <1>6, <1>7
  <1>9. QED
    BY <1>8 DEF left, right, a, b

\* A sequence cut in two.
LEMMA CutInTwo ==
    ASSUME NEW S, NEW s \in Seq(S), NEW n \in 0 .. Len(s)
    PROVE  /\ SubSeq(s, 1, n) \in Seq(S) /\ Len(SubSeq(s, 1, n)) = n
           /\ SubSeq(s, n + 1, Len(s)) \in Seq(S)
           /\ Len(SubSeq(s, n + 1, Len(s))) = Len(s) - n
           /\ SubSeq(s, 1, n) \o SubSeq(s, n + 1, Len(s)) = s
  <1> DEFINE a == SubSeq(s, 1, n)
             b == SubSeq(s, n + 1, Len(s))
             k == Len(s)
  <1>1. a \in Seq(S) /\ Len(a) = n /\ \A j \in 1 .. n : a[j] = s[j]
    OBVIOUS
  <1>2. b \in Seq(S) /\ Len(b) = k - n /\ \A j \in 1 .. k - n : b[j] = s[n + j]
    OBVIOUS
  <1>3. k \in Nat /\ n \in Nat /\ n <= k
    OBVIOUS
  <1> HIDE DEF a, b
  <1>4. /\ a \o b \in Seq(S) /\ Len(a \o b) = Len(a) + Len(b)
        /\ \A j \in 1 .. Len(a) + Len(b) :
              (a \o b)[j] = IF j <= Len(a) THEN a[j] ELSE b[j - Len(a)]
    BY <1>1, <1>2, ConcatElements
  <1> DEFINE c == a \o b
  <1>5. Len(c) = k /\ \A j \in 1 .. k : c[j] = IF j <= n THEN a[j] ELSE b[j - n]
    <2>1. Len(a) + Len(b) = k
      BY <1>1, <1>2, <1>3
    <2>2. QED
      BY <1>1, <1>4, <2>1
  <1> HIDE DEF c, k
  <1>6. ASSUME NEW j \in 1 .. k
        PROVE  c[j] = s[j]
    <2>1. CASE j <= n
      BY <1>1, <1>3, <1>5, <2>1
    <2>2. CASE ~(j <= n)
      <3>1. j - n \in 1 .. k - n /\ n + (j - n) = j
        BY <1>3, <2>2
      <3>2. QED
        BY <1>2, <1>5, <2>2, <3>1
    <2>3. QED
      BY <2>1, <2>2
  <1>7. c = s
    <2>1. c \in Seq(S) /\ Len(c) = Len(s) /\ \A j \in 1 .. Len(s) : c[j] = s[j]
      BY <1>4, <1>5, <1>6 DEF k, c
    <2>2. QED
      BY ONLY <2>1, s \in Seq(S)
  <1>8. QED
    BY <1>1, <1>2, <1>7 DEF a, b, c, k

\* Removing the i-th element leaves the others, in their order.
LEMMA RemoveElements ==
    ASSUME NEW S, NEW s \in Seq(S), NEW i \in 1 .. Len(s)
    PROVE  /\ RemoveAt(s, i) \in Seq(S) /\ Len(RemoveAt(s, i)) = Len(s) - 1
           /\ \A j \in 1 .. Len(s) - 1 :
                 RemoveAt(s, i)[j] = IF j < i THEN s[j] ELSE s[j + 1]
  <1> DEFINE before == SubSeq(s, 1, i - 1)
             after == SubSeq(s, i + 1, Len(s))
  <1>1. before \in Seq(S) /\ Len(before) = i - 1 /\ \A j \in 1 .. i - 1 : before[j] = s[j]
    OBVIOUS
  <1>2. /\ after \in Seq(S) /\ Len(after) = Len(s) - i
        /\ \A j \in 1 .. Len(s) - i : after[j] = s[i + j]
    OBVIOUS
  <1>3. RemoveAt(s, i) = before \o after
    BY DEF RemoveAt
  <1> HIDE DEF before, after
  <1>4. /\ before \o after \in Seq(S) /\ Len(before \o after) = Len(s) - 1
        /\ \A j \in 1 .. Len(s) - 1 :
              (before \o after)[j] = IF j < i THEN before[j] ELSE after[j - i + 1]
    <2>1. /\ before \o after \in Seq(S) /\ Len(before \o after) = Len(before) + Len(after)
          /\ \A j \in 1 .. Len(before) + Len(after) :
                (before \o after)[j] = IF j <= Len(before) THEN before[j]
                                                          ELSE after[j - Len(before)]
      BY <1>1, <1>2, ConcatElements
    <2>2. i \in Nat /\ Len(s) \in Nat /\ (i - 1) + (Len(s) - i) = Len(s) - 1
      OBVIOUS
    <2>3. \A j \in 1 .. Len(s) - 1 : (j <= i - 1 <=> j < i) /\ j - (i - 1) = j - i + 1
      BY <2>2
    <2>4. QED
      BY <1>1, <1>2, <2>1, <2>2, <2>3
  <1>5. \A j \in 1 .. Len(s) - 1 : ~(j < i) => after[j - i + 1] = s[j + 1]
    BY <1>2
  <1>6. ASSUME NEW j \in 1 .. Len(s) - 1
        PROVE  (before \o after)[j] = IF j < i THEN s[j] ELSE s[j + 1]
    <2>1. CASE j < i
      <3>1. j \in 1 .. i - 1
        BY <2>1
      <3>2. QED
        BY <1>1, <1>4, <2>1, <3>1
    <2>2. CASE ~(j < i)
      BY <1>4, <1>5, <2>2
    <2>3. QED
      BY <2>1, <2>2
  <1>7. QED
    BY <1>3, <1>4, <1>6

-----------------------------------------------------------------------------
(* The records of a page.                                                   *)

\* Records follow one another without gap or overlap, from 0 on.
LEMMA EndsSteps ==
    ASSUME NEW S, NEW size \in [S -> Nat], NEW entries \in Seq(S)
    PROVE  /\ Ends(entries, size) \in [0 .. Len(entries) -> Nat]
           /\ Ends(entries, size)[0] = 0
           /\ \A j \in 1 .. Len(entries) :
                 Ends(entries, size)[j] = Ends(entries, size)[j - 1] + size[entries[j]]
  <1> DEFINE N == Len(entries)
             Total(f) == f = [j \in 0 .. N |-> IF j = 0 THEN 0 ELSE f[j - 1] + size[entries[j]]]
             step == [p \in (1 .. N) \X Nat |-> p[2] + size[entries[p[1]]]]
  <1>1. N \in Nat /\ step \in [(1 .. N) \X Nat -> Nat]
    OBVIOUS
  <1>2. \E f : Steps(f, Nat, 0, N, step)
    <2> HIDE DEF N, step
    <2>1. 0 \in Nat
      OBVIOUS
    <2>2. QED
      BY <1>1, <2>1, StepsDefine
  <1>3. PICK f \in [0 .. N -> Nat] :
           f[0] = 0 /\ \A j \in 1 .. N : f[j] = f[j - 1] + size[entries[j]]
    <2>1. \A j \in 1 .. N : \A x \in Nat : step[<<j, x>>] = x + size[entries[j]]
      OBVIOUS
    <2>2. \A j \in 1 .. N : j - 1 \in 0 .. N
      OBVIOUS
    <2> HIDE DEF N, step
    <2>3. QED
      BY <1>2, <2>1, <2>2 DEF Steps
  <1>4. Total(f)
    <2>1. f = [j \in 0 .. N |-> f[j]]
      BY <1>3
    <2>2. \A j \in 0 .. N : f[j] = IF j = 0 THEN 0 ELSE f[j - 1] + size[entries[j]]
      BY <1>3
    <2>3. QED
      BY <2>1, <2>2
  <1>5. Total(Ends(entries, size))
    <2>1. Ends(entries, size) = CHOOSE g : Total(g)
      BY DEF Ends
    <2>2. QED
      BY <1>4, <2>1
  <1> DEFINE e == Ends(entries, size)
  <1>6. DOMAIN e = 0 .. N /\ e[0] = 0 /\ \A j \in 1 .. N : e[j] = e[j - 1] + size[entries[j]]
    <2> HIDE DEF e
    <2>1. e = [j \in 0 .. N |-> IF j = 0 THEN 0 ELSE e[j - 1] + size[entries[j]]]
      BY <1>5 DEF e
    <2>2. DOMAIN e = 0 .. N
      BY <2>1
    <2>3. \A j \in 0 .. N : e[j] = IF j = 0 THEN 0 ELSE e[j - 1] + size[entries[j]]
      <3> HIDE DEF N
      <3>1. QED
        BY <2>1
    <2>4. 0 \in 0 .. N /\ \A j \in 1 .. N : j \in 0 .. N /\ j # 0
      BY <1>1
    <2>5. QED
      BY <2>2, <2>3, <2>4
  <1>7. \A j \in 0 .. N : e[j] \in Nat
    <2> DEFINE T == {n \in Nat : n <= N => e[n] \in Nat}
    <2>1. 0 \in T
      BY <1>6
    <2>2. ASSUME NEW n \in Nat, n \in T
          PROVE  n + 1 \in T
      <3>1. SUFFICES ASSUME n + 1 <= N PROVE e[n + 1] \in Nat
        OBVIOUS
      <3>2. n + 1 \in 1 .. N /\ size[entries[n + 1]] \in Nat
        BY <3>1
      <3>3. e[n] \in Nat /\ e[n + 1] = e[n] + size[entries[n + 1]]
        <4> HIDE DEF e
        <4>1. QED
          BY <1>6, <2>2, <3>1, <3>2
      <3>4. QED
        BY <3>2, <3>3
    <2>3. \A n \in Nat : n \in T
      <3> HIDE DEF T
      <3>1. QED
        BY <2>1, <2>2, Induction
    <2>4. QED
      BY <2>3
  <1>8. e \in [0 .. N -> Nat]
    <2> HIDE DEF e
    <2>1. e = [j \in 0 .. N |-> e[j]]
      BY <1>5 DEF e
    <2>2. QED
      BY <1>7, <2>1
  <1>9. QED
    BY <1>6, <1>8
\* The first records of a page end where they do on the whole page.
LEMMA EndsOfPrefix ==
    ASSUME NEW S, NEW size \in [S -> Nat], NEW entries \in Seq(S), NEW n \in 0 .. Len(entries)
    PROVE  /\ SubSeq(entries, 1, n) \in Seq(S) /\ Len(SubSeq(entries, 1, n)) = n
           /\ \A j \in 0 .. n : Ends(SubSeq(entries, 1, n), size)[j] = Ends(entries, size)[j]
  <1> DEFINE p == SubSeq(entries, 1, n)
             e == Ends(entries, size)
             d == Ends(p, size)
             T == {j \in Nat : j <= n => d[j] = e[j]}
             N == Len(entries)
  <1>1. p \in Seq(S) /\ Len(p) = n /\ \A j \in 1 .. n : p[j] = entries[j]
    OBVIOUS
  <1>2. e[0] = 0 /\ \A j \in 1 .. N : e[j] = e[j - 1] + size[entries[j]]
    BY EndsSteps
  <1>3. d[0] = 0 /\ \A j \in 1 .. n : d[j] = d[j - 1] + size[p[j]]
    <2>1. \A q \in Seq(S) :
             /\ Ends(q, size)[0] = 0
             /\ \A j \in 1 .. Len(q) : Ends(q, size)[j] = Ends(q, size)[j - 1] + size[q[j]]
      <3>1. TAKE q \in Seq(S)
      <3> HIDE DEF p, e, d, N, T
      <3>2. Ends(q, size)[0] = 0
        BY EndsSteps, SMTT(20)
      <3>3. ASSUME NEW j \in 1 .. Len(q)
            PROVE  Ends(q, size)[j] = Ends(q, size)[j - 1] + size[q[j]]
        BY EndsSteps, SMTT(20)
      <3>4. QED
        BY <3>2, <3>3
    <2> HIDE DEF p
    <2>2. QED
      BY <1>1, <2>1
  <1>4. n \in Nat /\ n <= N /\ N \in Nat
    OBVIOUS
  <1> HIDE DEF p, e, d, N
  <1>5. 0 \in T
    BY <1>2, <1>3
  <1>6. ASSUME NEW j \in Nat, j \in T
        PROVE  j + 1 \in T
    <2>1. SUFFICES ASSUME j + 1 <= n PROVE d[j + 1] = e[j + 1]
      OBVIOUS
    <2>2. j + 1 \in 1 .. n /\ j + 1 \in 1 .. N /\ d[j] = e[j] /\ (j + 1) - 1 = j
      BY <1>4, <1>6, <2>1
    <2>3. d[j + 1] = d[j] + size[p[j + 1]] /\ e[j + 1] = e[j] + size[entries[j + 1]]
      BY <1>2, <1>3, <2>2
    <2>4. QED
      BY <1>1, <2>2, <2>3
  <1>7. \A j \in Nat : j \in T
    <2> HIDE DEF T
    <2>1. QED
      BY <1>5, <1>6, Induction
  <1>8. \A j \in 0 .. n : d[j] = e[j]
    BY <1>4, <1>7
  <1>9. QED
    BY <1>1, <1>8 DEF p, d, e

-----------------------------------------------------------------------------
(* The games that match.                                                    *)

\* virtual_entries lists the games that match, all of them and no other.
LEMMA MatchingProperties ==
    ASSUME NEW S, NEW games \in Seq(S), NEW glob
    PROVE  /\ Matching(games, glob) \in Seq(S)
           /\ Len(Matching(games, glob)) <= Len(games)
           /\ Range(Matching(games, glob)) = Range(games) \cap glob
  <1> DEFINE N == Len(games)
             Filters(f) == f = [j \in 0 .. N |->
                 IF j = 0 THEN <<>>
                 ELSE IF games[j] \in glob THEN Append(f[j - 1], games[j]) ELSE f[j - 1]]
             step == [p \in (1 .. N) \X Seq(S) |->
                 IF games[p[1]] \in glob THEN Append(p[2], games[p[1]]) ELSE p[2]]
  <1>1. N \in Nat /\ step \in [(1 .. N) \X Seq(S) -> Seq(S)] /\ <<>> \in Seq(S)
    OBVIOUS
  <1>2. \E f : Steps(f, Seq(S), <<>>, N, step)
    <2> HIDE DEF N, step
    <2>1. QED
      BY <1>1, StepsDefine
  <1>3. PICK f \in [0 .. N -> Seq(S)] :
          /\ f[0] = <<>>
          /\ \A j \in 1 .. N :
                f[j] = IF games[j] \in glob THEN Append(f[j - 1], games[j]) ELSE f[j - 1]
    <2>1. \A j \in 1 .. N : \A x \in Seq(S) :
             step[<<j, x>>] = IF games[j] \in glob THEN Append(x, games[j]) ELSE x
      OBVIOUS
    <2>2. \A j \in 1 .. N : j - 1 \in 0 .. N
      OBVIOUS
    <2> HIDE DEF N, step
    <2>3. QED
      BY <1>2, <2>1, <2>2, ZenonT(40) DEF Steps
  <1>4. Filters(f)
    <2>1. f = [j \in 0 .. N |-> f[j]]
      BY <1>3
    <2>2. \A j \in 0 .. N : f[j] = IF j = 0 THEN <<>>
            ELSE IF games[j] \in glob THEN Append(f[j - 1], games[j]) ELSE f[j - 1]
      <3>1. \A j \in 0 .. N : j = 0 \/ j \in 1 .. N
        BY <1>1
      <3> HIDE DEF N
      <3>2. QED
        BY <1>3, <3>1
    <2>3. QED
      BY <2>1, <2>2
  <1> DEFINE m == CHOOSE g : Filters(g)
  <1>5. Filters(m) /\ Matching(games, glob) = m[N]
    BY <1>4 DEF Matching
  <1> HIDE DEF m
  <1>6. /\ m[0] = <<>>
        /\ \A j \in 1 .. N :
              m[j] = IF games[j] \in glob THEN Append(m[j - 1], games[j]) ELSE m[j - 1]
    <2>1. \A j \in 0 .. N : m[j] = IF j = 0 THEN <<>>
            ELSE IF games[j] \in glob THEN Append(m[j - 1], games[j]) ELSE m[j - 1]
      <3> HIDE DEF N
      <3>1. QED
        BY <1>5
    <2>2. 0 \in 0 .. N /\ \A j \in 1 .. N : j \in 0 .. N /\ j # 0
      BY <1>1
    <2>3. QED
      BY <2>1, <2>2
  <1> HIDE DEF Filters, step
  <1>7. \A j \in 1 .. N : games[j] \in S
    OBVIOUS
  <1>8. Range(games) = {games[j] : j \in 1 .. N}
    BY DEF Range
  <1> HIDE DEF N
  <1> DEFINE Good(n) == /\ m[n] \in Seq(S) /\ Len(m[n]) <= n
                        /\ Range(m[n]) = {games[j] : j \in 1 .. n} \cap glob
             T == {n \in Nat : n <= N => Good(n)}
  <1>9. 0 \in T
    <2>1. Range(<<>>) = {} /\ Len(<<>>) = 0 /\ <<>> \in Seq(S)
      BY DEF Range
    <2>2. {games[j] : j \in 1 .. 0} = {}
      OBVIOUS
    <2> HIDE DEF m
    <2>3. Good(0)
      BY <1>6, <2>1, <2>2
    <2>4. QED
      BY <2>3
  <1>10. ASSUME NEW n \in Nat, n \in T
         PROVE  n + 1 \in T
    <2>1. SUFFICES ASSUME n + 1 <= N PROVE Good(n + 1)
      OBVIOUS
    <2>2. n + 1 \in 1 .. N /\ (n + 1) - 1 = n /\ Good(n) /\ games[n + 1] \in S
      BY <1>1, <1>7, <1>10, <2>1
    <2>3. {games[j] : j \in 1 .. n + 1} = {games[j] : j \in 1 .. n} \cup {games[n + 1]}
      <3>1. \A j \in 1 .. n + 1 : j \in 1 .. n \/ j = n + 1
        OBVIOUS
      <3>2. (\A j \in 1 .. n : j \in 1 .. n + 1) /\ n + 1 \in 1 .. n + 1
        OBVIOUS
      <3>3. QED
        BY <3>1, <3>2
    <2>4. CASE games[n + 1] \in glob
      <3>1. m[n + 1] = Append(m[n], games[n + 1])
        BY <1>6, <2>2, <2>4
      <3>2. /\ m[n + 1] \in Seq(S) /\ Len(m[n + 1]) = Len(m[n]) + 1
            /\ Range(m[n + 1]) = Range(m[n]) \cup {games[n + 1]}
        <4> HIDE DEF m
        <4>1. QED
          BY <2>2, <3>1, AppendElements
      <3>3. Len(m[n]) \in Nat /\ Len(m[n + 1]) <= n + 1
        BY <2>2, <3>2
      <3>4. Range(m[n + 1]) = {games[j] : j \in 1 .. n + 1} \cap glob
        BY <2>2, <2>3, <2>4, <3>2
      <3>5. QED
        BY <3>2, <3>3, <3>4
    <2>5. CASE games[n + 1] \notin glob
      <3>1. m[n + 1] = m[n]
        BY <1>6, <2>2, <2>5
      <3>2. Len(m[n]) \in Nat /\ Len(m[n + 1]) <= n + 1
        BY <2>2, <3>1
      <3>3. Range(m[n + 1]) = {games[j] : j \in 1 .. n + 1} \cap glob
        BY <2>2, <2>3, <2>5, <3>1
      <3>4. QED
        BY <2>2, <3>1, <3>2, <3>3
    <2>6. QED
      BY <2>4, <2>5
  <1>11. \A n \in Nat : n \in T
    <2> HIDE DEF T
    <2>1. QED
      BY <1>9, <1>10, Induction
  <1>12. Good(N)
    <2> HIDE DEF Good
    <2>1. QED
      BY <1>1, <1>11
  <1>13. QED
    BY <1>5, <1>8, <1>12 DEF N
=============================================================================
