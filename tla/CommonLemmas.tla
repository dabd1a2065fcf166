------------------------------- MODULE CommonLemmas -----------------------------
(* Facts several proofs need: what the community operators that insert into and
   remove from a sequence return, element by element, which the tables of the
   kernel heap and of the scheduler are written with; counting; the parts that a
   sequence is split into; division, which finds the page of an address and the
   byte of a number; and functions that are defined by recursion over the numbers
   up to a bound. *)
EXTENDS Splitting, SequencesExt, SequenceTheorems, FiniteSetTheorems, FunctionTheorems,
        WellFoundedInduction, TLAPS

\* InsertAt puts one element in and shifts those behind it up.
LEMMA InsertAtProperties ==
    ASSUME NEW S, NEW s \in Seq(S), NEW i \in 1 .. Len(s) + 1, NEW x \in S
    PROVE  /\ InsertAt(s, i, x) \in Seq(S)
           /\ Len(InsertAt(s, i, x)) = Len(s) + 1
           /\ \A k \in 1 .. Len(s) + 1 :
                 InsertAt(s, i, x)[k] =
                    IF k < i THEN s[k] ELSE IF k = i THEN x ELSE s[k - 1]
<1>   DEFINE l == SubSeq(s, 1, i - 1)
             r == SubSeq(s, i, Len(s))
<1>0. Len(s) \in Nat /\ \A k \in 1 .. Len(s) : s[k] \in S
      BY LenProperties, ElementOfSeq
<1>1. /\ l \in Seq(S) /\ Len(l) = i - 1
      /\ \A k \in 1 .. i - 1 : l[k] = s[k]
  <2>1. \A k \in 1 .. i - 1 : s[k] \in S
        BY <1>0
  <2>2. /\ l \in Seq(S)
        /\ Len(l) = IF 1 <= i - 1 THEN (i - 1) - 1 + 1 ELSE 0
        /\ \A k \in 1 .. (i - 1) - 1 + 1 : l[k] = s[1 + k - 1]
        BY <2>1, <1>0, SubSeqProperties
  <2>   QED BY <2>2, <1>0
<1>2. /\ r \in Seq(S) /\ Len(r) = Len(s) - i + 1
      /\ \A k \in 1 .. Len(s) - i + 1 : r[k] = s[i + k - 1]
  <2>1. \A k \in i .. Len(s) : s[k] \in S
        BY <1>0
  <2>2. /\ r \in Seq(S)
        /\ Len(r) = IF i <= Len(s) THEN Len(s) - i + 1 ELSE 0
        /\ \A k \in 1 .. Len(s) - i + 1 : r[k] = s[i + k - 1]
        BY <2>1, <1>0, SubSeqProperties
  <2>   QED BY <2>2, <1>0
<1>3. <<x>> \in Seq(S) /\ Len(<<x>>) = 1 /\ <<x>>[1] = x
      OBVIOUS
<1>   DEFINE lx == l \o <<x>>
<1>4. /\ lx \in Seq(S) /\ Len(lx) = i
      /\ \A k \in 1 .. i : lx[k] = IF k <= i - 1 THEN l[k] ELSE <<x>>[k - (i - 1)]
  <2>   HIDE DEF l
  <2>1. /\ lx \in Seq(S) /\ Len(lx) = Len(l) + Len(<<x>>)
        /\ \A k \in 1 .. Len(l) + Len(<<x>>) :
              lx[k] = IF k <= Len(l) THEN l[k] ELSE <<x>>[k - Len(l)]
        BY <1>1, <1>3, ConcatProperties
  <2>   QED BY <2>1, <1>0, <1>1, <1>3
<1>5. InsertAt(s, i, x) = lx \o r
      BY DEF InsertAt
<1>6. /\ lx \o r \in Seq(S) /\ Len(lx \o r) = Len(s) + 1
      /\ \A k \in 1 .. Len(s) + 1 : (lx \o r)[k] = IF k <= i THEN lx[k] ELSE r[k - i]
  <2>   HIDE DEF lx, r
  <2>1. /\ lx \o r \in Seq(S) /\ Len(lx \o r) = Len(lx) + Len(r)
        /\ \A k \in 1 .. Len(lx) + Len(r) :
              (lx \o r)[k] = IF k <= Len(lx) THEN lx[k] ELSE r[k - Len(lx)]
        BY <1>4, <1>2, ConcatProperties
  <2>   QED BY <2>1, <1>0, <1>4, <1>2
<1>7. ASSUME NEW k \in 1 .. Len(s) + 1
      PROVE  (lx \o r)[k] = IF k < i THEN s[k] ELSE IF k = i THEN x ELSE s[k - 1]
  <2>   HIDE DEF lx, l, r
  <2>1. CASE k < i
        BY <2>1, <1>0, <1>1, <1>4, <1>6
  <2>2. CASE k = i
        BY <2>2, <1>0, <1>3, <1>4, <1>6
  <2>3. CASE k > i
    <3>1. k - i \in 1 .. Len(s) - i + 1 /\ i + (k - i) - 1 = k - 1
          BY <2>3, <1>0
    <3>2. r[k - i] = s[i + (k - i) - 1]
          BY <3>1, <1>2
    <3>   QED BY <2>3, <3>1, <3>2, <1>6, <1>0
  <2>4. k < i \/ k = i \/ k > i
        BY <1>0
  <2>   QED BY <2>1, <2>2, <2>3, <2>4
<1>   QED BY <1>5, <1>6, <1>7

\* RemoveAt takes one element out and shifts those behind it down.
LEMMA RemoveAtProperties ==
    ASSUME NEW S, NEW s \in Seq(S), NEW i \in 1 .. Len(s)
    PROVE  /\ RemoveAt(s, i) \in Seq(S)
           /\ Len(RemoveAt(s, i)) = Len(s) - 1
           /\ \A k \in 1 .. Len(s) - 1 :
                 RemoveAt(s, i)[k] = IF k < i THEN s[k] ELSE s[k + 1]
<1>   DEFINE l == SubSeq(s, 1, i - 1)
             r == SubSeq(s, i + 1, Len(s))
<1>0. Len(s) \in Nat /\ \A k \in 1 .. Len(s) : s[k] \in S
      BY LenProperties, ElementOfSeq
<1>1. /\ l \in Seq(S) /\ Len(l) = i - 1
      /\ \A k \in 1 .. i - 1 : l[k] = s[k]
  <2>1. \A k \in 1 .. i - 1 : s[k] \in S
        BY <1>0
  <2>2. /\ l \in Seq(S)
        /\ Len(l) = IF 1 <= i - 1 THEN (i - 1) - 1 + 1 ELSE 0
        /\ \A k \in 1 .. (i - 1) - 1 + 1 : l[k] = s[1 + k - 1]
        BY <2>1, <1>0, SubSeqProperties
  <2>   QED BY <2>2, <1>0
<1>2. /\ r \in Seq(S) /\ Len(r) = Len(s) - i
      /\ \A k \in 1 .. Len(s) - i : r[k] = s[i + k]
  <2>1. \A k \in i + 1 .. Len(s) : s[k] \in S
        BY <1>0
  <2>2. /\ r \in Seq(S)
        /\ Len(r) = IF i + 1 <= Len(s) THEN Len(s) - (i + 1) + 1 ELSE 0
        /\ \A k \in 1 .. Len(s) - (i + 1) + 1 : r[k] = s[(i + 1) + k - 1]
        BY <2>1, <1>0, SubSeqProperties
  <2>   QED BY <2>2, <1>0
<1>3. RemoveAt(s, i) = l \o r
      BY DEF RemoveAt
<1>4. /\ l \o r \in Seq(S) /\ Len(l \o r) = Len(s) - 1
      /\ \A k \in 1 .. Len(s) - 1 : (l \o r)[k] = IF k <= i - 1 THEN l[k] ELSE r[k - (i - 1)]
  <2>   HIDE DEF l, r
  <2>1. /\ l \o r \in Seq(S) /\ Len(l \o r) = Len(l) + Len(r)
        /\ \A k \in 1 .. Len(l) + Len(r) :
              (l \o r)[k] = IF k <= Len(l) THEN l[k] ELSE r[k - Len(l)]
        BY <1>1, <1>2, ConcatProperties
  <2>   QED BY <2>1, <1>0, <1>1, <1>2
<1>5. ASSUME NEW k \in 1 .. Len(s) - 1
      PROVE  (l \o r)[k] = IF k < i THEN s[k] ELSE s[k + 1]
  <2>   HIDE DEF l, r
  <2>1. CASE k < i
        BY <2>1, <1>0, <1>1, <1>4
  <2>2. CASE k >= i
    <3>1. k - (i - 1) \in 1 .. Len(s) - i /\ i + (k - (i - 1)) = k + 1
          BY <2>2, <1>0
    <3>2. r[k - (i - 1)] = s[i + (k - (i - 1))]
          BY <3>1, <1>2
    <3>   QED BY <2>2, <3>1, <3>2, <1>4, <1>0
  <2>3. k < i \/ k >= i
        BY <1>0
  <2>   QED BY <2>1, <2>2, <2>3
<1>   QED BY <1>3, <1>4, <1>5

\* A set of numbers that is not empty has a least one: where a scan from the front
\* stops.
LEMMA LeastNat ==
    ASSUME NEW T \in SUBSET Nat, T # {}
    PROVE  \E m \in T : \A k \in T : m <= k
<1>1. IsWellFoundedOn(OpToRel(<, Nat), Nat)
      BY NatLessThanWellFounded
<1>   DEFINE R == OpToRel(<, Nat)
<1>2. \A i, j \in Nat : <<i, j>> \in R <=> i < j
      BY DEF OpToRel
<1>3. IsWellFoundedOn(R, Nat)
      BY <1>1
<1>   HIDE DEF R
<1>4. PICK m \in T : \A k \in T : ~ (<<k, m>> \in R)
      BY <1>3, WFMin
<1>5. \A k \in T : ~(k < m)
      BY <1>2, <1>4, Zenon
<1>6. \A k \in T : m <= k
      BY <1>5
<1>   QED BY <1>6

\* What holds of 0 and of each number after one it holds of, up to n.
LEMMA Upward ==
    ASSUME NEW n \in Nat, NEW P, 0 \in P, \A k \in 1 .. n : k - 1 \in P => k \in P
    PROVE  \A k \in 0 .. n : k \in P
<1>   DEFINE T == {k \in 0 .. n : k \notin P}
<1>   SUFFICES ASSUME T # {} PROVE FALSE
      OBVIOUS
<1>1. PICK m \in T : \A k \in T : m <= k
  <2>1. T \in SUBSET Nat
        OBVIOUS
  <2>   HIDE DEF T
  <2>   QED BY <2>1, LeastNat
<1>2. m \in 1 .. n /\ m \notin P /\ m - 1 \in 0 .. n
      BY <1>1
<1>3. m - 1 \in P
  <2>1. ~ m <= m - 1
        BY <1>2
  <2>   QED BY <1>1, <1>2, <2>1
<1>   QED BY <1>2, <1>3

-------------------------------------------------------------------------------
(* Splitting *)

\* Every number of a finite set but the first comes after another.
LEMMA NthIs ==
    ASSUME NEW S \in SUBSET Nat, IsFiniteSet(S), NEW n \in 1 .. Cardinality(S)
    PROVE  Nth(S, n) \in S /\ Cardinality({j \in S : j < Nth(S, n)}) = n - 1
<1>   DEFINE Below(i) == {j \in S : j < i}
             P == {k \in Nat : k = 0 \/ \E i \in S : Cardinality(Below(i)) = k - 1}
             c == Cardinality(S)
<1>1. c \in Nat
      BY FS_CardinalityType
<1>2. \A i \in S : IsFiniteSet(Below(i))
      BY FS_Subset
<1>3. ASSUME NEW k \in 1 .. c, k - 1 \in P PROVE k \in P
  <2>1. CASE k = 1
    <3>1. S # {}
          BY <1>1, <2>1, FS_EmptySet
    <3>2. PICK i \in S : \A j \in S : i <= j
          BY <3>1, LeastNat
    <3>3. \A j \in S : ~ j < i
          BY <3>2
    <3>4. Cardinality(Below(i)) = k - 1
      <4>1. Below(i) = {}
            BY <3>3
      <4>   QED BY <2>1, <4>1, FS_EmptySet
    <3>5. k \in Nat
          OBVIOUS
    <3>   QED BY <3>4, <3>5, Zenon
  <2>2. CASE k # 1
    <3>1. PICK i \in S : Cardinality(Below(i)) = k - 1 - 1
          BY <1>3, <2>2
    <3>   DEFINE above == {j \in S : i < j}
    <3>2. above # {}
      <4>   SUFFICES ASSUME above = {} PROVE FALSE
            OBVIOUS
      <4>0. \A j \in S : j < i \/ j = i
            OBVIOUS
      <4>1. S = Below(i) \cup {i}
            BY <4>0
      <4>2. i \notin Below(i)
            OBVIOUS
      <4>3. c = (k - 1 - 1) + 1
            BY <1>2, <3>1, <4>1, <4>2, FS_AddElement
      <4>   QED BY <1>1, <4>3
    <3>3. PICK m \in above : \A j \in above : m <= j
      <4>1. above \in SUBSET Nat
            OBVIOUS
      <4>   HIDE DEF above
      <4>   QED BY <3>2, <4>1, LeastNat
    <3>4. Below(m) = Below(i) \cup {i}
      <4>1. \A j \in S : j < m <=> (j < i \/ j = i)
            BY <3>3
      <4>   QED BY <4>1
    <3>5. i \notin Below(i)
          OBVIOUS
    <3>6. Cardinality(Below(m)) = (k - 1 - 1) + 1
          BY <1>2, <3>1, <3>4, <3>5, FS_AddElement
    <3>7. m \in S /\ Cardinality(Below(m)) = k - 1 /\ k \in Nat
          BY <3>6
    <3>   QED BY <3>7, Zenon
  <2>   QED BY <2>1, <2>2
<1>4. 0 \in P
      OBVIOUS
<1>5. n \in P
  <2>1. \A k \in 0 .. c : k \in P
    <3>   HIDE DEF P, c
    <3>   QED BY <1>1, <1>3, <1>4, Upward
  <2>   QED BY <1>1, <2>1
<1>6. \E i \in S : Cardinality({j \in S : j < i}) = n - 1
      BY <1>5
<1>   QED BY <1>6 DEF Nth

\* And there is one for each count.
LEMMA NthOnly ==
    ASSUME NEW S \in SUBSET Nat, IsFiniteSet(S), NEW i \in S, NEW k \in S,
           Cardinality({j \in S : j < i}) = Cardinality({j \in S : j < k})
    PROVE  i = k
<1>1. ASSUME NEW a \in S, NEW b \in S, a < b
      PROVE  Cardinality({j \in S : j < a}) < Cardinality({j \in S : j < b})
  <2>   DEFINE low == {j \in S : j < a}
               all == {j \in S : j < b}
  <2>1. IsFiniteSet(low) /\ IsFiniteSet(all)
        BY FS_Subset
  <2>2. a \notin low /\ low \cup {a} \subseteq all
    <3>1. \A j \in S : j < a => j < b
          BY <1>1
    <3>2. ~ a < a
          OBVIOUS
    <3>3. a \notin low
          BY <3>2
    <3>4. low \subseteq all /\ a \in all
          BY <1>1, <3>1
    <3>   HIDE DEF low, all
    <3>   QED BY <3>3, <3>4
  <2>3. Cardinality(low \cup {a}) = Cardinality(low) + 1
        BY <2>1, <2>2, FS_AddElement
  <2>4. Cardinality(low \cup {a}) <= Cardinality(all)
    <3>   HIDE DEF low, all
    <3>   QED BY <2>1, <2>2, FS_Subset
  <2>5. Cardinality(low) \in Nat /\ Cardinality(all) \in Nat
        BY <2>1, FS_CardinalityType
  <2>   QED BY <2>3, <2>4, <2>5
<1>2. \A a \in S : Cardinality({j \in S : j < a}) \in Nat
  <2>1. \A a \in S : IsFiniteSet({j \in S : j < a})
        BY FS_Subset
  <2>   QED BY <2>1, FS_CardinalityType
<1>   QED BY <1>1, <1>2

\* The starts of the runs of a sequence are some of its places.
LEMMA RunStartsIs ==
    ASSUME NEW X, NEW s \in Seq(X), NEW sep
    PROVE  /\ RunStarts(s, sep) \subseteq 1 .. Len(s)
           /\ RunStarts(s, sep) \in SUBSET Nat /\ IsFiniteSet(RunStarts(s, sep))
           /\ Cardinality(RunStarts(s, sep)) \in Nat
<1>1. RunStarts(s, sep) \subseteq 1 .. Len(s)
      BY DEF RunStarts
<1>2. IsFiniteSet(1 .. Len(s))
      BY FS_Interval
<1>   QED BY <1>1, <1>2, FS_Subset, FS_CardinalityType

\* Each run ends, and in one place.
LEMMA RunEndIs ==
    ASSUME NEW X, NEW s \in Seq(X), NEW sep, NEW i \in RunStarts(s, sep)
    PROVE  /\ RunEnd(s, sep, i) \in i .. Len(s)
           /\ \A k \in i .. RunEnd(s, sep, i) : s[k] # sep
           /\ RunEnd(s, sep, i) = Len(s) \/ s[RunEnd(s, sep, i) + 1] = sep
<1>   DEFINE T == {j \in i .. Len(s) : j = Len(s) \/ s[j + 1] = sep}
<1>1. i \in 1 .. Len(s) /\ s[i] # sep
      BY DEF RunStarts
<1>2. T \in SUBSET Nat /\ Len(s) \in T
      BY <1>1
<1>3. PICK m \in T : \A j \in T : m <= j
  <2>   HIDE DEF T
  <2>   QED BY <1>2, LeastNat
<1>4. ASSUME NEW k \in i .. m PROVE s[k] # sep
  <2>1. CASE k = i
        BY <1>1, <2>1
  <2>2. CASE k # i
    <3>1. k - 1 \in i .. Len(s) /\ ~ m <= k - 1 /\ (k - 1) + 1 = k
          BY <1>1, <1>3, <2>2
    <3>2. k - 1 \notin T
          BY <1>3, <3>1
    <3>   QED BY <3>1, <3>2
  <2>   QED BY <2>1, <2>2
<1>5. \E j \in i .. Len(s) : /\ \A k \in i .. j : s[k] # sep
                             /\ j = Len(s) \/ s[j + 1] = sep
      BY <1>3, <1>4
<1>   QED BY <1>5 DEF RunEnd

\* A part of a sequence that is a run by these signs is the run.
LEMMA RunEndOnly ==
    ASSUME NEW X, NEW s \in Seq(X), NEW sep, NEW i \in RunStarts(s, sep),
           NEW j \in i .. Len(s), \A k \in i .. j : s[k] # sep,
           j = Len(s) \/ s[j + 1] = sep
    PROVE  j = RunEnd(s, sep, i)
<1>   DEFINE e == RunEnd(s, sep, i)
<1>1. /\ e \in i .. Len(s) /\ \A k \in i .. e : s[k] # sep
      /\ e = Len(s) \/ s[e + 1] = sep
      BY RunEndIs
<1>2. i \in 1 .. Len(s)
      BY RunStartsIs
<1>   HIDE DEF e
<1>3. ~ j < e
  <2>   SUFFICES ASSUME j < e PROVE FALSE
        OBVIOUS
  <2>1. j + 1 \in i .. e /\ j # Len(s)
        BY <1>1, <1>2
  <2>   QED BY <1>1, <2>1
<1>4. ~ e < j
  <2>   SUFFICES ASSUME e < j PROVE FALSE
        OBVIOUS
  <2>1. e + 1 \in i .. j /\ e # Len(s)
        BY <1>1, <1>2
  <2>   QED BY <1>1, <2>1
<1>   QED BY <1>1, <1>2, <1>3, <1>4 DEF e

-------------------------------------------------------------------------------
(* Division *)

\* Quotient and remainder.
LEMMA Division ==
    ASSUME NEW P \in Nat \ {0}, NEW a \in Nat
    PROVE  /\ a \div P \in Nat /\ a % P \in 0 .. P - 1
           /\ a = P * (a \div P) + (a % P)
OBVIOUS

\* Multiples are ordered as their factors.
LEMMA Multiples ==
    ASSUME NEW P \in Nat \ {0}, NEW q \in Nat, NEW c \in Nat, c <= q
    PROVE  P * c <= P * q
OBVIOUS

\* Products of natural numbers.
LEMMA Products ==
    ASSUME NEW a \in Nat, NEW b \in Nat
    PROVE  a * b \in Nat /\ (a > 0 /\ b > 0 => a * b > 0)
OBVIOUS

\* A number between the multiples q and q + 1 of P is on page q.
LEMMA Quotient ==
    ASSUME NEW P \in Nat \ {0}, NEW b \in Nat, NEW q \in Nat, P * q <= b, b < P * q + P
    PROVE  b \div P = q
<1>1. /\ b \div P \in Nat /\ b % P \in 0 .. P - 1 /\ b = P * (b \div P) + (b % P)
      BY Division
<1>   DEFINE r == b \div P
<1>   HIDE DEF r
<1>2. r \in Nat /\ P * r <= b /\ b < P * r + P /\ P * (r + 1) = P * r + P
      /\ P * (q + 1) = P * q + P
      BY <1>1 DEF r
<1>3. ~ r < q
      BY <1>2, Multiples
<1>4. ~ q < r
      BY <1>2, Multiples
<1>   QED BY <1>2, <1>3, <1>4 DEF r

\* Dividing twice is dividing by the product.
LEMMA NestedDivision ==
    ASSUME NEW P \in Nat \ {0}, NEW R \in Nat \ {0}, NEW n \in Nat
    PROVE  n \div (P * R) = (n \div P) \div R
<1>   DEFINE q == n \div P
             r == q \div R
<1>1. q \in Nat /\ n % P \in 0 .. P - 1 /\ n = P * q + (n % P)
      BY Division
<1>2. r \in Nat /\ q % R \in 0 .. R - 1 /\ q = R * r + (q % R)
      BY <1>1, Division
<1>   HIDE DEF q, r
<1>3. PICK c \in 0 .. P - 1, d \in 0 .. R - 1 : c = n % P /\ d = q % R
      BY <1>1, <1>2
<1>4. PICK W \in Nat \ {0} : W = P * R
      BY Products
<1>5. W * r \in Nat /\ P * d \in Nat /\ P * d + P <= W
  <2>1. P * (d + 1) <= P * R
        BY <1>3, Multiples
  <2>2. P * (d + 1) = P * d + P
        BY <1>3
  <2>   QED BY <1>2, <1>3, <1>4, <2>1, <2>2, Products
<1>6. n = W * r + P * d + c
  <2>1. n = P * (R * r + d) + c
        BY <1>1, <1>2, <1>3
  <2>2. P * (R * r + d) = P * (R * r) + P * d
        BY <1>2, <1>3
  <2>3. P * (R * r) = W * r
        BY <1>2, <1>4, Z3
  <2>   QED BY <2>1, <2>2, <2>3
<1>7. W * r <= n /\ n < W * r + W
      BY <1>1, <1>3, <1>5, <1>6
<1>   QED BY <1>2, <1>4, <1>7, Quotient DEF q, r

\* The terms of a product of sums, as the provers need them.
LEMMA Distribute ==
    ASSUME NEW a \in Nat, NEW b \in Nat, NEW c \in Nat, NEW d \in Nat
    PROVE  /\ a * (b * c + d) = (a * b) * c + a * d
           /\ (a * b) * c = a * (b * c)
<1>1. a * (b * c + d) = a * (b * c) + a * d
      OBVIOUS
<1>2. (a * b) * c = a * (b * c)
      BY Z3
<1>   QED BY <1>1, <1>2

\* What is left of a sum: both remainders together, or one modulus less.
LEMMA SumRemainder ==
    ASSUME NEW P \in Nat \ {0}, NEW a \in Nat, NEW b \in 0 .. P - 1
    PROVE  (a + b) % P = IF (a % P) + b < P THEN (a % P) + b ELSE (a % P) + b - P
<1>1. PICK q \in Nat, r \in 0 .. P - 1 : q = a \div P /\ r = a % P /\ a = P * q + r
      BY Division
<1>2. PICK t \in Nat, u \in Nat, v \in 0 .. P - 1 :
         t = a + b /\ u = t \div P /\ v = t % P /\ t = P * u + v
  <2>1. PICK t \in Nat : t = a + b
        OBVIOUS
  <2>2. /\ t \div P \in Nat /\ t % P \in 0 .. P - 1
        /\ t = P * (t \div P) + (t % P)
        BY Division
  <2>   QED BY <2>1, <2>2
<1>3. P * q \in Nat /\ P * (q + 1) = P * q + P
      BY <1>1, Products
<1>4. CASE r + b < P
  <2>1. P * q <= t /\ t < P * q + P
        BY <1>1, <1>2, <1>3, <1>4
  <2>2. u = q
        BY <1>1, <1>2, <2>1, Quotient
  <2>   QED BY <1>1, <1>2, <1>3, <1>4, <2>2
<1>5. CASE ~ r + b < P
  <2>1. P * (q + 1) <= t /\ t < P * (q + 1) + P /\ q + 1 \in Nat
        BY <1>1, <1>2, <1>3, <1>5
  <2>2. u = q + 1
        BY <1>2, <2>1, Quotient
  <2>   QED BY <1>1, <1>2, <1>3, <1>5, <2>2
<1>   QED BY <1>1, <1>4, <1>5

\* Two whole turns leave a number where it was.
LEMMA WholeTurns ==
    ASSUME NEW P \in Nat \ {0}, NEW k \in 0 .. P - 1
    PROVE  (2 * P + k) % P = k
<1>1. PICK t \in Nat : t = 2 * P + k
      OBVIOUS
<1>2. P * 2 <= t /\ t < P * 2 + P /\ 2 \in Nat
      BY <1>1
<1>3. t \div P = 2
      BY <1>2, Quotient
<1>4. t % P \in 0 .. P - 1 /\ t = P * 2 + (t % P)
      BY <1>3, Division
<1>   QED BY <1>1, <1>4

-------------------------------------------------------------------------------
(* Recursion *)

\* A function from 0 .. n to S with these values exists: b at 0, and at k what R
\* gives, for k, by the value before.
Computes(S, n, b, R) ==
    \E f \in [0 .. n -> S] : f[0] = b /\ \A k \in 1 .. n : f[k] = R[k][f[k - 1]]

\* So a recursive definition over the first n numbers has a function it defines.
LEMMA Recursion ==
    ASSUME NEW S, NEW n \in Nat, NEW b \in S, NEW R \in [1 .. n -> [S -> S]]
    PROVE  Computes(S, n, b, R)
<1>   DEFINE Upto(m, f) == /\ f \in [0 .. m -> S] /\ f[0] = b
                           /\ \A k \in 1 .. m : f[k] = R[k][f[k - 1]]
             T == {m \in 0 .. n : ~ \E f : Upto(m, f)}
<1>1. T = {}
  <2>   SUFFICES ASSUME T # {} PROVE FALSE
        OBVIOUS
  <2>1. PICK m \in T : \A k \in T : m <= k
    <3>1. T \in SUBSET Nat
          OBVIOUS
    <3>   HIDE DEF T
    <3>   QED BY <3>1, LeastNat
  <2>2. m # 0
    <3>1. Upto(0, [k \in 0 .. 0 |-> b])
          OBVIOUS
    <3>   QED BY <2>1, <3>1
  <2>3. m - 1 \in 0 .. n /\ m - 1 \notin T /\ m \in 1 .. n
    <3>1. m \in 0 .. n
          BY <2>1
    <3>   HIDE DEF T
    <3>   QED BY <2>1, <2>2, <3>1
  <2>4. PICK f : Upto(m - 1, f)
        BY <2>3
  <2>   DEFINE g == [k \in 0 .. m |-> IF k = m THEN R[m][f[m - 1]] ELSE f[k]]
  <2>5. R[m][f[m - 1]] \in S
    <3>1. f[m - 1] \in S
          BY <2>3, <2>4
    <3>   QED BY <2>3, <3>1
  <2>6. Upto(m, g)
    <3>1. g \in [0 .. m -> S] /\ g[0] = b
          BY <2>3, <2>4, <2>5
    <3>2. ASSUME NEW k \in 1 .. m PROVE g[k] = R[k][g[k - 1]]
      <4>1. g[k - 1] = f[k - 1]
            BY <2>3
      <4>2. CASE k = m
        <5>1. g[m] = R[m][f[m - 1]] /\ k - 1 = m - 1
              BY <2>3, <4>2
        <5>   QED BY <4>1, <4>2, <5>1
      <4>3. CASE k # m
            BY <2>3, <2>4, <4>1, <4>3
      <4>   QED BY <4>2, <4>3
    <3>   QED BY <3>1, <3>2
  <2>   QED BY <2>1, <2>6
<1>2. PICK f : Upto(n, f)
      BY <1>1
<1>   QED BY <1>2 DEF Computes
===============================================================================
