------------------------------ MODULE TimingProofs ------------------------------
(***************************************************************************)
(* Proofs about what the server, the dashboard and the script compute from *)
(* curl's times: their three percentiles are one function and their phases *)
(* agree; and their summaries are the percentiles that one would define    *)
(* without sorting, for every sequence of samples.                         *)
(***************************************************************************)
EXTENDS Timing, FiniteSetTheorems, SequenceTheorems, TLAPS

(***************************************************************************)
(* Percentiles and phases.                                                 *)
(***************************************************************************)
\* Whole percentiles.
Percent == 0..100

\* The rank of a percentile lies within the sequence, and only that of the last sample
\* has none behind it.
LEMMA RankInSequence ==
  ASSUME NEW n \in Nat, n >= 1, NEW p \in Percent
  PROVE  LET rank == p * (n - 1) lower == rank \div 100 IN
         /\ rank \in Nat /\ lower \in Nat /\ rank % 100 \in 0..99
         /\ rank = 100 * lower + (rank % 100)
         /\ lower <= n - 1
         /\ lower = n - 1 => rank % 100 = 0
<1> DEFINE rank == p * (n - 1)
           lower == rank \div 100
<1>1. rank \in Nat /\ rank <= 100 * (n - 1)
  <2>1. p \in Nat /\ p <= 100 /\ n - 1 \in Nat
    BY DEF Percent
  <2>2. p * (n - 1) \in Nat
    BY <2>1
  <2>3. (100 - p) * (n - 1) >= 0
    BY <2>1
  <2>4. (100 - p) * (n - 1) = 100 * (n - 1) - p * (n - 1)
    BY <2>1
  <2> QED BY <2>1, <2>2, <2>3, <2>4
<1> HIDE DEF rank
<1>2. lower \in Nat /\ rank % 100 \in 0..99 /\ rank = 100 * lower + (rank % 100)
  BY <1>1
<1>3. lower <= n - 1
  BY <1>1, <1>2
<1>4. lower = n - 1 => rank % 100 = 0
  BY <1>1, <1>2
<1> QED BY <1>1, <1>2, <1>3, <1>4 DEF rank

\* goPercentile, jsPercentile and pct are one function: the server's summaries, the
\* dashboard's cells and the script's printed percentiles of the same sorted samples
\* never differ.
THEOREM PercentilesAgree ==
  ASSUME NEW s \in Seq(Nat), s # <<>>, NEW p \in Percent
  PROVE  goPercentile(s, p) = jsPercentile(s, p) /\ pct(s, p) = jsPercentile(s, p)
<1> DEFINE rank == p * (Len(s) - 1)
           lower == rank \div 100
<1>1. Len(s) \in Nat /\ Len(s) >= 1 /\ \A i \in 1..Len(s) : s[i] \in Nat
  OBVIOUS
<1>2. /\ rank \in Nat /\ lower \in Nat /\ rank % 100 \in 0..99
      /\ lower <= Len(s) - 1 /\ (lower = Len(s) - 1 => rank % 100 = 0)
  BY <1>1, RankInSequence
<1>3. goPercentile(s, p) = IF Len(s) = 1 THEN 100 * s[1]
                           ELSE IF lower + 1 >= Len(s) THEN 100 * s[Len(s)]
                           ELSE Between(s, lower, lower + 1, rank % 100)
  BY DEF goPercentile
<1>4. jsPercentile(s, p) =
        IF Len(s) = 1 THEN 100 * s[1]
        ELSE Between(s, lower, IF lower + 1 < Len(s) - 1 THEN lower + 1 ELSE Len(s) - 1,
                     rank % 100)
  BY DEF jsPercentile
<1>5. pct(s, p) =
        IF Len(s) = 1 THEN 100 * s[1]
        ELSE Between(s, lower, IF lower + 1 <= Len(s) - 1 THEN lower + 1 ELSE Len(s) - 1,
                     rank % 100)
  BY DEF pct
<1> HIDE DEF rank, lower
<1>6. CASE Len(s) = 1
  BY <1>3, <1>4, <1>5, <1>6
<1>7. CASE Len(s) # 1 /\ lower = Len(s) - 1
  <2>1. Between(s, lower, Len(s) - 1, rank % 100) = 100 * s[Len(s)]
    <3>1. rank % 100 = 0 /\ s[lower + 1] = s[Len(s)] /\ s[Len(s) - 1 + 1] = s[Len(s)]
      BY <1>1, <1>2, <1>7
    <3>2. s[Len(s)] \in Nat
      BY <1>1
    <3> QED BY <3>1, <3>2 DEF Between
  <2> QED BY <1>1, <1>2, <1>3, <1>4, <1>5, <1>7, <2>1
<1>8. CASE Len(s) # 1 /\ lower < Len(s) - 1
  <2>1. ~(lower + 1 >= Len(s)) /\ lower + 1 <= Len(s) - 1
    BY <1>1, <1>2, <1>8
  <2>2. (IF lower + 1 < Len(s) - 1 THEN lower + 1 ELSE Len(s) - 1) = lower + 1
    BY <1>1, <1>2, <1>8
  <2> QED BY <1>3, <1>4, <1>5, <1>8, <2>1, <2>2
<1> QED BY <1>1, <1>2, <1>6, <1>7, <1>8

\* An interpolated percentile is between the samples of the ranks it interpolates, so
\* that no summary shows a p50, p90 or p99 outside the samples.
THEOREM PercentileBounded ==
  ASSUME NEW s \in Seq(Nat), s # <<>>, NEW p \in Percent,
         NEW lo \in Nat, NEW hi \in Nat, \A i \in 1..Len(s) : s[i] \in lo..hi
  PROVE  goPercentile(s, p) \in (100 * lo)..(100 * hi)
<1> DEFINE rank == p * (Len(s) - 1)
           lower == rank \div 100
           w == rank % 100
<1>1. Len(s) \in Nat /\ Len(s) >= 1
  OBVIOUS
<1>2. /\ rank \in Nat /\ lower \in Nat /\ w \in 0..99 /\ lower <= Len(s) - 1
  BY <1>1, RankInSequence
<1>3. goPercentile(s, p) = IF Len(s) = 1 THEN 100 * s[1]
                           ELSE IF lower + 1 >= Len(s) THEN 100 * s[Len(s)]
                           ELSE Between(s, lower, lower + 1, w)
  BY DEF goPercentile
<1> HIDE DEF rank, lower, w
<1>4. \A x \in lo..hi : 100 * x \in (100 * lo)..(100 * hi)
  OBVIOUS
<1>5. s[1] \in lo..hi /\ s[Len(s)] \in lo..hi
  BY <1>1
<1>6. ASSUME lower + 1 < Len(s)
      PROVE  Between(s, lower, lower + 1, w) \in (100 * lo)..(100 * hi)
  <2> DEFINE a == s[lower + 1]
             b == s[lower + 1 + 1]
  <2>1. a \in lo..hi /\ b \in lo..hi
    BY <1>1, <1>2, <1>6
  <2>2. Between(s, lower, lower + 1, w) = a * (100 - w) + b * w
    BY DEF Between
  <2> HIDE DEF a, b
  <2> DEFINE A == a * (100 - w)
             B == b * w
  <2>3. a \in Nat /\ b \in Nat /\ w \in Nat /\ 100 - w \in Nat
    BY <1>2, <2>1
  <2>4. A \in Int /\ lo * (100 - w) <= A /\ A <= hi * (100 - w)
    BY <2>1, <2>3
  <2>5. B \in Int /\ lo * w <= B /\ B <= hi * w
    BY <2>1, <2>3
  <2>6. lo * (100 - w) + lo * w = 100 * lo /\ hi * (100 - w) + hi * w = 100 * hi
    BY <2>3
  <2>7. lo * (100 - w) \in Int /\ lo * w \in Int /\ hi * (100 - w) \in Int /\ hi * w \in Int
    BY <2>3
  <2> HIDE DEF A, B
  <2>8. A + B >= lo * (100 - w) + lo * w /\ A + B <= hi * (100 - w) + hi * w
    BY <2>4, <2>5, <2>7
  <2>9. A + B \in (100 * lo)..(100 * hi)
    BY <2>4, <2>5, <2>6, <2>8
  <2> QED BY <2>2, <2>9 DEF A, B
<1> QED BY <1>1, <1>2, <1>3, <1>4, <1>5, <1>6

\* Where curl's times come in the order of a request, the phases the server stores do
\* not overlap: together they take at most the total.
THEOREM PhasesWithinTotal ==
  ASSUME NEW t \in CurlTimes,
         t.lookup <= t.connect, t.appconnect = 0 \/ t.connect <= t.appconnect,
         t.connect <= t.pretransfer, t.appconnect <= t.pretransfer,
         t.pretransfer <= t.starttransfer, t.starttransfer <= t.total
  PROVE  LET ph == PhasesFromCurl(t)
         IN  ph.dns + ph.tcp + ph.tls + ph.ttfb + ph.transfer <= ph.total
<1> DEFINE ph == PhasesFromCurl(t)
<1>1. /\ t.lookup \in Nat /\ t.connect \in Nat /\ t.appconnect \in Nat /\ t.pretransfer \in Nat
      /\ t.starttransfer \in Nat /\ t.total \in Nat
  BY DEF CurlTimes
<1>2. ph.dns = t.lookup /\ ph.tcp = t.connect - t.lookup /\ ph.total = t.total
  BY <1>1 DEF PhasesFromCurl, secondsToMs, delta
<1>3. ph.tls = IF t.appconnect = 0 THEN 0 ELSE t.appconnect - t.connect
  BY <1>1 DEF PhasesFromCurl, secondsToMs, delta, tlsDelta
<1>4. ph.ttfb = t.starttransfer - t.pretransfer /\ ph.transfer = t.total - t.starttransfer
  BY <1>1 DEF PhasesFromCurl, secondsToMs, delta
<1> HIDE DEF ph
<1>5. ph.dns + ph.tcp + ph.tls + ph.ttfb + ph.transfer <= ph.total
  BY <1>1, <1>2, <1>3, <1>4
<1> QED BY <1>5 DEF ph

\* The script's phases of a report are those of the server.
THEOREM ScriptReadsAsServer ==
  ASSUME NEW t \in CurlTimes
  PROVE  /\ curl_phases_ms(t).tls = PhasesFromCurl(t).tls
         /\ curl_phases_ms(t).tcp = PhasesFromCurl(t).tcp
         /\ curl_phases_ms(t).total = PhasesFromCurl(t).total
BY DEF CurlTimes, PhasesFromCurl, curl_phases_ms, secondsToMs, delta, tlsDelta

-----------------------------------------------------------------------------
(***************************************************************************)
(* Sorting by rank.                                                        *)
(***************************************************************************)
\* What comes first has the smaller rank, and of two places one comes first.
LEMMA RanksInOrder ==
  ASSUME NEW S \in SUBSET Int, IsFiniteSet(S), NEW key, \A i \in S : key[i] \in Int
  PROVE  /\ \A i \in S : Rank(S, key, i) \in 0..(Cardinality(S) - 1)
         /\ \A i, j \in S : Precedes(key, i, j) => Rank(S, key, i) < Rank(S, key, j)
         /\ \A i, j \in S : i = j \/ Precedes(key, i, j) \/ Precedes(key, j, i)
<1> DEFINE B(i) == {j \in S : Precedes(key, j, i)}
<1>1. ASSUME NEW i \in S
      PROVE  /\ B(i) \in SUBSET S /\ i \notin B(i)
             /\ IsFiniteSet(B(i)) /\ Cardinality(B(i)) \in Nat
             /\ Rank(S, key, i) = Cardinality(B(i))
  <2>1. B(i) \in SUBSET S /\ Rank(S, key, i) = Cardinality(B(i))
    BY DEF Rank
  <2>2. i \notin B(i)
    BY DEF Precedes
  <2> HIDE DEF B
  <2>3. IsFiniteSet(B(i)) /\ Cardinality(B(i)) \in Nat
    BY <2>1, FS_Subset, FS_CardinalityType
  <2> QED
    BY <2>1, <2>2, <2>3
<1>2. ASSUME NEW i \in S
      PROVE  Rank(S, key, i) \in 0..(Cardinality(S) - 1)
  <2>1. B(i) \in SUBSET (S \ {i})
    BY <1>1
  <2>2. IsFiniteSet(S \ {i}) /\ Cardinality(S \ {i}) = Cardinality(S) - 1
        /\ Cardinality(S) \in Nat
    BY FS_RemoveElement, FS_CardinalityType
  <2> HIDE DEF B
  <2>3. Cardinality(B(i)) <= Cardinality(S \ {i})
    BY <2>1, <2>2, FS_Subset
  <2> QED
    BY <1>1, <2>2, <2>3
<1>3. ASSUME NEW i \in S, NEW j \in S, Precedes(key, i, j)
      PROVE  Rank(S, key, i) < Rank(S, key, j)
  <2>1. i \in B(j)
    BY <1>3
  <2>2. ASSUME NEW k \in S, Precedes(key, k, i)
        PROVE  Precedes(key, k, j)
    <3>1. key[i] \in Int /\ key[j] \in Int /\ key[k] \in Int /\ i \in Int /\ j \in Int /\ k \in Int
      OBVIOUS
    <3> QED
      BY <1>3, <2>2, <3>1 DEF Precedes
  <2>3. B(i) \in SUBSET B(j) /\ B(i) # B(j)
    BY <1>1, <2>1, <2>2
  <2> HIDE DEF B
  <2>4. Cardinality(B(i)) <= Cardinality(B(j)) /\ Cardinality(B(i)) # Cardinality(B(j))
    BY <1>1, <2>3, FS_Subset
  <2> QED
    BY <1>1, <2>4
<1>4. \A i, j \in S : i = j \/ Precedes(key, i, j) \/ Precedes(key, j, i)
  BY DEF Precedes
<1> QED
  BY <1>2, <1>3, <1>4

\* Ordered lists each place once, by rank.
LEMMA OrderedByRank ==
  ASSUME NEW S \in SUBSET Int, IsFiniteSet(S), NEW key, \A i \in S : key[i] \in Int
  PROVE  /\ Cardinality(S) \in Nat
         /\ Ordered(S, key) \in [1..Cardinality(S) -> S]
         /\ \A k \in 1..Cardinality(S) : Rank(S, key, Ordered(S, key)[k]) = k - 1
         /\ \A i \in S : /\ Rank(S, key, i) + 1 \in 1..Cardinality(S)
                         /\ Ordered(S, key)[Rank(S, key, i) + 1] = i
<1> DEFINE n == Cardinality(S)
           r == [i \in S |-> Rank(S, key, i) + 1]
<1>1. n \in Nat
  BY FS_CardinalityType
<1>2. \A i \in S : Rank(S, key, i) \in 0..(n - 1)
  BY RanksInOrder
<1>3. ASSUME NEW i \in S, NEW j \in S, i # j
      PROVE  Rank(S, key, i) # Rank(S, key, j)
  <2>1. Precedes(key, i, j) \/ Precedes(key, j, i)
    BY <1>3, RanksInOrder
  <2>2. Rank(S, key, i) < Rank(S, key, j) \/ Rank(S, key, j) < Rank(S, key, i)
    BY <2>1, RanksInOrder
  <2> QED
    BY <1>2, <2>2
<1> HIDE DEF n
<1>4. r \in Injection(S, 1..n)
  <2>1. r \in [S -> 1..n]
    BY <1>1, <1>2
  <2>2. \A i, j \in S : r[i] = r[j] => i = j
    BY <1>2, <1>3
  <2> QED
    BY <2>1, <2>2 DEF Injection, IsInjective
<1>5. IsFiniteSet(1..n) /\ Cardinality(1..n) = n
  BY <1>1, FS_Interval
<1>6. r \in Surjection(S, 1..n)
  BY <1>4, <1>5, FS_Injection DEF n
<1>7. \A k \in 1..n : \E i \in S : Rank(S, key, i) = k - 1
  <2>1. \A k \in 1..n : \E i \in S : r[i] = k
    BY <1>6 DEF Surjection
  <2> QED
    BY <1>2, <2>1
<1>8. \A k \in 1..n : /\ Ordered(S, key)[k] \in S
                      /\ Rank(S, key, Ordered(S, key)[k]) = k - 1
  <2>1. \A k \in 1..n : Ordered(S, key)[k] = CHOOSE i \in S : Rank(S, key, i) = k - 1
    BY DEF Ordered, n
  <2> QED
    BY <1>7, <2>1
<1>9. Ordered(S, key) \in [1..n -> S]
  <2>1. Ordered(S, key) = [k \in 1..n |-> Ordered(S, key)[k]]
    BY DEF Ordered, n
  <2> QED
    BY <1>8, <2>1
<1>10. ASSUME NEW i \in S
       PROVE  /\ Rank(S, key, i) + 1 \in 1..n
              /\ Ordered(S, key)[Rank(S, key, i) + 1] = i
  <2> DEFINE k == Rank(S, key, i) + 1
  <2>1. k \in 1..n /\ Rank(S, key, i) = k - 1
    BY <1>1, <1>2
  <2> HIDE DEF k
  <2>2. Ordered(S, key)[k] \in S /\ Rank(S, key, Ordered(S, key)[k]) = k - 1
    BY <1>8, <2>1
  <2>3. Ordered(S, key)[k] = i
    BY <1>3, <2>1, <2>2
  <2> QED
    BY <2>1, <2>3 DEF k
<1> QED
  BY <1>1, <1>8, <1>9, <1>10 DEF n

\* The later of two has the key that is not smaller.
LEMMA OrderedAscends ==
  ASSUME NEW S \in SUBSET Int, IsFiniteSet(S), NEW key, \A i \in S : key[i] \in Int,
         NEW k \in 1..Cardinality(S), NEW l \in 1..Cardinality(S), k < l
  PROVE  Precedes(key, Ordered(S, key)[k], Ordered(S, key)[l])
<1> DEFINE a == Ordered(S, key)[k]
           b == Ordered(S, key)[l]
<1>1. a \in S /\ b \in S /\ Rank(S, key, a) = k - 1 /\ Rank(S, key, b) = l - 1
  BY OrderedByRank
<1> HIDE DEF a, b
<1>2. a # b
  BY <1>1
<1>3. ~Precedes(key, b, a)
  <2>1. Precedes(key, b, a) => Rank(S, key, b) < Rank(S, key, a)
    BY <1>1, RanksInOrder
  <2> QED
    BY <1>1, <2>1
<1>4. Precedes(key, a, b) \/ Precedes(key, b, a)
  BY <1>1, <1>2, RanksInOrder
<1> QED
  BY <1>3, <1>4 DEF a, b

-----------------------------------------------------------------------------
(***************************************************************************)
(* Samples and their ranks.                                                *)
(***************************************************************************)
LEMMA PositivePlaces ==
  ASSUME NEW s \in Seq(Nat)
  PROVE  /\ Positive(s) \in SUBSET (1..Len(s)) /\ Positive(s) \in SUBSET Int
         /\ IsFiniteSet(Positive(s)) /\ Cardinality(Positive(s)) \in Nat
         /\ \A i \in Positive(s) : s[i] \in Nat \ {0}
         /\ \A T \in SUBSET Positive(s) : IsFiniteSet(T) /\ Cardinality(T) \in Nat
<1>1. DOMAIN s = 1..Len(s) /\ Len(s) \in Nat /\ \A i \in 1..Len(s) : s[i] \in Nat
  OBVIOUS
<1>2. Positive(s) \in SUBSET (1..Len(s)) /\ \A i \in Positive(s) : s[i] \in Nat \ {0}
  BY <1>1 DEF Positive
<1>3. IsFiniteSet(Positive(s))
  <2>1. IsFiniteSet(1..Len(s))
    BY <1>1, FS_Interval
  <2> QED
    BY <1>2, <2>1, FS_Subset
<1>4. \A T \in SUBSET Positive(s) : IsFiniteSet(T) /\ Cardinality(T) \in Nat
  BY <1>3, FS_Subset, FS_CardinalityType
<1> QED
  BY <1>1, <1>2, <1>3, <1>4

\* Where places have the samples that have, the sorted samples have their ranks.
LEMMA SortedSamples ==
  ASSUME NEW s \in Seq(Nat)
  PROVE  LET t == positive(s) n == Cardinality(Positive(s)) IN
         /\ t \in Seq(Nat) /\ Len(t) = n /\ DOMAIN t = 1..n
         /\ \A k \in 1..n : /\ t[k] \in Nat \ {0} /\ HasRank(t[k], s, k - 1)
                            /\ \E i \in Positive(s) : s[i] = t[k]
         /\ \A k, l \in 1..n : k <= l => t[k] <= t[l]
         /\ \A i \in Positive(s) : \E k \in 1..n : s[i] = t[k]
<1> DEFINE P == Positive(s)
           n == Cardinality(P)
           o == Ordered(P, s)
           t == positive(s)
<1>1. P \in SUBSET Int /\ IsFiniteSet(P) /\ n \in Nat /\ \A i \in P : s[i] \in Nat \ {0}
  BY PositivePlaces
<1>2. /\ o \in [1..n -> P]
      /\ \A k \in 1..n : Rank(P, s, o[k]) = k - 1
      /\ \A i \in P : Rank(P, s, i) + 1 \in 1..n /\ o[Rank(P, s, i) + 1] = i
  BY <1>1, OrderedByRank
<1>3. t = [k \in DOMAIN o |-> s[o[k]]]
  BY DEF positive
<1>4. \A T \in SUBSET P : IsFiniteSet(T) /\ Cardinality(T) \in Nat
  BY PositivePlaces
<1>5. \A k, l \in 1..n : k < l => Precedes(s, o[k], o[l])
  BY <1>1, OrderedAscends
<1> HIDE DEF n, o, t, P
<1>6. /\ DOMAIN t = 1..n /\ \A k \in 1..n : t[k] = s[o[k]] /\ o[k] \in P /\ t[k] \in Nat \ {0}
  BY <1>1, <1>2, <1>3
<1>7. t \in Seq(Nat) /\ Len(t) = n
  <2>1. t \in [1..n -> Nat]
    BY <1>1, <1>3, <1>6
  <2> QED
    BY <1>1, <2>1, SeqDef
<1>8. ASSUME NEW k \in 1..n
      PROVE  HasRank(t[k], s, k - 1)
  <2> DEFINE i == o[k]
             B == {j \in P : Precedes(s, j, i)}
             L == {j \in P : s[j] < t[k]}
             U == {j \in P : s[j] <= t[k]}
  <2>1. i \in P /\ t[k] = s[i] /\ Cardinality(B) = k - 1
    BY <1>2, <1>6 DEF Rank
  <2>2. /\ B \in SUBSET P /\ L \in SUBSET B /\ B \cup {i} \in SUBSET U /\ U \in SUBSET P
        /\ i \notin B
    <3>1. \A j \in P : s[j] \in Nat /\ j \in Int
      BY <1>1
    <3> HIDE DEF i
    <3>2. \A j \in P : Precedes(s, j, i) => s[j] <= s[i]
      BY <2>1, <3>1 DEF Precedes
    <3>3. \A j \in P : s[j] < s[i] => Precedes(s, j, i)
      BY DEF Precedes
    <3>4. ~Precedes(s, i, i) /\ s[i] <= s[i]
      BY <2>1, <3>1 DEF Precedes
    <3> QED
      BY <2>1, <3>2, <3>3, <3>4
  <2>3. /\ IsFiniteSet(B) /\ IsFiniteSet(U) /\ Cardinality(U) \in Nat
        /\ Cardinality(L) \in Nat
    BY <1>4, <2>2
  <2> HIDE DEF i, B, L, U
  <2>4. Cardinality(L) <= k - 1
    BY <2>1, <2>2, <2>3, FS_Subset
  <2>5. Cardinality(B \cup {i}) = k
    <3>1. k - 1 + 1 = k
      BY <1>1
    <3> QED
      BY <2>1, <2>2, <2>3, <3>1, FS_AddElement
  <2>6. Cardinality(U) >= k
    BY <2>2, <2>3, <2>5, FS_Subset
  <2>7. HasRank(t[k], s, k - 1) <=> Cardinality(L) <= k - 1 /\ Cardinality(U) > k - 1
    BY DEF HasRank, L, U, P
  <2> QED
    BY <1>1, <2>3, <2>4, <2>6, <2>7
<1>9. ASSUME NEW k \in 1..n, NEW l \in 1..n, k <= l
      PROVE  t[k] <= t[l]
  <2>1. CASE k = l
    BY <1>6, <2>1
  <2>2. CASE k < l
    <3>1. Precedes(s, o[k], o[l])
      BY <1>5, <2>2
    <3> QED
      BY <1>6, <3>1 DEF Precedes
  <2> QED
    BY <1>9, <2>1, <2>2
<1>10. ASSUME NEW i \in P
       PROVE  \E k \in 1..n : s[i] = t[k]
  <2>1. Rank(P, s, i) + 1 \in 1..n /\ o[Rank(P, s, i) + 1] = i
    BY <1>2
  <2>2. t[Rank(P, s, i) + 1] = s[i]
    BY <1>6, <2>1
  <2> QED
    BY <2>1, <2>2
<1> QED
  BY <1>6, <1>7, <1>8, <1>9, <1>10 DEF n, t, P

\* No two values have the same rank.
LEMMA RankIsUnique ==
  ASSUME NEW s \in Seq(Nat), NEW r \in Nat, NEW v \in Nat, NEW w \in Nat,
         HasRank(v, s, r), HasRank(w, s, r)
  PROVE  v = w
<1>1. \A T \in SUBSET Positive(s) : IsFiniteSet(T) /\ Cardinality(T) \in Nat
  BY PositivePlaces
<1>2. ASSUME NEW x \in Nat, NEW y \in Nat, x < y, HasRank(x, s, r), HasRank(y, s, r)
      PROVE  FALSE
  <2> DEFINE U == {i \in Positive(s) : s[i] <= x}
             L == {i \in Positive(s) : s[i] < y}
  <2>1. Cardinality(L) <= r /\ Cardinality(U) > r
    BY <1>2 DEF HasRank
  <2>2. \A i \in Positive(s) : s[i] \in Nat
    BY PositivePlaces
  <2>3. U \in SUBSET L /\ L \in SUBSET Positive(s) /\ U \in SUBSET Positive(s)
    BY <1>2, <2>2
  <2>4. IsFiniteSet(L) /\ Cardinality(L) \in Nat /\ Cardinality(U) \in Nat
    BY <1>1, <2>3
  <2> HIDE DEF U, L
  <2>5. Cardinality(U) <= Cardinality(L)
    BY <2>3, <2>4, FS_Subset
  <2> QED
    BY <2>1, <2>4, <2>5
<1>3. ~(v < w) /\ ~(w < v)
  BY <1>2
<1> QED
  BY <1>3

-----------------------------------------------------------------------------
(***************************************************************************)
(* Summaries.                                                              *)
(***************************************************************************)
\* Parts that a bijection maps to each other have as many members.
LEMMA SameSize ==
  ASSUME NEW S, NEW T, NEW f \in Bijection(S, T), NEW A \in SUBSET S, NEW B \in SUBSET T,
         \A i \in S : i \in A <=> f[i] \in B, IsFiniteSet(A)
  PROVE  Cardinality(A) = Cardinality(B)
<1> DEFINE g == [i \in A |-> f[i]]
<1>1. /\ f \in [S -> T] /\ \A i, j \in S : f[i] = f[j] => i = j
      /\ \A y \in T : \E i \in S : f[i] = y
  BY DEF Bijection, Injection, Surjection, IsInjective
<1>2. g \in [A -> B] /\ \A i \in A : g[i] = f[i]
  BY <1>1
<1> HIDE DEF g
<1>3. g \in Bijection(A, B)
  BY <1>1, <1>2 DEF Bijection, Injection, Surjection, IsInjective
<1>4. ExistsBijection(A, B)
  BY <1>3 DEF ExistsBijection
<1> QED
  BY <1>4, FS_Bijection

\* Samples that are the same but for their places and for zeros are the same sorted.
LEMMA SameSamples ==
  ASSUME NEW s \in Seq(Nat), NEW u \in Seq(Nat), NEW f \in Bijection(Positive(s), Positive(u)),
         \A i \in Positive(s) : u[f[i]] = s[i]
  PROVE  positive(s) = positive(u)
<1> DEFINE P == Positive(s)
           Q == Positive(u)
           t == positive(s)
           w == positive(u)
           n == Cardinality(P)
<1>1. \A T \in SUBSET P : IsFiniteSet(T)
  BY PositivePlaces
<1>2. f \in [P -> Q]
  BY DEF Bijection, Injection
<1>3. Cardinality(Q) = n /\ n \in Nat
  <2>1. \A i \in P : i \in P <=> f[i] \in Q
    BY <1>2
  <2> QED
    BY <1>1, <2>1, SameSize, PositivePlaces
<1>4. ASSUME NEW v \in Nat, NEW r \in Nat, HasRank(v, s, r)
      PROVE  HasRank(v, u, r)
  <2> DEFINE A == {i \in P : s[i] < v}
             B == {i \in Q : u[i] < v}
             C == {i \in P : s[i] <= v}
             D == {i \in Q : u[i] <= v}
  <2>1. Cardinality(A) = Cardinality(B)
    <3>1. A \in SUBSET P /\ B \in SUBSET Q /\ \A i \in P : i \in A <=> f[i] \in B
      BY <1>2
    <3> HIDE DEF A, B, P, Q
    <3> QED
      BY <1>1, <3>1, SameSize DEF P, Q
  <2>2. Cardinality(C) = Cardinality(D)
    <3>1. C \in SUBSET P /\ D \in SUBSET Q /\ \A i \in P : i \in C <=> f[i] \in D
      BY <1>2
    <3> HIDE DEF C, D, P, Q
    <3> QED
      BY <1>1, <3>1, SameSize DEF P, Q
  <2> QED
    BY <1>4, <2>1, <2>2 DEF HasRank
<1>5. /\ t \in Seq(Nat) /\ Len(t) = n /\ \A k \in 1..n : t[k] \in Nat /\ HasRank(t[k], s, k - 1)
      /\ w \in Seq(Nat) /\ Len(w) = n /\ \A k \in 1..n : w[k] \in Nat /\ HasRank(w[k], u, k - 1)
  BY <1>3, SortedSamples
<1> HIDE DEF t, w, n, P, Q
<1>6. ASSUME NEW k \in 1..n
      PROVE  t[k] = w[k]
  <2>1. k - 1 \in Nat /\ t[k] \in Nat /\ w[k] \in Nat
    BY <1>3, <1>5
  <2>2. HasRank(t[k], u, k - 1) /\ HasRank(w[k], u, k - 1)
    BY <1>4, <1>5, <2>1
  <2> QED
    BY <2>1, <2>2, RankIsUnique
<1>7. t = w
  BY <1>3, <1>5, <1>6, SeqEqual
<1> QED
  BY <1>7 DEF t, w

\* The interpolation in the sorted samples is the percentile of the samples.
LEMMA PercentileRight ==
  ASSUME NEW s \in Seq(Nat), Positive(s) # {}, NEW p \in Percent
  PROVE  IsPercentile(goPercentile(positive(s), p), s, p)
<1> DEFINE n == Cardinality(Positive(s))
           t == positive(s)
           rank == p * (n - 1)
           lower == rank \div 100
           w == rank % 100
           q == goPercentile(t, p)
<1>1. n \in Nat /\ n >= 1
  <2>1. IsFiniteSet(Positive(s)) /\ n \in Nat
    BY PositivePlaces
  <2>2. n # 0
    BY <2>1, FS_EmptySet
  <2> QED
    BY <2>1, <2>2
<1>2. /\ Len(t) = n /\ \A k \in 1..n : /\ t[k] \in Nat /\ HasRank(t[k], s, k - 1)
                                       /\ \E i \in Positive(s) : s[i] = t[k]
  BY SortedSamples
<1>3. /\ lower \in Nat /\ w \in 0..99 /\ lower <= n - 1 /\ (lower = n - 1 => w = 0)
  BY <1>1, RankInSequence
<1>4. q = IF n = 1 THEN 100 * t[1]
          ELSE IF lower + 1 >= n THEN 100 * t[n]
          ELSE Between(t, lower, lower + 1, w)
  BY <1>2 DEF goPercentile
<1>5. IsPercentile(q, s, p) <=>
        \E i, j \in Positive(s) :
          /\ HasRank(s[i], s, lower)
          /\ IF w = 0 THEN j = i ELSE HasRank(s[j], s, lower + 1)
          /\ q = 100 * s[i] + w * (s[j] - s[i])
  BY DEF IsPercentile
<1> HIDE DEF n, t, rank, lower, w, q
<1>6. lower + 1 \in 1..n
  BY <1>1, <1>3
<1>7. ASSUME NEW k \in 1..n, NEW r \in Nat, r = k - 1
       PROVE  t[k] \in Nat /\ HasRank(t[k], s, r)
  BY <1>2, <1>7
<1>8. PICK i \in Positive(s) : s[i] = t[lower + 1]
  BY <1>2, <1>6
<1>9. HasRank(s[i], s, lower) /\ s[i] \in Nat
  <2>1. lower = lower + 1 - 1
    BY <1>3
  <2> QED
    BY <1>3, <1>6, <1>7, <1>8, <2>1
<1>10. CASE lower = n - 1
  <2>1. q = 100 * s[i] /\ w = 0
    <3>1. lower + 1 = n /\ lower + 1 >= n /\ (n = 1 => lower + 1 = 1)
      BY <1>1, <1>3, <1>10
    <3> QED
      BY <1>3, <1>4, <1>8, <1>10, <3>1
  <2>2. 100 * s[i] = 100 * s[i] + w * (s[i] - s[i])
    BY <1>9, <2>1
  <2> QED
    BY <1>5, <1>9, <2>1, <2>2 DEF q, t
<1>11. CASE lower < n - 1
  <2>1. lower + 2 \in 1..n /\ n # 1 /\ ~(lower + 1 >= n)
    BY <1>1, <1>3, <1>11
  <2>2. PICK j \in Positive(s) : s[j] = t[lower + 2]
    BY <1>2, <2>1
  <2>3. HasRank(s[j], s, lower + 1) /\ s[j] \in Nat
    <3>1. lower + 1 = lower + 2 - 1
      BY <1>3
    <3> QED
      BY <1>3, <1>7, <2>1, <2>2, <3>1
  <2>4. q = s[i] * (100 - w) + s[j] * w
    <3>1. lower + 1 + 1 = lower + 2
      BY <1>3
    <3>2. q = Between(t, lower, lower + 1, w)
      BY <1>4, <2>1
    <3> QED
      BY <1>8, <2>2, <3>1, <3>2 DEF Between
  <2> DEFINE a == s[i]
             b == s[j]
  <2>5. w \in Int /\ a \in Int /\ b \in Int
    BY <1>3, <1>9, <2>3
  <2>6. q = 100 * a + w * (b - a)
    <3> HIDE DEF a, b
    <3>1. \A x, y, z \in Int : x * (100 - z) + y * z = 100 * x + z * (y - x)
      OBVIOUS
    <3> QED
      BY <2>4, <2>5, <3>1 DEF a, b
  <2>7. CASE w = 0
    <3>1. q = 100 * s[i] + w * (s[i] - s[i])
      <4> HIDE DEF a, b
      <4>1. \A x, y \in Int : 100 * x + 0 * (y - x) = 100 * x + 0 * (x - x)
        OBVIOUS
      <4> QED
        BY <2>6, <2>7, <2>5, <4>1 DEF a, b
    <3> QED
      BY <1>5, <1>9, <2>7, <3>1 DEF q, t
  <2>8. CASE w # 0
    BY <1>5, <1>9, <2>3, <2>6, <2>8 DEF q, t
  <2> QED
    BY <2>7, <2>8
<1> QED
  BY <1>1, <1>3, <1>10, <1>11 DEF q, t

\* Every summary, the server's, the script's and what the dashboard shows of one, is that
\* of the samples that are not zero, by a definition that sorts nothing: their number,
\* the least and the greatest, and the percentiles between the samples of the ranks.
THEOREM SummaryRight ==
  ASSUME NEW s \in Seq(Nat)
  PROVE  /\ IsSummary(Summarize(s), s)
         /\ percentile_summary(s) = Summarize(s)
         /\ summarize(s) = [count |-> Summarize(s).count, p50 |-> Summarize(s).p50,
                            p99 |-> Summarize(s).p99]
<1> DEFINE n == Cardinality(Positive(s))
           t == positive(s)
<1>1. n \in Nat /\ (n = 0 <=> Positive(s) = {})
  <2>1. IsFiniteSet(Positive(s)) /\ n \in Nat
    BY PositivePlaces
  <2> QED
    BY <2>1, FS_EmptySet
<1>2. /\ t \in Seq(Nat) /\ Len(t) = n
      /\ \A k \in 1..n : t[k] \in Nat /\ \E i \in Positive(s) : s[i] = t[k]
      /\ \A k, l \in 1..n : k <= l => t[k] <= t[l]
      /\ \A i \in Positive(s) : \E k \in 1..n : s[i] = t[k]
  BY SortedSamples
<1>3. 50 \in Percent /\ 90 \in Percent /\ 99 \in Percent
  BY DEF Percent
<1>4. CASE n = 0
  <2>1. t = <<>> /\ Positive(s) = {}
    BY <1>1, <1>2, <1>4
  <2>2. Summarize(s) = NoSamples
    BY <2>1 DEF Summarize, SummaryOf
  <2>3. percentile_summary(s) = NoSamples
    BY <2>1 DEF percentile_summary, SummaryOf
  <2>4. summarize(s) = [count |-> NoSamples.count, p50 |-> NoSamples.p50, p99 |-> NoSamples.p99]
    BY <2>1 DEF summarize, SummaryOf
  <2>5. IsSummary(NoSamples, s)
    BY <1>4, <2>1 DEF IsSummary, NoSamples
  <2> QED
    BY <2>2, <2>3, <2>4, <2>5
<1>5. CASE n # 0
  <2>1. t # <<>> /\ Positive(s) # {} /\ 1 \in 1..n /\ n \in 1..n
    BY <1>1, <1>2, <1>5
  <2>2. Summarize(s) =
          [count |-> n, min |-> t[1], max |-> t[n], sum |-> Total(t),
           p50 |-> goPercentile(t, 50), p90 |-> goPercentile(t, 90), p99 |-> goPercentile(t, 99)]
    BY <1>2, <2>1 DEF Summarize, SummaryOf
  <2>3. percentile_summary(s) =
          [count |-> n, min |-> t[1], max |-> t[n], sum |-> Total(t),
           p50 |-> pct(t, 50), p90 |-> pct(t, 90), p99 |-> pct(t, 99)]
    BY <1>2, <2>1 DEF percentile_summary, SummaryOf
  <2>4. summarize(s) = [count |-> n, p50 |-> jsPercentile(t, 50), p99 |-> jsPercentile(t, 99)]
    BY <1>2, <2>1 DEF summarize, SummaryOf
  <2>5. ASSUME NEW p \in Percent
        PROVE  /\ IsPercentile(goPercentile(t, p), s, p)
               /\ goPercentile(t, p) = pct(t, p) /\ goPercentile(t, p) = jsPercentile(t, p)
    <3>1. IsPercentile(goPercentile(t, p), s, p)
      BY <2>1, PercentileRight
    <3> HIDE DEF t
    <3>2. goPercentile(t, p) = jsPercentile(t, p) /\ pct(t, p) = jsPercentile(t, p)
      BY <1>2, <2>1, PercentilesAgree
    <3> QED
      BY <3>1, <3>2
  <2> HIDE DEF t
  <2>6. \E i, j \in Positive(s) : t[1] = s[i] /\ t[n] = s[j]
    BY <1>2, <2>1
  <2>7. \A i \in Positive(s) : s[i] \in t[1]..t[n]
    <3> SUFFICES ASSUME NEW i \in Positive(s)
                 PROVE  s[i] \in t[1]..t[n]
      OBVIOUS
    <3>1. PICK k \in 1..n : s[i] = t[k]
      BY <1>2
    <3>2. 1 <= k /\ k <= n
      BY <1>1
    <3>3. t[1] <= t[k] /\ t[k] <= t[n] /\ t[1] \in Nat /\ t[k] \in Nat /\ t[n] \in Nat
      BY <1>2, <2>1, <3>2
    <3> QED
      BY <3>1, <3>3
  <2>8. IsSummary(Summarize(s), s)
    <3>1. /\ Summarize(s).count = n /\ Summarize(s).min = t[1] /\ Summarize(s).max = t[n]
          /\ Summarize(s).p50 = goPercentile(t, 50) /\ Summarize(s).p90 = goPercentile(t, 90)
          /\ Summarize(s).p99 = goPercentile(t, 99)
      BY <2>2
    <3> QED
      BY <1>3, <2>5, <2>6, <2>7, <3>1 DEF IsSummary
  <2>9. percentile_summary(s) = Summarize(s)
    BY <1>3, <2>2, <2>3, <2>5
  <2>10. summarize(s) = [count |-> Summarize(s).count, p50 |-> Summarize(s).p50,
                         p99 |-> Summarize(s).p99]
    BY <1>3, <2>2, <2>4, <2>5
  <2> QED
    BY <2>8, <2>9, <2>10
<1> QED
  BY <1>4, <1>5
=============================================================================
