---------------------------- MODULE FileBlocksProofs ----------------------------
(***************************************************************************)
(* The files of cs_file.c, for any number of ranks, sections and entities: *)
(* the blocks follow each other from rank to rank and end with the last    *)
(* entity; the positions that ranks keep, each by itself, are those of the *)
(* file, whatever the method and however far ahead of others a rank is.    *)
(***************************************************************************)
EXTENDS FileBlocks, FiniteSetTheorems, SequenceTheorems, WellFoundedInduction, TLAPS

\* A non-empty set of naturals has a least element: among the intervals 0 .. n
\* for n in the set, one is minimal for inclusion.
LEMMA LeastExists ==
  ASSUME NEW S, S \subseteq Nat, S # {}
  PROVE  \E m \in S : \A n \in S : m <= n
<1> DEFINE T == {0 .. n : n \in S}
<1>1. T \subseteq FiniteSubsetsOf(Nat) /\ T # {}
  <2>1. ASSUME NEW n \in S PROVE 0 .. n \in FiniteSubsetsOf(Nat)
    <3>1. n \in Nat
      OBVIOUS
    <3>2. IsFiniteSet(0 .. n)
      BY <3>1, FS_Interval
    <3>3. QED
      BY <3>1, <3>2 DEF FiniteSubsetsOf
  <2>2. QED
    BY <2>1
<1>2. IsWellFoundedOn(StrictSubsetOrdering(Nat), FiniteSubsetsOf(Nat))
  BY FS_StrictSubsetOrderingWellFounded
<1>3. PICK x \in T : \A y \in T : ~(<<y, x>> \in StrictSubsetOrdering(Nat))
  BY <1>1, <1>2, WFMin
<1>4. PICK m \in S : x = 0 .. m
  OBVIOUS
<1>5. ASSUME NEW n \in S, ~(m <= n) PROVE FALSE
  <2>1. m \in Nat /\ n \in Nat /\ n < m
    BY <1>5
  <2>2. /\ 0 .. n \subseteq 0 .. m /\ 0 .. n # 0 .. m
        /\ 0 .. n \in SUBSET Nat /\ 0 .. m \in SUBSET Nat
    BY <2>1
  <2>3. <<0 .. n, 0 .. m>> \in StrictSubsetOrdering(Nat)
    BY <2>2 DEF StrictSubsetOrdering
  <2>4. QED
    BY <2>3, <1>3, <1>4
<1>6. QED
  BY <1>5

\* Induction: a set of naturals that holds 0 and the successor of each natural it holds.
LEMMA Induction ==
  ASSUME NEW S, 0 \in S, \A n \in Nat : n \in S => n + 1 \in S
  PROVE  Nat \subseteq S
<1> SUFFICES ASSUME Nat \ S # {} PROVE FALSE
  OBVIOUS
<1>1. PICK m \in Nat \ S : \A n \in Nat \ S : m <= n
  BY LeastExists
<1>2. m - 1 \in Nat /\ ~(m <= m - 1)
  BY <1>1
<1>3. m - 1 \in S
  BY <1>1, <1>2
<1>4. (m - 1) + 1 = m
  BY <1>1
<1> QED BY <1>1, <1>2, <1>3, <1>4

\* What the proofs use of the division of naturals.
LEMMA Division ==
  ASSUME NEW a \in Nat, NEW b \in Nat \ {0}
  PROVE  /\ a \div b \in Nat /\ a % b \in 0 .. b - 1
         /\ a = b * (a \div b) + (a % b)
BY SMT

LEMMA Monotone ==
  ASSUME NEW j \in Nat, NEW k \in Nat, NEW s \in Nat, j <= k
  PROVE  j * s <= k * s
<1>1. PICK d \in Nat : k = j + d
  BY SMT
<1> QED BY <1>1, SMT

-----------------------------------------------------------------------------
\* A step leaves at least one rank with a block, and no more than the ranks there are.
LEMMA ActiveOK ==
  ASSUME NEW n \in Nat \ {0}, NEW s \in 1 .. n
  PROVE  ActiveRanks(n, s) \in 1 .. n
<1> DEFINE a == n \div s
<1>1. a \in Nat /\ n % s \in 0 .. s - 1 /\ n = s * a + (n % s)
  BY Division
<1>2. a # 0
  BY <1>1, SMT
<1>3. a <= s * a
  BY <1>1, Monotone, 1 <= s, SMT
<1> QED BY <1>1, <1>2, <1>3, SMT DEF ActiveRanks

\* The blocks of the active ranks hold all entities, and at least one if there is any.
LEMMA SizeIsEnough ==
  ASSUME NEW n \in Nat \ {0}, NEW s \in 1 .. n, NEW g \in Nat
  PROVE  /\ BlockSize(n, s, g) \in Nat
         /\ g <= ActiveRanks(n, s) * BlockSize(n, s, g)
         /\ g > 0 => BlockSize(n, s, g) > 0
<1> DEFINE a == ActiveRanks(n, s)  d == g \div a  m == g % a
<1>1. a \in Nat \ {0}
  BY ActiveOK, SMT
<1>2. d \in Nat /\ m \in 0 .. a - 1 /\ g = a * d + m
  BY <1>1, Division
<1>3. BlockSize(n, s, g) = d + (IF m > 0 THEN 1 ELSE 0)
  BY DEF BlockSize
<1> HIDE DEF a, d, m
<1>4. CASE m > 0
  <2>1. a * (d + 1) = a * d + a
    BY <1>1, <1>2, SMT
  <2> QED BY <1>1, <1>2, <1>3, <1>4, <2>1, SMT DEF a
<1>5. CASE m = 0
  <2>1. d = 0 => g = 0
    BY <1>1, <1>2, <1>5, SMT
  <2> QED BY <1>1, <1>2, <1>3, <1>5, <2>1, SMT DEF a
<1> QED BY <1>2, <1>4, <1>5, SMT

LEMMA BoundOrder ==
  ASSUME NEW j \in Nat, NEW k \in Nat, NEW s \in Nat, NEW g \in Nat, j <= k
  PROVE  /\ Bound(j, s, g) \in 1 .. g + 1
         /\ Bound(j, s, g) <= Bound(k, s, g)
<1>1. j * s \in Nat /\ k * s \in Nat /\ j * s <= k * s
  BY Monotone, SMT
<1> QED BY <1>1, SMT DEF Bound

\* The rank after r is in the same step, or begins the next one.
LEMMA NextQuotient ==
  ASSUME NEW r \in Nat, NEW s \in Nat \ {0}
  PROVE  (r + 1) \div s = IF (r + 1) % s = 0 THEN (r \div s) + 1 ELSE r \div s
<1> DEFINE q == r \div s  m == r % s  p == (r + 1) \div s  l == (r + 1) % s
<1>1. q \in Nat /\ m \in 0 .. s - 1 /\ r = s * q + m
  BY Division
<1>2. p \in Nat /\ l \in 0 .. s - 1 /\ r + 1 = s * p + l
  <2>1. r + 1 \in Nat
    BY SMT
  <2> QED BY <2>1, Division
<1> SUFFICES p = IF l = 0 THEN q + 1 ELSE q
  OBVIOUS
<1> HIDE DEF q, m, p, l
<1>3. p <= q + 1
  <2> SUFFICES ASSUME p >= q + 2 PROVE FALSE
    BY <1>1, <1>2, SMT
  <2>1. (q + 2) * s <= p * s
    BY <1>1, <1>2, Monotone, SMT
  <2>2. (q + 2) * s = s * q + 2 * s /\ p * s = s * p
    BY <1>1, <1>2, SMT
  <2> QED BY <1>1, <1>2, <2>1, <2>2, SMT
<1>4. q <= p
  <2> SUFFICES ASSUME q >= p + 1 PROVE FALSE
    BY <1>1, <1>2, SMT
  <2>1. (p + 1) * s <= q * s
    BY <1>1, <1>2, Monotone, SMT
  <2>2. (p + 1) * s = s * p + s /\ q * s = s * q
    BY <1>1, <1>2, SMT
  <2> QED BY <1>1, <1>2, <2>1, <2>2, SMT
<1>5. CASE p = q
  BY <1>1, <1>2, <1>5, SMT
<1>6. CASE p = q + 1
  <2>1. s * p = s * q + s
    BY <1>1, <1>6, SMT
  <2> QED BY <1>1, <1>2, <1>6, <2>1, SMT
<1> QED BY <1>1, <1>2, <1>3, <1>4, <1>5, <1>6, SMT

-----------------------------------------------------------------------------
\* What cs_file.c asks of the blocks of its callers: "global_num_start at rank 0 = 1",
\* "global_num_start at rank i+1 = global_num_end at rank i", for any step that leaves a
\* rank with a block; and the last rank ends with the last entity.
THEOREM BlocksFollow ==
  ASSUME NEW n \in Nat \ {0}, NEW s \in 1 .. n, NEW g \in Nat
  PROVE  /\ BlockStart(0, n, s, g) = 1
         /\ \A r \in 0 .. n - 1 : BlockStart(r, n, s, g) <= BlockEnd(r, n, s, g)
         /\ \A r \in 0 .. n - 2 : BlockStart(r + 1, n, s, g) = BlockEnd(r, n, s, g)
         /\ BlockEnd(n - 1, n, s, g) = g + 1
<1> DEFINE size == BlockSize(n, s, g)  a == ActiveRanks(n, s)
<1>0. s \in Nat \ {0} /\ n - 1 \in Nat
  BY SMT
<1>1. size \in Nat /\ a \in Nat \ {0} /\ g <= a * size
  <2>1. size \in Nat /\ g <= a * size
    BY SizeIsEnough
  <2>2. a \in 1 .. n
    BY ActiveOK
  <2> QED BY <2>1, <2>2, SMT
<1>2. \A r \in Nat : r \div s \in Nat /\ r % s \in 0 .. s - 1 /\ r = s * (r \div s) + (r % s)
  BY <1>0, Division
<1>3. BlockStart(0, n, s, g) = 1
  <2>1. 0 % s = 0 /\ 0 \div s = 0
    BY <1>0, SMT
  <2> QED BY <1>1, <2>1, SMT DEF BlockStart, Bound
<1>4. ASSUME NEW r \in 0 .. n - 1
      PROVE  BlockStart(r, n, s, g) <= BlockEnd(r, n, s, g)
  <2> DEFINE k == IF r % s = 0 THEN r \div s ELSE r \div s + 1
  <2>1. r \div s \in Nat
    BY <1>2, SMT
  <2>2. k \in Nat /\ r \div s + 1 \in Nat /\ k <= r \div s + 1
    BY <2>1, SMT
  <2> QED BY <1>1, <2>2, BoundOrder DEF BlockStart, BlockEnd
<1>5. ASSUME NEW r \in 0 .. n - 2
      PROVE  BlockStart(r + 1, n, s, g) = BlockEnd(r, n, s, g)
  <2>1. r \in Nat
    BY <1>0, SMT
  <2>2. (r + 1) \div s = IF (r + 1) % s = 0 THEN (r \div s) + 1 ELSE r \div s
    BY <1>0, <2>1, NextQuotient
  <2> QED BY <2>2 DEF BlockStart, BlockEnd
<1>6. BlockEnd(n - 1, n, s, g) = g + 1
  <2> DEFINE k == (n - 1) \div s + 1
  <2>1. k \in Nat /\ a <= k
    <3>1. n \div s = IF n % s = 0 THEN (n - 1) \div s + 1 ELSE (n - 1) \div s
      <4>1. (n - 1) + 1 = n
        BY SMT
      <4> QED BY <1>0, <4>1, NextQuotient
    <3>2. (n - 1) \div s \in Nat
      BY <1>0, <1>2
    <3> QED BY <3>1, <3>2, SMT DEF ActiveRanks
  <2>2. a * size <= k * size /\ a * size \in Nat /\ k * size \in Nat
    BY <1>1, <2>1, Monotone, SMT
  <2>3. BlockEnd(n - 1, n, s, g) = Bound(k, size, g)
    BY DEF BlockEnd
  <2> HIDE DEF k, size, a
  <2> QED BY <1>1, <2>2, <2>3, SMT DEF Bound
<1> QED BY <1>3, <1>4, <1>5, <1>6

\* Rank 0 has a block as soon as there is an entity: the serializer of cs_file.c loses the
\* first block of another rank otherwise.
THEOREM RankZeroHasData ==
  ASSUME NEW n \in Nat \ {0}, NEW s \in 1 .. n, NEW g \in Nat \ {0}
  PROVE  BlockStart(0, n, s, g) < BlockEnd(0, n, s, g)
<1>1. BlockSize(n, s, g) \in Nat \ {0}
  BY SizeIsEnough, SMT
<1>2. 0 \div s = 0 /\ 0 % s = 0
  BY SMT
<1> QED BY <1>1, <1>2, SMT DEF BlockStart, BlockEnd, Bound

-----------------------------------------------------------------------------
\* The loop that doubles the step: what it returns from each step it may be at.
Doubling(f, n, small) ==
  f = [step \in 1 .. n |-> IF small[step] THEN f[2 * step] ELSE step]

LEMMA DoublingExists ==
  ASSUME NEW n \in Nat, NEW small, \A s \in 1 .. n : small[s] => 2 * s <= n
  PROVE  \E f : Doubling(f, n, small)
<1> DEFINE Partial(f, m) == \A s \in 1 .. n : s > n - m =>
                               f[s] = IF small[s] THEN f[2 * s] ELSE s
           S == {m \in Nat : \E f : Partial(f, m)}
<1>1. 0 \in S
  <2>1. Partial(0, 0)
    OBVIOUS
  <2> QED BY <2>1
<1>2. ASSUME NEW m \in Nat, m \in S PROVE m + 1 \in S
  <2>1. PICK f : Partial(f, m)
    BY <1>2
  <2> DEFINE g == [s \in 1 .. n |-> IF s > n - m THEN f[s]
                                    ELSE IF small[s] THEN f[2 * s] ELSE s]
  <2>2. ASSUME NEW s \in 1 .. n, s > n - (m + 1)
        PROVE  g[s] = IF small[s] THEN g[2 * s] ELSE s
    <3>1. CASE ~small[s]
      BY <2>1, <2>2, <3>1
    <3>2. CASE small[s]
      <4>1. 2 * s \in 1 .. n /\ 2 * s > n - m
        BY <2>2, <3>2
      <4>2. g[2 * s] = f[2 * s]
        BY <4>1
      <4>3. g[s] = f[2 * s]
        BY <2>1, <2>2, <3>2
      <4> QED BY <3>2, <4>2, <4>3
    <3> QED BY <3>1, <3>2
  <2> HIDE DEF g
  <2>3. Partial(g, m + 1)
    BY <2>2
  <2>4. \E h : Partial(h, m + 1)
    BY <2>3
  <2>5. m + 1 \in Nat
    OBVIOUS
  <2> HIDE DEF Partial
  <2> QED BY <2>4, <2>5
<1> HIDE DEF S
<1>3. n \in S
  BY <1>1, <1>2, Induction
<1>4. PICK f : Partial(f, n)
  BY <1>3 DEF S
<1> DEFINE g == [s \in 1 .. n |-> f[s]]
<1>5. ASSUME NEW s \in 1 .. n PROVE g[s] = IF small[s] THEN g[2 * s] ELSE s
  <2>1. s > n - n
    OBVIOUS
  <2>2. g[s] = f[s] /\ f[s] = IF small[s] THEN f[2 * s] ELSE s
    BY <1>4, <2>1
  <2>3. small[s] => 2 * s \in 1 .. n
    OBVIOUS
  <2>4. small[s] => g[2 * s] = f[2 * s]
    BY <2>3
  <2> QED BY <2>2, <2>4
<1>6. g = [step \in 1 .. n |-> IF small[step] THEN g[2 * step] ELSE step]
  <2> HIDE DEF g
  <2>1. g = [s \in 1 .. n |-> g[s]]
    BY DEF g
  <2> QED BY <1>5, <2>1
<1> QED BY <1>6 DEF Doubling

LEMMA DoublingType ==
  ASSUME NEW n \in Nat, NEW small, \A s \in 1 .. n : small[s] => 2 * s <= n,
         NEW f, Doubling(f, n, small)
  PROVE  \A s \in 1 .. n : f[s] \in 1 .. n
<1> DEFINE S == {m \in Nat : \A s \in 1 .. n : s > n - m => f[s] \in 1 .. n}
<1>1. 0 \in S
  OBVIOUS
<1>2. ASSUME NEW m \in Nat, m \in S PROVE m + 1 \in S
  <2>1. ASSUME NEW s \in 1 .. n, s > n - (m + 1) PROVE f[s] \in 1 .. n
    <3>1. f[s] = IF small[s] THEN f[2 * s] ELSE s
      BY DEF Doubling
    <3>2. CASE small[s]
      <4>1. 2 * s \in 1 .. n /\ 2 * s > n - m
        BY <2>1, <3>2
      <4> QED BY <1>2, <3>1, <3>2, <4>1
    <3> QED BY <3>1, <3>2
  <2> QED BY <2>1
<1> HIDE DEF S
<1>3. n \in S
  BY <1>1, <1>2, Induction
<1> QED BY <1>3 DEF S

\* The step of cs_block_dist_compute_sizes leaves a rank with a block.
LEMMA RankStepOK ==
  ASSUME NEW n \in Nat \ {0}, NEW min \in 1 .. n, NEW size \in Int, NEW g \in Nat
  PROVE  RankStep(n, min, size, g) \in 1 .. n
<1> DEFINE small == [s \in 1 .. n |-> TooSmall(n, s, size, g)]
           loop == CHOOSE f : f = [step \in 1 .. n |-> IF TooSmall(n, step, size, g)
                                                      THEN f[2 * step] ELSE step]
           first == IF min > 1 THEN min ELSE 1
<1>1. ASSUME NEW s \in 1 .. n, small[s] PROVE 2 * s <= n
  <2>1. n \div s > 1
    BY <1>1 DEF TooSmall, ActiveRanks
  <2>2. n \div s \in Nat /\ n % s \in 0 .. s - 1 /\ n = s * (n \div s) + (n % s)
    <3>1. n \in Nat /\ s \in Nat \ {0}
      OBVIOUS
    <3> QED BY <3>1, Division
  <2> DEFINE q == n \div s  m == n % s
  <2> HIDE DEF q, m
  <2>3. q \in Nat /\ q >= 2 /\ m \in Nat /\ n = s * q + m
    BY <2>1, <2>2 DEF q, m
  <2>4. 2 * s <= q * s
    BY <2>3, Monotone
  <2>5. q * s = s * q
    BY <2>3
  <2> QED BY <2>3, <2>4, <2>5
<1>2. Doubling(loop, n, small)
  <2>1. PICK f : Doubling(f, n, small)
    <3> HIDE DEF small
    <3> QED BY <1>1, DoublingExists
  <2>2. f = [step \in 1 .. n |-> IF TooSmall(n, step, size, g) THEN f[2 * step] ELSE step]
    BY <2>1 DEF Doubling
  <2>3. loop = [step \in 1 .. n |-> IF TooSmall(n, step, size, g) THEN loop[2 * step] ELSE step]
    BY <2>2
  <2> HIDE DEF loop
  <2> QED BY <2>3 DEF Doubling
<1>3. RankStep(n, min, size, g) = loop[first]
  BY DEF RankStep
<1>4. first \in 1 .. n
  OBVIOUS
<1> HIDE DEF small, loop, first
<1>5. \A s \in 1 .. n : loop[s] \in 1 .. n
  BY <1>1, <1>2, DoublingType
<1> QED BY <1>3, <1>4, <1>5

-------------------------------------------------------------------------------
\* c is the set S in ascending order.
Holds(c, S) == /\ \A i, j \in 1 .. Len(c) : i < j => c[i] < c[j]
               /\ \A i \in 1 .. Len(c) : c[i] \in S
               /\ \A m \in S : \E i \in 1 .. Len(c) : c[i] = m

LEMMA HoldsAppend ==
  ASSUME NEW c \in Seq(Nat), NEW S, NEW n \in Nat,
         Holds(c, S), \A m \in S : m < n
  PROVE  Holds(Append(c, n), S \cup {n})
<1> DEFINE e == Append(c, n)
<1>1. /\ Len(c) \in Nat /\ Len(e) = Len(c) + 1 /\ e[Len(c) + 1] = n
      /\ \A i \in 1 .. Len(c) : e[i] = c[i]
  OBVIOUS
<1>2. \A i \in 1 .. Len(e) : i \in 1 .. Len(c) \/ i = Len(c) + 1
  BY <1>1
<1>3. ASSUME NEW i \in 1 .. Len(e), NEW j \in 1 .. Len(e), i < j PROVE e[i] < e[j]
  <2>1. i \in 1 .. Len(c) /\ e[i] = c[i]
    BY <1>1, <1>3
  <2>2. CASE j \in 1 .. Len(c)
    BY <1>1, <1>3, <2>1, <2>2 DEF Holds
  <2>3. CASE j = Len(c) + 1
    BY <1>1, <2>1, <2>3 DEF Holds
  <2>4. QED
    BY <1>2, <2>2, <2>3
<1>4. ASSUME NEW i \in 1 .. Len(e) PROVE e[i] \in S \cup {n}
  BY <1>1, <1>2 DEF Holds
<1>5. ASSUME NEW m \in S \cup {n} PROVE \E i \in 1 .. Len(e) : e[i] = m
  <2>1. CASE m = n
    <3>1. Len(c) + 1 \in 1 .. Len(e)
      BY <1>1
    <3>2. QED
      BY <1>1, <2>1, <3>1
  <2>2. CASE m \in S
    <3>1. PICK i \in 1 .. Len(c) : c[i] = m
      BY <2>2 DEF Holds
    <3>2. i \in 1 .. Len(e) /\ e[i] = m
      BY <1>1, <3>1
    <3>3. QED
      BY <3>2
  <2>3. QED
    BY <2>1, <2>2
<1>6. QED
  BY <1>3, <1>4, <1>5 DEF Holds

LEMMA HoldsTail ==
  ASSUME NEW c \in Seq(Nat), NEW S, NEW n \in S,
         Holds(c, S), \A m \in S : n <= m
  PROVE  Head(c) = n /\ Holds(Tail(c), S \ {n})
<1> DEFINE e == Tail(c)
<1>1. PICK k \in 1 .. Len(c) : c[k] = n
  BY DEF Holds
<1>2. /\ Len(c) \in Nat /\ Len(c) >= 1 /\ c # <<>> /\ Head(c) = c[1]
      /\ Len(e) = Len(c) - 1 /\ \A i \in 1 .. Len(e) : e[i] = c[i + 1]
  BY <1>1
<1>3. \A i \in 1 .. Len(c) : c[i] \in Nat /\ c[i] \in S
  BY DEF Holds
<1>4. c[1] = n
  <2>1. 1 \in 1 .. Len(c) /\ n <= c[1] /\ n \in Nat
    BY <1>1, <1>2, <1>3
  <2>2. CASE k = 1
    BY <1>1, <2>2
  <2>3. CASE k # 1
    <3>1. 1 < k
      BY <1>1, <2>3
    <3>2. c[1] < c[k]
      BY <2>1, <3>1 DEF Holds
    <3>3. QED
      BY <1>1, <1>3, <2>1, <3>2
  <2>4. QED
    BY <2>2, <2>3
<1>5. \A i \in 1 .. Len(e) : i + 1 \in 1 .. Len(c) /\ 1 < i + 1
  BY <1>2
<1>6. ASSUME NEW i \in 1 .. Len(e), NEW j \in 1 .. Len(e), i < j PROVE e[i] < e[j]
  <2>1. i + 1 < j + 1
    BY <1>6
  <2>2. c[i + 1] < c[j + 1]
    BY <1>5, <2>1 DEF Holds
  <2>3. QED
    BY <1>2, <2>2
<1>7. ASSUME NEW i \in 1 .. Len(e) PROVE e[i] \in S \ {n}
  <2>1. c[1] < c[i + 1] /\ c[i + 1] \in S /\ c[i + 1] \in Nat
    BY <1>2, <1>3, <1>5 DEF Holds
  <2>2. QED
    BY <1>2, <1>4, <2>1
<1>8. ASSUME NEW m \in S \ {n} PROVE \E i \in 1 .. Len(e) : e[i] = m
  <2>1. PICK j \in 1 .. Len(c) : c[j] = m
    BY DEF Holds
  <2>2. j # 1
    BY <1>4, <2>1
  <2>3. j - 1 \in 1 .. Len(e) /\ (j - 1) + 1 = j
    BY <1>2, <2>2
  <2>4. e[j - 1] = m
    BY <1>2, <2>1, <2>3
  <2>5. QED
    BY <2>3, <2>4
<1>9. QED
  BY <1>2, <1>4, <1>6, <1>7, <1>8 DEF Holds

-----------------------------------------------------------------------------
\* What a call adds to the file, from a position.
Length(o, at) == CASE o.op = "global" -> o.n
                   [] o.op = "block"  -> o.n * o.stride
                   [] o.op = "align"  -> Padding(at, o.to)
Placing(places, calls) ==
  places = [c \in 1 .. Len(calls) + 1 |->
              IF c = 1 THEN 0
              ELSE LET before == places[c - 1] IN before + Length(calls[c - 1], before)]

LEMMA PaddingOK ==
  ASSUME NEW n \in Nat, NEW a \in Nat \ {0}
  PROVE  Padding(n, a) \in Nat
<1>1. n % a \in 0 .. a - 1
  BY Division
<1>2. a - (n % a) \in Nat
  BY <1>1
<1> HIDE DEF Padding
<1>3. (a - (n % a)) % a \in 0 .. a - 1
  BY <1>2, Division
<1> QED BY <1>3 DEF Padding

LEMMA LengthOK ==
  ASSUME NEW o \in Operations, NEW at \in Nat
  PROVE  Length(o, at) \in Nat
<1>1. CASE o.op = "global"
  BY <1>1 DEF Operations, Length
<1>2. CASE o.op = "block"
  <2>1. o.n \in Nat /\ o.stride \in Nat
    BY <1>2 DEF Operations
  <2>2. o.n * o.stride \in Nat
    BY <2>1
  <2> QED BY <1>2, <2>2 DEF Length
<1>3. CASE o.op = "align"
  <2>1. o.to \in Nat \ {0}
    BY <1>3 DEF Operations
  <2> QED BY <1>3, <2>1, PaddingOK DEF Length
<1> QED BY <1>1, <1>2, <1>3 DEF Operations

LEMMA PlacingExists ==
  ASSUME NEW calls \in Seq(Operations)
  PROVE  \E places : Placing(places, calls)
<1> DEFINE Partial(f, m) ==
             \A c \in 1 .. m + 1 :
               f[c] = IF c = 1 THEN 0 ELSE f[c - 1] + Length(calls[c - 1], f[c - 1])
           S == {m \in Nat : \E f : Partial(f, m)}
<1>1. 0 \in S
  <2> DEFINE f == [c \in {1} |-> 0]
  <2>1. Partial(f, 0)
    OBVIOUS
  <2> HIDE DEF f, Partial
  <2>2. \E g : Partial(g, 0)
    BY <2>1
  <2> QED BY <2>2
<1>2. ASSUME NEW m \in Nat, m \in S PROVE m + 1 \in S
  <2>1. PICK f : Partial(f, m)
    BY <1>2
  <2> DEFINE g == [c \in 1 .. m + 2 |-> IF c = m + 2
                                        THEN f[m + 1] + Length(calls[m + 1], f[m + 1])
                                        ELSE f[c]]
  <2>2. ASSUME NEW c \in 1 .. (m + 1) + 1
        PROVE  g[c] = IF c = 1 THEN 0 ELSE g[c - 1] + Length(calls[c - 1], g[c - 1])
    <3>1. c = 1 \/ (c - 1 \in 1 .. m + 2 /\ c - 1 # m + 2)
      OBVIOUS
    <3>2. c # 1 => g[c - 1] = f[c - 1]
      BY <3>1
    <3>3. CASE c = m + 2
      <4>1. c - 1 = m + 1 /\ c # 1
        BY <3>3
      <4>2. g[c] = f[m + 1] + Length(calls[m + 1], f[m + 1])
        BY <3>3
      <4> HIDE DEF g
      <4> QED BY <3>2, <4>1, <4>2
    <3>4. CASE c # m + 2
      <4>1. c \in 1 .. m + 1
        BY <3>4
      <4>2. g[c] = f[c]
        BY <3>4
      <4>3. f[c] = IF c = 1 THEN 0 ELSE f[c - 1] + Length(calls[c - 1], f[c - 1])
        BY <2>1, <4>1
      <4> HIDE DEF g
      <4> QED BY <3>2, <4>2, <4>3
    <3> QED BY <3>3, <3>4
  <2> HIDE DEF g
  <2>3. Partial(g, m + 1)
    BY <2>2
  <2> HIDE DEF Partial
  <2>4. \E h : Partial(h, m + 1)
    BY <2>3
  <2> QED BY <2>4
<1> HIDE DEF S
<1> DEFINE n == Len(calls)
<1>3. n \in S
  BY <1>1, <1>2, Induction
<1>4. PICK f : Partial(f, n)
  BY <1>3 DEF S
<1> DEFINE g == [c \in 1 .. n + 1 |-> f[c]]
<1>5. ASSUME NEW c \in 1 .. n + 1
      PROVE  g[c] = IF c = 1 THEN 0 ELSE g[c - 1] + Length(calls[c - 1], g[c - 1])
  <2>1. g[c] = f[c] /\ f[c] = IF c = 1 THEN 0 ELSE f[c - 1] + Length(calls[c - 1], f[c - 1])
    BY <1>4
  <2>2. c # 1 => c - 1 \in 1 .. n + 1
    OBVIOUS
  <2>3. c # 1 => g[c - 1] = f[c - 1]
    BY <2>2
  <2> HIDE DEF g
  <2> QED BY <2>1, <2>3
<1>6. g = [c \in 1 .. n + 1 |-> g[c]]
  OBVIOUS
<1> HIDE DEF g
<1>7. Placing(g, calls)
  BY <1>5, <1>6 DEF Placing
<1> QED BY <1>7

LEMMA PlacingOK ==
  ASSUME NEW calls \in Seq(Operations), NEW p, Placing(p, calls)
  PROVE  /\ p \in [1 .. Len(calls) + 1 -> Nat] /\ p[1] = 0
         /\ \A c \in 1 .. Len(calls) : p[c + 1] = p[c] + Length(calls[c], p[c])
<1> DEFINE n == Len(calls)
           S == {m \in Nat : m + 1 \in 1 .. n + 1 => p[m + 1] \in Nat}
<1>0. n \in Nat /\ \A c \in 1 .. n : calls[c] \in Operations
  OBVIOUS
<1>1. p[1] = 0
  BY <1>0 DEF Placing
<1>2. ASSUME NEW c \in 1 .. n PROVE p[c + 1] = p[c] + Length(calls[c], p[c])
  <2>1. c + 1 \in 1 .. n + 1 /\ c + 1 # 1 /\ (c + 1) - 1 = c
    BY <1>0
  <2> QED BY <2>1 DEF Placing
<1>3. ASSUME NEW m \in Nat, m \in S PROVE m + 1 \in S
  <2>1. CASE m + 1 \in 1 .. n
    <3>1. p[m + 1] \in Nat
      BY <1>3, <2>1
    <3>2. Length(calls[m + 1], p[m + 1]) \in Nat
      BY <1>0, <2>1, <3>1, LengthOK
    <3> QED BY <1>2, <2>1, <3>1, <3>2
  <2>2. CASE m + 1 \notin 1 .. n
    BY <1>0, <2>2
  <2> QED BY <2>1, <2>2
<1>4. 0 \in S
  BY <1>1
<1> HIDE DEF S
<1>5. Nat \subseteq S
  BY <1>3, <1>4, Induction
<1>6. ASSUME NEW c \in 1 .. n + 1 PROVE p[c] \in Nat
  <2>1. c - 1 \in Nat /\ (c - 1) + 1 = c
    OBVIOUS
  <2> QED BY <1>5, <2>1 DEF S
<1>7. p = [c \in 1 .. n + 1 |-> p[c]]
  BY DEF Placing
<1> QED BY <1>1, <1>2, <1>6, <1>7

\* The places of the calls of a setup.
LEMMA LayoutPlaces ==
  ASSUME NEW s \in Setups
  PROVE  Placing(Layout(s).places, s.calls)
<1> DEFINE calls == s.calls
           chosen == CHOOSE Places : Places =
                       [c \in 1 .. Len(calls) + 1 |->
                          IF c = 1 THEN 0
                          ELSE LET before == Places[c - 1]
                               IN  before + Length(calls[c - 1], before)]
<1>1. calls \in Seq(Operations)
  BY SetupAssumption
<1>2. \E p : Placing(p, calls)
  BY <1>1, PlacingExists
<1>3. Placing(chosen, calls)
  BY <1>2 DEF Placing
<1>4. Layout(s).places = [c \in 1 .. Len(calls) + 1 |-> chosen[c]]
  BY DEF Layout, Length
<1>5. chosen = [c \in 1 .. Len(calls) + 1 |-> chosen[c]]
  <2> HIDE DEF chosen
  <2> QED BY <1>3 DEF Placing
<1> HIDE DEF chosen
<1> QED BY <1>3, <1>4, <1>5

-----------------------------------------------------------------------------
(***************************************************************************)
(* The invariant.  Stages of a call are numbered so that a rank that takes *)
(* a message of a collective operation is at the stage at which it was     *)
(* sent: a message is due from p to q at some stages, and what is in       *)
(* transit from p to q is what is due between the stages of q and p.       *)
(***************************************************************************)
Kind(c) == setup.calls[c].op
Place(c) == layout.places[c]
LastRank == n_ranks - 1

Level(ph) == IF ph \in {"start", "gather"} THEN 0
             ELSE IF ph \in {"pad", "end"} THEN 2 ELSE 1
Now(r) == 4 * call[r] + Level(phase[r])

SentFirst(p, q, c) ==
  \/ p = 0 /\ q # 0 /\ Kind(c) = "align"
  \/ p = 0 /\ q # 0 /\ Kind(c) = "global" /\ (writing => setup.calls[c].n # 0)
  \/ p # 0 /\ q = 0 /\ Kind(c) = "block" /\ Serialized
SentInside(p, q, c) == p = 0 /\ q # 0 /\ Kind(c) = "block" /\ Serialized /\ writing
SentLast(p, q, c) ==
  \/ p = 0 /\ q # 0 /\ Kind(c) = "align" /\ writing /\ Padding(Place(c), setup.calls[c].to) # 0
  \/ p = LastRank /\ q # LastRank /\ Kind(c) = "block"

Due(p, q) ==
  {t \in Nat : /\ p \in Active /\ q \in Active
               /\ \E c \in 1 .. n_calls : \/ t = 4 * c /\ SentFirst(p, q, c)
                                          \/ t = 4 * c + 1 /\ SentInside(p, q, c)
                                          \/ t = 4 * c + 2 /\ SentLast(p, q, c)}

\* What a message says that a position depends on, or a value that is read.
Says(p, t, m) ==
  \A c \in 1 .. n_calls :
    /\ t = 4 * c /\ Kind(c) = "align" => m = Place(c)
    /\ t = 4 * c /\ Kind(c) = "block" => m = CountIn(run, p, c)
    /\ t = 4 * c + 2 /\ Kind(c) = "block" => m = End(run, p, c)
    /\ t = 4 * c /\ Kind(c) = "global" /\ ~writing => m = Values(c, 1, setup.calls[c].n)

\* ch holds what p sent from its stage b on, and q, at stage a, has not taken.
OnTheWay(D, a, b) == {t \in D : a <= t /\ t < b}
Carried(p, D, a, b, ch) ==
  /\ \E st \in Seq(Nat) : /\ Holds(st, OnTheWay(D, a, b))
                          /\ Len(ch) = Len(st)
                          /\ \A i \in 1 .. Len(st) : Says(p, st[i], ch[i])
  /\ \A t \in D : t < a => t < b
IsSeq(ch) == \E S : ch \in Seq(S)
InTransit ==
  \A p, q \in Ranks : /\ IsSeq(coll[<<p, q>>])
                      /\ Carried(p, Due(p, q), Now(q), Now(p), coll[<<p, q>>])

\* Where a rank can be in a call.
StageIn(r, c, ph) ==
  \/ ph = "pad" /\ Kind(c) = "align"
  \/ ph = "end" /\ Kind(c) = "block"
  \/ /\ Kind(c) = "block" /\ Serialized
     /\ ph \in IF writing THEN IF r = 0 THEN {"advance", "await"} ELSE {"sync", "scatter"}
               ELSE IF r = 0 THEN {"gather", "deal"} ELSE {"receive"}
Stage(r) ==
  \/ phase[r] = "start"
  \/ r \in Active /\ call[r] \in 1 .. n_calls /\ StageIn(r, call[r], phase[r])

\* The values of the ranks before k in a block.
Upto(c, k) == IF k = 0 THEN 0 ELSE (End(run, k - 1, c) - 1) * setup.calls[c].stride
Counts(c) == [q \in Active |-> CountIn(run, q, c)]

\* The serializer, while rank 0 goes from rank to rank.  The rank whose values it writes
\* next is the next one with data, or rank 0.
SerializerFields == {"count", "next_rank_id", "next_g_num", "dist_rank"}
SerializerOK ==
  /\ DOMAIN ser = SerializerFields
  /\ phase[0] \in {"advance", "await", "deal"} => ser.count = Counts(call[0])
  /\ phase[0] \in {"advance", "await"} =>
       /\ ser.next_rank_id \in 0 .. n_ranks
       /\ ser.next_rank_id \in 1 .. n_ranks - 1 => ser.count[ser.next_rank_id] > 0
       /\ ser.dist_rank = ser.next_rank_id \/ ser.next_rank_id = n_ranks
       /\ ser.next_g_num = 1 + Upto(call[0], ser.next_rank_id)
  /\ phase[0] = "await" => ser.next_rank_id \in 1 .. n_ranks - 1
  /\ phase[0] = "deal" => ser.dist_rank \in 1 .. n_ranks

\* What the stream of rank 0 is past of the current call.
Progress ==
  CASE phase[0] \in {"start", "pad"}     -> 0
    [] phase[0] \in {"advance", "await"} -> Upto(call[0], ser.next_rank_id)
    [] phase[0] = "gather"               -> Upto(call[0], 1)
    [] phase[0] = "deal"                 -> Upto(call[0], ser.dist_rank)
    [] phase[0] = "end"                  -> Upto(call[0], n_ranks)

PositionsOK ==
  /\ \A r \in Active : /\ offset[r] = Place(call[r])
                       /\ phase[r] = "pad" => told[r] = Place(call[r])
  /\ method = "serial" => pos[0] = Place(call[0]) + Progress

\* Offsets and positions are numbers, and each variable a function.
Described == Placing(layout.places, setup.calls)
RankTyped ==
  /\ setup \in Setups /\ Described /\ run \in {1, 2}
  /\ call \in [Ranks -> Nat] /\ \A r \in Ranks : call[r] \in 1 .. n_calls + 1
  /\ DOMAIN phase = Ranks
  /\ offset \in [Ranks -> Nat] /\ told \in [Ranks -> Nat] /\ pos \in [Ranks -> Nat \cup {-1}]
  /\ DOMAIN coll = Ranks \X Ranks /\ DOMAIN mail = Ranks \X Ranks

LocalInv == /\ RankTyped /\ \A r \in Ranks : Stage(r)
            /\ SerializerOK /\ PositionsOK /\ InTransit

-----------------------------------------------------------------------------
\* Sending what is due now, or passing stages at which nothing is due.
LEMMA CarriedSend ==
  ASSUME NEW p, NEW D, D \subseteq Nat, NEW a \in Nat, NEW b \in D, NEW e \in Nat, NEW ch, NEW m,
         IsSeq(ch), Carried(p, D, a, b, ch), b < e, Says(p, b, m),
         \A t \in D : b <= t /\ t < e => t = b
  PROVE  IsSeq(Append(ch, m)) /\ Carried(p, D, a, e, Append(ch, m))
<1>1. PICK st \in Seq(Nat) : /\ Holds(st, OnTheWay(D, a, b))
                             /\ Len(ch) = Len(st)
                             /\ \A i \in 1 .. Len(st) : Says(p, st[i], ch[i])
  BY DEF Carried
<1>2. PICK S : ch \in Seq(S)
  BY DEF IsSeq
<1> DEFINE next == Append(ch, m)
<1>3. /\ next \in Seq(S \cup {m}) /\ Len(next) = Len(ch) + 1 /\ next[Len(ch) + 1] = m
      /\ \A i \in 1 .. Len(ch) : next[i] = ch[i]
  <2>1. ch \in Seq(S \cup {m})
    BY <1>2
  <2> QED BY <2>1
<1> HIDE DEF next
<1>4. a <= b
  BY DEF Carried
<1>5. b \in Nat
  OBVIOUS
<1>6. OnTheWay(D, a, e) = OnTheWay(D, a, b) \cup {b}
  <2>1. ASSUME NEW t \in D
        PROVE  (a <= t /\ t < e) <=> (a <= t /\ t < b) \/ t = b
    <3>1. t \in Nat
      OBVIOUS
    <3>2. CASE t < b
      BY <1>4, <1>5, <3>1, <3>2
    <3>3. CASE b <= t
      BY <1>4, <1>5, <3>1, <3>3
    <3> QED BY <1>5, <3>1, <3>2, <3>3
  <2> QED BY <2>1 DEF OnTheWay
<1>7. Holds(Append(st, b), OnTheWay(D, a, b) \cup {b})
  <2>1. \A t \in OnTheWay(D, a, b) : t < b
    BY DEF OnTheWay
  <2> QED BY <1>1, <1>5, <2>1, HoldsAppend
<1> DEFINE new == Append(st, b)
<1>8. /\ new \in Seq(Nat) /\ Len(new) = Len(st) + 1 /\ new[Len(st) + 1] = b
      /\ \A i \in 1 .. Len(st) : new[i] = st[i]
  BY <1>5
<1>9. Holds(new, OnTheWay(D, a, e))
  BY <1>6, <1>7
<1> HIDE DEF new
<1>10. Len(st) \in Nat
  OBVIOUS
<1>11. ASSUME NEW i \in 1 .. Len(new) PROVE Says(p, new[i], next[i])
  <2>1. CASE i \in 1 .. Len(st)
    BY <1>1, <1>3, <1>8, <2>1
  <2>2. CASE i = Len(st) + 1
    BY <1>1, <1>3, <1>8, <2>2
  <2> QED BY <1>8, <1>10, <2>1, <2>2
<1>12. Len(next) = Len(new)
  BY <1>1, <1>3, <1>8
<1>13. \A t \in D : t < a => t < e
  BY <1>5 DEF Carried
<1>14. IsSeq(next)
  BY <1>3 DEF IsSeq
<1> QED BY <1>8, <1>9, <1>11, <1>12, <1>13, <1>14 DEF Carried, next

LEMMA CarriedPass ==
  ASSUME NEW p, NEW D, D \subseteq Nat, NEW a \in Nat, NEW b \in Nat, NEW e \in Nat, NEW ch,
         Carried(p, D, a, b, ch), b <= e, \A t \in D : ~(b <= t /\ t < e)
  PROVE  Carried(p, D, a, e, ch)
<1>1. OnTheWay(D, a, e) = OnTheWay(D, a, b)
  <2>1. ASSUME NEW t \in D PROVE t < e <=> t < b
    <3>1. t \in Nat /\ ~(b <= t /\ t < e)
      OBVIOUS
    <3> QED BY <3>1
  <2> QED BY <2>1 DEF OnTheWay
<1>2. \A t \in D : t < a => t < e
  BY DEF Carried
<1> QED BY <1>1, <1>2 DEF Carried

\* Taking what is due now, or passing stages at which nothing is.
LEMMA CarriedTake ==
  ASSUME NEW p, NEW D, D \subseteq Nat, NEW a \in D, NEW b \in Nat, NEW e \in Nat, NEW ch,
         IsSeq(ch), ch # <<>>, Carried(p, D, a, b, ch), a < e,
         \A t \in D : a <= t /\ t < e => t = a
  PROVE  /\ Says(p, a, Head(ch)) /\ a < b
         /\ IsSeq(Tail(ch)) /\ Carried(p, D, e, b, Tail(ch))
<1>1. PICK st \in Seq(Nat) : /\ Holds(st, OnTheWay(D, a, b))
                             /\ Len(ch) = Len(st)
                             /\ \A i \in 1 .. Len(st) : Says(p, st[i], ch[i])
  BY DEF Carried
<1>2. PICK S : ch \in Seq(S)
  BY DEF IsSeq
<1> DEFINE next == Tail(ch)  new == Tail(st)
<1>3. /\ Len(ch) \in Nat /\ Len(ch) >= 1 /\ Head(ch) = ch[1]
      /\ next \in Seq(S) /\ Len(next) = Len(ch) - 1
      /\ \A i \in 1 .. Len(next) : next[i] = ch[i + 1]
  BY <1>2
<1>4. st # <<>>
  BY <1>1, <1>3
<1>5. /\ Head(st) = st[1] /\ new \in Seq(Nat) /\ Len(new) = Len(st) - 1
      /\ \A i \in 1 .. Len(new) : new[i] = st[i + 1]
  BY <1>4
<1>6. a \in Nat
  OBVIOUS
<1>7. st[1] \in OnTheWay(D, a, b)
  <2>1. 1 \in 1 .. Len(st)
    BY <1>1, <1>3
  <2> QED BY <1>1, <2>1 DEF Holds
<1>8. a < b /\ a \in OnTheWay(D, a, b)
  <2>1. st[1] \in Nat /\ a <= st[1] /\ st[1] < b
    BY <1>7 DEF OnTheWay
  <2> QED BY <1>6, <2>1 DEF OnTheWay
<1>9. Head(st) = a /\ Holds(Tail(st), OnTheWay(D, a, b) \ {a})
  <2>1. \A t \in OnTheWay(D, a, b) : a <= t
    BY DEF OnTheWay
  <2> QED BY <1>1, <1>8, <2>1, HoldsTail
<1>10. OnTheWay(D, e, b) = OnTheWay(D, a, b) \ {a}
  <2>1. ASSUME NEW t \in D
        PROVE  e <= t /\ t < b <=> a <= t /\ t < b /\ t # a
    BY <1>6
  <2> QED BY <2>1 DEF OnTheWay
<1>11. Says(p, a, Head(ch))
  <2>1. 1 \in 1 .. Len(st)
    BY <1>1, <1>3
  <2> QED BY <1>1, <1>3, <1>5, <1>9, <2>1
<1> HIDE DEF next, new
<1>12. ASSUME NEW i \in 1 .. Len(new) PROVE Says(p, new[i], next[i])
  <2>1. i + 1 \in 1 .. Len(st) /\ i \in 1 .. Len(next)
    BY <1>1, <1>3, <1>5
  <2> QED BY <1>1, <1>3, <1>5, <2>1
<1>13. \A t \in D : t < e => t < b
  <2> SUFFICES ASSUME NEW t \in D, t < e PROVE t < b
    OBVIOUS
  <2>1. CASE t < a
    BY <2>1 DEF Carried
  <2>2. CASE a <= t
    BY <1>8, <2>2
  <2> QED BY <1>6, <2>1, <2>2
<1>14. Len(next) = Len(new) /\ Holds(new, OnTheWay(D, e, b))
  BY <1>1, <1>3, <1>5, <1>9, <1>10 DEF new
<1>15. IsSeq(next)
  BY <1>3 DEF IsSeq
<1>16. Carried(p, D, e, b, next)
  BY <1>5, <1>12, <1>13, <1>14 DEF Carried
<1> QED BY <1>8, <1>11, <1>15, <1>16 DEF next

LEMMA CarriedSkip ==
  ASSUME NEW p, NEW D, D \subseteq Nat, NEW a \in Nat, NEW b \in Nat, NEW e \in Nat, NEW ch,
         Carried(p, D, a, b, ch), a <= e, \A t \in D : ~(a <= t /\ t < e)
  PROVE  Carried(p, D, e, b, ch)
<1>1. OnTheWay(D, e, b) = OnTheWay(D, a, b)
  <2>1. ASSUME NEW t \in D PROVE e <= t <=> a <= t
    <3>1. t \in Nat /\ ~(a <= t /\ t < e)
      OBVIOUS
    <3> QED BY <3>1
  <2> QED BY <2>1 DEF OnTheWay
<1>2. ASSUME NEW t \in D, t < e PROVE t < b
  <2>1. t < a
    BY <1>2
  <2> QED BY <2>1 DEF Carried
<1> QED BY <1>1, <1>2 DEF Carried

\* Nothing is in transit between two ranks at the same stage.
LEMMA NothingCarried ==
  ASSUME NEW p, NEW D, NEW a \in Nat, NEW ch, IsSeq(ch), Carried(p, D, a, a, ch)
  PROVE  ch = <<>>
<1>1. PICK st \in Seq(Nat) : Holds(st, OnTheWay(D, a, a)) /\ Len(ch) = Len(st)
  BY DEF Carried
<1>2. \A t \in OnTheWay(D, a, a) : t \in D /\ a <= t /\ t < a
  BY DEF OnTheWay
<1>3. PICK S : ch \in Seq(S)
  BY DEF IsSeq
<1>4. Len(st) = 0
  <2> SUFFICES ASSUME 1 \in 1 .. Len(st) PROVE FALSE
    OBVIOUS
  <2>1. st[1] \in OnTheWay(D, a, a) /\ st[1] \in Nat
    BY <1>1 DEF Holds
  <2> QED BY <1>2, <2>1
<1> QED BY <1>1, <1>3, <1>4

LEMMA CarriedNone ==
  ASSUME NEW p, NEW D, NEW a \in Nat, \A t \in D : FALSE
  PROVE  \A b : Carried(p, D, a, b, <<>>)
<1> SUFFICES ASSUME NEW b PROVE Carried(p, D, a, b, <<>>)
  OBVIOUS
<1>1. Holds(<<>>, OnTheWay(D, a, b))
  BY DEF Holds, OnTheWay
<1>2. <<>> \in Seq(Nat) /\ Len(<<>>) = 0 /\ \A i \in 1 .. 0 : FALSE
  OBVIOUS
<1>3. \E st \in Seq(Nat) : /\ Holds(st, OnTheWay(D, a, b)) /\ Len(<<>>) = Len(st)
                           /\ \A i \in 1 .. Len(st) : Says(p, st[i], <<>>[i])
  BY <1>1, <1>2
<1> QED BY <1>3 DEF Carried

-----------------------------------------------------------------------------
\* The numbers of a setup.
LEMMA ConfigOK ==
  ASSUME setup \in Setups, run \in {1, 2}
  PROVE  /\ n_ranks \in Nat \ {0} /\ Active \subseteq Ranks /\ Ranks \subseteq Nat
         /\ 0 \in Active /\ LastRank \in Active
         /\ method \in {"serial", "parallel", "mpi"}
         /\ writing => method \in {"serial", "mpi"}
         /\ n_ranks = 1 => method = "serial"
         /\ setup.calls \in Seq(Operations) /\ n_calls \in Nat
         /\ \A c \in 1 .. n_calls : setup.calls[c] \in Operations
         /\ setup.step[run] \in 1 .. n_ranks /\ setup.min_block[run] \in Int
<1>1. run \in 1 .. 2
  OBVIOUS
<1>2. /\ setup.calls \in Seq(Operations)
      /\ n_ranks \in Nat /\ Active \subseteq Ranks
      /\ setup.step[run] \in 1 .. n_ranks /\ setup.min_block[run] \in Int
  BY <1>1, SetupAssumption DEF n_ranks, Active
<1>3. /\ method \in {"serial", "parallel", "mpi"}
      /\ writing => method \in {"serial", "mpi"}
      /\ n_ranks = 1 => method = "serial"
  BY <1>1, SetupAssumption DEF n_ranks, method, writing
<1>4. n_ranks # 0
  BY <1>2
<1>5. 0 \in Active /\ LastRank \in Active
  BY <1>2, <1>4 DEF Active, LastRank
<1>6. n_calls \in Nat /\ \A c \in 1 .. n_calls : setup.calls[c] \in Operations
  BY <1>2 DEF n_calls
<1> QED BY <1>2, <1>3, <1>4, <1>5, <1>6, RanksAssumption

LEMMA BoundType ==
  ASSUME NEW k \in Nat, NEW s \in Nat, NEW g \in Nat
  PROVE  Bound(k, s, g) \in 1 .. g + 1
<1>1. k * s \in Nat
  OBVIOUS
<1> QED BY <1>1 DEF Bound

\* The values of a block: those of each rank follow those of the rank before it.
LEMMA BlockOK ==
  ASSUME setup \in Setups, run \in {1, 2}, NEW c \in 1 .. n_calls, Kind(c) = "block"
  PROVE  /\ setup.calls[c].n \in Nat /\ setup.calls[c].stride \in Nat
         /\ \A k \in 0 .. n_ranks : Upto(c, k) \in Nat
         /\ Upto(c, 0) = 0
         /\ Upto(c, n_ranks) = setup.calls[c].n * setup.calls[c].stride
         /\ \A q \in Active : /\ CountIn(run, q, c) \in Nat
                              /\ Upto(c, q + 1) = Upto(c, q) + CountIn(run, q, c)
                              /\ FirstIn(run, q, c) = Upto(c, q) + 1
                              /\ Upto(c, q + 1) = (End(run, q, c) - 1) * setup.calls[c].stride
         /\ End(run, LastRank, c) = setup.calls[c].n + 1
         /\ CountIn(run, 0, c) = 0 => \A q \in Active : CountIn(run, q, c) = 0
<1> DEFINE o == setup.calls[c]  n == n_ranks  g == o.n  s == o.stride
           step == Step(run, c)
<1>1. n \in Nat \ {0} /\ setup.step[run] \in 1 .. n /\ setup.min_block[run] \in Int
      /\ o \in Operations
  BY ConfigOK
<1>2. g \in Nat /\ s \in Nat
  BY <1>1 DEF Operations, Kind
<1>3. step \in 1 .. n
  BY <1>1, <1>2, RankStepOK DEF Step, n_ranks
<1>4. /\ Start(run, 0, c) = 1
      /\ \A r \in 0 .. n - 1 : Start(run, r, c) <= End(run, r, c)
      /\ \A r \in 0 .. n - 2 : Start(run, r + 1, c) = End(run, r, c)
      /\ End(run, n - 1, c) = g + 1
  BY <1>1, <1>2, <1>3, BlocksFollow DEF Start, End, n_ranks
<1>5. g # 0 => Start(run, 0, c) < End(run, 0, c)
  BY <1>1, <1>2, <1>3, RankZeroHasData DEF Start, End, n_ranks
<1>6. BlockSize(n, step, g) \in Nat
  BY <1>1, <1>2, <1>3, SizeIsEnough
<1>7. ASSUME NEW r \in 0 .. n - 1
      PROVE  Start(run, r, c) \in 1 .. g + 1 /\ End(run, r, c) \in 1 .. g + 1
  <2>1. r \div step \in Nat
    <3>1. r \in Nat /\ step \in Nat \ {0}
      BY <1>1, <1>3
    <3> HIDE DEF step
    <3> QED BY <3>1, Division
  <2>2. r \div step + 1 \in Nat
    BY <2>1
  <2>3. \A k, m \in Nat : Bound(k, m, g) \in 1 .. g + 1
    BY <1>2, BoundType
  <2> HIDE DEF step
  <2>4. /\ Start(run, r, c) = BlockStart(r, n, step, g)
        /\ End(run, r, c) = BlockEnd(r, n, step, g)
    BY DEF Start, End, step, n_ranks
  <2> QED BY <1>6, <2>1, <2>2, <2>3, <2>4 DEF BlockStart, BlockEnd
<1> HIDE DEF step
<1>8. Active = 0 .. n - 1
  BY DEF Active
<1>9. ASSUME NEW q \in Active
      PROVE  /\ CountIn(run, q, c) \in Nat
             /\ Upto(c, q) = (Start(run, q, c) - 1) * s
             /\ Upto(c, q + 1) = (End(run, q, c) - 1) * s
             /\ Upto(c, q) \in Nat /\ Upto(c, q + 1) \in Nat
             /\ Upto(c, q + 1) = Upto(c, q) + CountIn(run, q, c)
             /\ FirstIn(run, q, c) = Upto(c, q) + 1
  <2> DEFINE a == Start(run, q, c)  b == End(run, q, c)
  <2>1. a \in Nat /\ b \in Nat /\ a >= 1 /\ a <= b
    BY <1>2, <1>4, <1>7, <1>8
  <2>2. Upto(c, q + 1) = (b - 1) * s
    BY <1>8 DEF Upto
  <2>3. Upto(c, q) = (a - 1) * s
    <3>1. CASE q = 0
      <4>1. a = 1
        BY <1>4, <3>1
      <4>2. (a - 1) * s = 0
        BY <1>2, <4>1
      <4> QED BY <3>1, <4>2 DEF Upto
    <3>2. CASE q # 0
      <4>1. q - 1 \in 0 .. n - 2 /\ (q - 1) + 1 = q
        BY <1>1, <1>8, <3>2
      <4>2. End(run, q - 1, c) = a
        BY <1>4, <4>1
      <4> QED BY <3>2, <4>2 DEF Upto
    <3> QED BY <3>1, <3>2
  <2>4. CountIn(run, q, c) = (b - a) * s /\ FirstIn(run, q, c) = (a - 1) * s + 1
    BY DEF CountIn, FirstIn
  <2> HIDE DEF a, b
  <2>5. (b - 1) * s = (a - 1) * s + (b - a) * s
    BY <1>2, <2>1
  <2>6. \A x, y \in Nat : x * y \in Nat
    OBVIOUS
  <2>7. b - a \in Nat /\ b - 1 \in Nat /\ a - 1 \in Nat
    BY <2>1
  <2>8. (b - 1) * s \in Nat /\ (a - 1) * s \in Nat /\ (b - a) * s \in Nat
    BY <1>2, <2>6, <2>7
  <2> QED BY <2>2, <2>3, <2>4, <2>5, <2>8 DEF a, b
<1>10. Upto(c, 0) = 0
  BY DEF Upto
<1>11. Upto(c, n) = g * s /\ End(run, LastRank, c) = g + 1
  <2>1. (g + 1) - 1 = g
    BY <1>2
  <2> QED BY <1>1, <1>4, <2>1 DEF Upto, LastRank
<1>12. ASSUME NEW k \in 0 .. n PROVE Upto(c, k) \in Nat
  <2>1. CASE k = 0
    BY <1>10, <2>1
  <2>2. CASE k # 0
    <3>1. k - 1 \in Active /\ (k - 1) + 1 = k
      BY <1>1, <1>8, <2>2
    <3> QED BY <1>9, <3>1
  <2> QED BY <2>1, <2>2
<1>13. ASSUME CountIn(run, 0, c) = 0, NEW q \in Active PROVE CountIn(run, q, c) = 0
  <2>1. 0 \in 0 .. n - 1
    BY <1>1
  <2>2. CASE g = 0
    <3>1. Start(run, q, c) = 1 /\ End(run, q, c) = 1
      <4>1. Start(run, q, c) \in 1 .. g + 1 /\ End(run, q, c) \in 1 .. g + 1
        BY <1>7, <1>8
      <4> QED BY <2>2, <4>1
    <3>2. (1 - 1) * s = 0
      BY <1>2
    <3> QED BY <3>1, <3>2 DEF CountIn
  <2>3. CASE g # 0
    <3> DEFINE d == End(run, 0, c) - Start(run, 0, c)
    <3>1. d \in Nat /\ d > 0
      BY <1>5, <1>7, <2>1, <2>3
    <3>2. d * s = 0
      BY <1>13 DEF CountIn
    <3> HIDE DEF d
    <3>3. s = 0
      <4> SUFFICES ASSUME s > 0 PROVE FALSE
        BY <1>2
      <4>1. 1 * s <= d * s
        BY <1>2, <3>1, Monotone
      <4> QED BY <1>2, <3>2, <4>1
    <3>4. Start(run, q, c) \in Nat /\ End(run, q, c) \in Nat
      BY <1>2, <1>7, <1>8
    <3>5. (End(run, q, c) - Start(run, q, c)) * 0 = 0
      BY <3>4
    <3> QED BY <3>3, <3>5 DEF CountIn
  <2> QED BY <2>2, <2>3
<1> QED BY <1>2, <1>9, <1>10, <1>11, <1>12, <1>13

-----------------------------------------------------------------------------
\* What is due at a stage of a call, and from a stage to a later one.
LEMMA DueAt ==
  ASSUME NEW p \in Active, NEW q \in Active, NEW c \in 1 .. n_calls
  PROVE  /\ 4 * c \in Due(p, q) <=> SentFirst(p, q, c)
         /\ 4 * c + 1 \in Due(p, q) <=> SentInside(p, q, c)
         /\ 4 * c + 2 \in Due(p, q) <=> SentLast(p, q, c)
         /\ 4 * c + 3 \notin Due(p, q)
<1>1. ASSUME NEW d \in 1 .. n_calls
      PROVE  /\ c # d => \A i, j \in 0 .. 3 : 4 * c + i # 4 * d + j
             /\ \A i, j \in 0 .. 3 : 4 * c + i = 4 * c + j => i = j
  OBVIOUS
<1>2. 4 * c \in Nat /\ 4 * c + 1 \in Nat /\ 4 * c + 2 \in Nat /\ 4 * c = 4 * c + 0
  OBVIOUS
<1>3. ASSUME NEW d \in 1 .. n_calls, c # d
      PROVE  /\ 4 * c # 4 * d /\ 4 * c # 4 * d + 1 /\ 4 * c # 4 * d + 2
             /\ 4 * c + 1 # 4 * d /\ 4 * c + 1 # 4 * d + 1 /\ 4 * c + 1 # 4 * d + 2
             /\ 4 * c + 2 # 4 * d /\ 4 * c + 2 # 4 * d + 1 /\ 4 * c + 2 # 4 * d + 2
             /\ 4 * c + 3 # 4 * d /\ 4 * c + 3 # 4 * d + 1 /\ 4 * c + 3 # 4 * d + 2
  BY <1>3
<1>4. /\ 4 * c # 4 * c + 1 /\ 4 * c # 4 * c + 2 /\ 4 * c + 1 # 4 * c /\ 4 * c + 1 # 4 * c + 2
      /\ 4 * c + 2 # 4 * c /\ 4 * c + 2 # 4 * c + 1
      /\ 4 * c + 3 # 4 * c /\ 4 * c + 3 # 4 * c + 1 /\ 4 * c + 3 # 4 * c + 2
  OBVIOUS
<1>5. 4 * c \in Due(p, q) <=> SentFirst(p, q, c)
  BY <1>2, <1>3, <1>4 DEF Due
<1>6. 4 * c + 1 \in Due(p, q) <=> SentInside(p, q, c)
  BY <1>2, <1>3, <1>4 DEF Due
<1>7. 4 * c + 2 \in Due(p, q) <=> SentLast(p, q, c)
  BY <1>2, <1>3, <1>4 DEF Due
<1>8. 4 * c + 3 \notin Due(p, q)
  BY <1>2, <1>3, <1>4 DEF Due
<1> QED BY <1>5, <1>6, <1>7, <1>8

LEMMA DueBetween ==
  ASSUME NEW p, NEW q, NEW c \in 1 .. n_calls, NEW i \in 0 .. 3, NEW e \in 0 .. 4,
         i < 1 /\ 1 < e => ~SentInside(p, q, c), i < 2 /\ 2 < e => ~SentLast(p, q, c)
  PROVE  \A t \in Due(p, q) : 4 * c + i <= t /\ t < 4 * c + e => t = 4 * c + i
<1> SUFFICES ASSUME NEW t \in Due(p, q), 4 * c + i <= t, t < 4 * c + e, t # 4 * c + i
             PROVE  FALSE
  OBVIOUS
<1>1. PICK d \in 1 .. n_calls : \/ t = 4 * d /\ SentFirst(p, q, d)
                                \/ t = 4 * d + 1 /\ SentInside(p, q, d)
                                \/ t = 4 * d + 2 /\ SentLast(p, q, d)
  BY DEF Due
<1>2. d = c
  BY <1>1
<1>3. CASE t = 4 * c
  BY <1>3
<1>4. CASE t = 4 * c + 1 /\ SentInside(p, q, c)
  BY <1>4
<1>5. CASE t = 4 * c + 2 /\ SentLast(p, q, c)
  BY <1>5
<1> QED BY <1>1, <1>2, <1>3, <1>4, <1>5

LEMMA DueType == \A p, q : Due(p, q) \subseteq Nat /\ (p = q => Due(p, q) = {})
<1>1. ASSUME NEW p, NEW c \in 1 .. n_calls
      PROVE  ~SentFirst(p, p, c) /\ ~SentInside(p, p, c) /\ ~SentLast(p, p, c)
  BY DEF SentFirst, SentInside, SentLast
<1> QED BY <1>1 DEF Due

\* What a message says, at a stage.
LEMMA SaysAt ==
  ASSUME NEW c \in 1 .. n_calls, NEW p, NEW m
  PROVE  /\ Says(p, 4 * c, m) <=> /\ Kind(c) = "align" => m = Place(c)
                                  /\ Kind(c) = "block" => m = CountIn(run, p, c)
                                  /\ Kind(c) = "global" /\ ~writing => m = Values(c, 1, setup.calls[c].n)
         /\ Says(p, 4 * c + 1, m)
         /\ Says(p, 4 * c + 2, m) <=> (Kind(c) = "block" => m = End(run, p, c))
<1>1. ASSUME NEW d \in 1 .. n_calls
      PROVE  /\ 4 * c = 4 * d => c = d
             /\ 4 * c # 4 * d + 2 /\ 4 * c + 1 # 4 * d /\ 4 * c + 1 # 4 * d + 2
             /\ 4 * c + 2 # 4 * d /\ (4 * c + 2 = 4 * d + 2 => c = d)
  OBVIOUS
<1>2. Says(p, 4 * c, m) <=> /\ Kind(c) = "align" => m = Place(c)
                            /\ Kind(c) = "block" => m = CountIn(run, p, c)
                            /\ Kind(c) = "global" /\ ~writing => m = Values(c, 1, setup.calls[c].n)
  BY <1>1 DEF Says
<1>3. Says(p, 4 * c + 1, m)
  BY <1>1 DEF Says
<1>4. Says(p, 4 * c + 2, m) <=> (Kind(c) = "block" => m = End(run, p, c))
  BY <1>1 DEF Says
<1> QED BY <1>2, <1>3, <1>4

\* What a step of rank r at stage t does to the messages.
CollStep(r, t) ==
  \A p, q \in Ranks :
    IF p = r /\ t \in Due(p, q)
    THEN \E m : coll'[<<p, q>>] = Append(coll[<<p, q>>], m) /\ Says(p, t, m)
    ELSE IF q = r /\ t \in Due(p, q)
    THEN coll[<<p, q>>] # <<>> /\ coll'[<<p, q>>] = Tail(coll[<<p, q>>])
    ELSE coll'[<<p, q>>] = coll[<<p, q>>]

LEMMA CollKept ==
  ASSUME RankTyped, InTransit, UNCHANGED <<setup, layout, run>>,
         NEW r \in Ranks, NEW e \in Nat, Now(r) \in Nat, Now(r)' = e, Now(r) < e,
         \A q \in Ranks \ {r} : Now(q)' = Now(q) /\ Now(q) \in Nat,
         \A p, q \in Ranks : p = r \/ q = r =>
           \A t \in Due(p, q) : Now(r) <= t /\ t < e => t = Now(r),
         CollStep(r, Now(r))
  PROVE  InTransit'
<1> DEFINE t == Now(r)
<1>1. \A p, q : Due(p, q)' = Due(p, q)
  BY DEF Due, SentFirst, SentInside, SentLast, Kind, Place, LastRank, n_ranks, Active, n_calls,
         Serialized, method, writing
<1>2. \A p, u, m : Says(p, u, m)' = Says(p, u, m)
  BY DEF Says, Kind, Place, CountIn, End, Start, Step, n_calls, writing
<1>3. \A p, D, a, b, ch : Carried(p, D, a, b, ch)' = Carried(p, D, a, b, ch)
  BY <1>2 DEF Carried
<1> SUFFICES ASSUME NEW p \in Ranks, NEW q \in Ranks
             PROVE  /\ IsSeq(coll'[<<p, q>>])
                    /\ Carried(p, Due(p, q), Now(q)', Now(p)', coll'[<<p, q>>])
  BY <1>1, <1>3 DEF InTransit
<1>4. /\ IsSeq(coll[<<p, q>>])
      /\ Carried(p, Due(p, q), Now(q), Now(p), coll[<<p, q>>])
  BY DEF InTransit
<1>5. Due(p, q) \subseteq Nat /\ (p = q => Due(p, q) = {})
  BY DueType
<1>6. t \in Nat /\ Now(p) \in Nat /\ Now(q) \in Nat
  OBVIOUS
<1>7. CASE p = r /\ q = r
  <2>1. coll'[<<p, q>>] = coll[<<p, q>>]
    BY <1>5, <1>7 DEF CollStep
  <2>2. coll[<<p, q>>] = <<>>
    BY <1>4, <1>6, <1>7, NothingCarried
  <2>3. \A u \in Due(p, q) : FALSE
    BY <1>5, <1>7
  <2>4. Now(q)' \in Nat
    BY <1>7
  <2> QED BY <1>4, <2>1, <2>2, <2>3, <2>4, CarriedNone
<1>8. CASE p = r /\ q # r
  <2>1. Now(q)' = Now(q) /\ Now(p)' = e /\ Now(p) = t
    BY <1>8
  <2>2. CASE t \in Due(p, q)
    <3>1. PICK m : coll'[<<p, q>>] = Append(coll[<<p, q>>], m) /\ Says(p, t, m)
      BY <1>8, <2>2 DEF CollStep
    <3>2. \A u \in Due(p, q) : t <= u /\ u < e => u = t
      BY <1>8
    <3>3. t < e
      OBVIOUS
    <3> DEFINE D == Due(p, q)  ch == coll[<<p, q>>]  a == Now(q)
    <3>4. /\ D \subseteq Nat /\ t \in D /\ a \in Nat /\ IsSeq(ch)
          /\ Carried(p, D, a, t, ch)
          /\ \A u \in D : t <= u /\ u < e => u = t
      BY <1>4, <1>5, <1>6, <2>1, <2>2, <3>2
    <3> HIDE DEF t, D, ch, a
    <3>5. IsSeq(Append(ch, m)) /\ Carried(p, D, a, e, Append(ch, m))
      BY <3>1, <3>3, <3>4, CarriedSend DEF ch
    <3> QED BY <2>1, <3>1, <3>5 DEF D, ch, a
  <2>3. CASE t \notin Due(p, q)
    <3>1. coll'[<<p, q>>] = coll[<<p, q>>]
      BY <1>8, <2>3 DEF CollStep
    <3>2. \A u \in Due(p, q) : ~(t <= u /\ u < e)
      BY <1>8, <2>3
    <3> HIDE DEF t
    <3>3. t <= e
      BY <1>6 DEF t
    <3> QED BY <1>4, <1>5, <1>6, <2>1, <3>1, <3>2, <3>3, CarriedPass
  <2> QED BY <2>2, <2>3
<1>9. CASE p # r /\ q = r
  <2>1. Now(p)' = Now(p) /\ Now(q)' = e /\ Now(q) = t
    BY <1>9
  <2>2. CASE t \in Due(p, q)
    <3>1. coll[<<p, q>>] # <<>> /\ coll'[<<p, q>>] = Tail(coll[<<p, q>>])
      BY <1>9, <2>2 DEF CollStep
    <3>2. \A u \in Due(p, q) : t <= u /\ u < e => u = t
      BY <1>9
    <3>3. t < e
      OBVIOUS
    <3> DEFINE D == Due(p, q)  ch == coll[<<p, q>>]  a == Now(p)
    <3>4. /\ D \subseteq Nat /\ t \in D /\ a \in Nat /\ IsSeq(ch)
          /\ Carried(p, D, t, a, ch)
          /\ \A u \in D : t <= u /\ u < e => u = t
      BY <1>4, <1>5, <1>6, <2>1, <2>2, <3>2
    <3> HIDE DEF t, D, ch, a
    <3>5. IsSeq(Tail(ch)) /\ Carried(p, D, e, a, Tail(ch))
      BY <3>1, <3>3, <3>4, CarriedTake DEF ch
    <3> QED BY <2>1, <3>1, <3>5, SMTT(20) DEF D, ch, a
  <2>3. CASE t \notin Due(p, q)
    <3>1. coll'[<<p, q>>] = coll[<<p, q>>]
      BY <1>9, <2>3 DEF CollStep
    <3>2. \A u \in Due(p, q) : ~(t <= u /\ u < e)
      BY <1>9, <2>3
    <3> HIDE DEF t
    <3>3. t <= e
      BY <1>6 DEF t
    <3> QED BY <1>4, <1>5, <1>6, <2>1, <3>1, <3>2, <3>3, CarriedSkip
  <2> QED BY <2>2, <2>3
<1>10. CASE p # r /\ q # r
  <2>1. Now(p)' = Now(p) /\ Now(q)' = Now(q) /\ coll'[<<p, q>>] = coll[<<p, q>>]
    BY <1>10 DEF CollStep
  <2> QED BY <1>4, <2>1
<1> QED BY <1>7, <1>8, <1>9, <1>10

-----------------------------------------------------------------------------
\* The ways in which a rank takes part in a collective operation, when what it sends and
\* takes is what is due.
LEMMA StepFromRoot ==
  ASSUME DOMAIN coll = Ranks \X Ranks, NEW r, NEW t, NEW m, coll' = FromRoot(r, m),
         \A q \in Ranks : t \in Due(r, q) <=> q \in Active \ {r},
         \A q \in Active \ {r} : Says(r, t, m[q]),
         \A p \in Ranks : t \notin Due(p, r)
  PROVE  CollStep(r, t)
<1> SUFFICES ASSUME NEW p \in Ranks, NEW q \in Ranks
             PROVE  IF p = r /\ t \in Due(p, q)
                    THEN \E x : coll'[<<p, q>>] = Append(coll[<<p, q>>], x) /\ Says(p, t, x)
                    ELSE IF q = r /\ t \in Due(p, q)
                    THEN /\ coll[<<p, q>>] # <<>>
                         /\ coll'[<<p, q>>] = Tail(coll[<<p, q>>])
                    ELSE coll'[<<p, q>>] = coll[<<p, q>>]
  BY DEF CollStep
<1>1. <<p, q>> \in DOMAIN coll /\ <<p, q>>[1] = p /\ <<p, q>>[2] = q
  OBVIOUS
<1>2. coll'[<<p, q>>] = IF p = r /\ q \in Active \ {r} THEN Append(coll[<<p, q>>], m[q])
                        ELSE coll[<<p, q>>]
  BY <1>1 DEF FromRoot
<1> QED BY <1>2

LEMMA StepTake ==
  ASSUME DOMAIN coll = Ranks \X Ranks, NEW r \in Ranks, NEW s \in Ranks, NEW t,
         coll' = Taken(coll, s, r), Arrived(coll, s, r), s # r,
         \A p \in Ranks : t \in Due(p, r) <=> p = s,
         \A q \in Ranks : t \notin Due(r, q)
  PROVE  CollStep(r, t)
<1> SUFFICES ASSUME NEW p \in Ranks, NEW q \in Ranks
             PROVE  IF p = r /\ t \in Due(p, q)
                    THEN \E x : coll'[<<p, q>>] = Append(coll[<<p, q>>], x) /\ Says(p, t, x)
                    ELSE IF q = r /\ t \in Due(p, q)
                    THEN /\ coll[<<p, q>>] # <<>>
                         /\ coll'[<<p, q>>] = Tail(coll[<<p, q>>])
                    ELSE coll'[<<p, q>>] = coll[<<p, q>>]
  BY DEF CollStep
<1>1. <<p, q>> \in DOMAIN coll /\ (<<p, q>> = <<s, r>> <=> p = s /\ q = r)
  OBVIOUS
<1>2. coll'[<<p, q>>] = IF p = s /\ q = r THEN Tail(coll[<<p, q>>]) ELSE coll[<<p, q>>]
  BY <1>1 DEF Taken
<1> QED BY <1>2 DEF Arrived

LEMMA StepPost ==
  ASSUME DOMAIN coll = Ranks \X Ranks, NEW r \in Ranks, NEW d \in Ranks, NEW t, NEW m,
         coll' = Posted(coll, r, d, m), d # r, Says(r, t, m),
         \A q \in Ranks : t \in Due(r, q) <=> q = d,
         \A p \in Ranks : t \notin Due(p, r)
  PROVE  CollStep(r, t)
<1> SUFFICES ASSUME NEW p \in Ranks, NEW q \in Ranks
             PROVE  IF p = r /\ t \in Due(p, q)
                    THEN \E x : coll'[<<p, q>>] = Append(coll[<<p, q>>], x) /\ Says(p, t, x)
                    ELSE IF q = r /\ t \in Due(p, q)
                    THEN /\ coll[<<p, q>>] # <<>>
                         /\ coll'[<<p, q>>] = Tail(coll[<<p, q>>])
                    ELSE coll'[<<p, q>>] = coll[<<p, q>>]
  BY DEF CollStep
<1>1. <<p, q>> \in DOMAIN coll /\ (<<p, q>> = <<r, d>> <=> p = r /\ q = d)
  OBVIOUS
<1>2. coll'[<<p, q>>] = IF p = r /\ q = d THEN Append(coll[<<p, q>>], m) ELSE coll[<<p, q>>]
  BY <1>1 DEF Posted
<1> QED BY <1>2

LEMMA StepGather ==
  ASSUME DOMAIN coll = Ranks \X Ranks, NEW t, Gathers(0),
         \A p \in Ranks : t \in Due(p, 0) <=> p \in Active \ {0},
         \A q \in Ranks : t \notin Due(0, q)
  PROVE  CollStep(0, t)
<1> SUFFICES ASSUME NEW p \in Ranks, NEW q \in Ranks
             PROVE  IF p = 0 /\ t \in Due(p, q)
                    THEN \E x : coll'[<<p, q>>] = Append(coll[<<p, q>>], x) /\ Says(p, t, x)
                    ELSE IF q = 0 /\ t \in Due(p, q)
                    THEN /\ coll[<<p, q>>] # <<>>
                         /\ coll'[<<p, q>>] = Tail(coll[<<p, q>>])
                    ELSE coll'[<<p, q>>] = coll[<<p, q>>]
  BY DEF CollStep
<1>1. <<p, q>> \in DOMAIN coll /\ <<p, q>>[1] = p /\ <<p, q>>[2] = q
  OBVIOUS
<1>2. coll'[<<p, q>>] = IF q = 0 /\ p \in Active \ {0} THEN Tail(coll[<<p, q>>])
                        ELSE coll[<<p, q>>]
  BY <1>1 DEF Gathers
<1>3. p \in Active \ {0} => coll[<<p, 0>>] # <<>>
  BY DEF Gathers, Arrived
<1> QED BY <1>2, <1>3

LEMMA StepNone ==
  ASSUME NEW r, NEW t, coll' = coll, \A q \in Ranks : t \notin Due(r, q) /\ t \notin Due(q, r)
  PROVE  CollStep(r, t)
  BY DEF CollStep

\* What a rank takes is what was sent at its stage.
LEMMA TakenSays ==
  ASSUME InTransit, NEW r \in Ranks, NEW s \in Ranks, Now(r) \in Nat, Now(s) \in Nat,
         Now(r) \in Due(s, r), Arrived(coll, s, r)
  PROVE  Says(s, Now(r), Head(coll[<<s, r>>])) /\ Now(r) < Now(s)
<1> DEFINE D == Due(s, r)  ch == coll[<<s, r>>]  a == Now(r)  b == Now(s)  e == a + 1
<1>1. IsSeq(ch) /\ Carried(s, D, a, b, ch) /\ ch # <<>> /\ D \subseteq Nat
  BY DueType DEF InTransit, Arrived
<1>2. a \in Nat /\ b \in Nat /\ e \in Nat /\ a < e /\ a \in D
  OBVIOUS
<1>3. \A u \in D : a <= u /\ u < e => u = a
  <2> HIDE DEF a, D
  <2> SUFFICES ASSUME NEW u \in D, a <= u, u < a + 1 PROVE u = a
    OBVIOUS
  <2> QED BY <1>1, <1>2
<1> HIDE DEF D, ch, a, b, e
<1>4. Says(s, a, Head(ch)) /\ a < b
  BY <1>1, <1>2, <1>3, CarriedTake
<1> QED BY <1>4 DEF ch, a, b

-----------------------------------------------------------------------------
\* What a step that changes neither the setup nor the run leaves alone.
LEMMA Frame ==
  ASSUME UNCHANGED <<setup, layout, run>>
  PROVE  /\ n_ranks' = n_ranks /\ Active' = Active /\ n_calls' = n_calls
         /\ method' = method /\ writing' = writing /\ Serialized' = Serialized
         /\ \A c : Kind(c)' = Kind(c) /\ Place(c)' = Place(c) /\ Counts(c)' = Counts(c)
         /\ \A c, k : Upto(c, k)' = Upto(c, k) /\ CountIn(run, k, c)' = CountIn(run, k, c)
         /\ \A r, c, ph : StageIn(r, c, ph)' = StageIn(r, c, ph)
<1>1. /\ n_ranks' = n_ranks /\ Active' = Active /\ n_calls' = n_calls
      /\ method' = method /\ writing' = writing
  BY DEF n_ranks, Active, n_calls, method, writing
<1>2. Serialized' = Serialized
  BY <1>1 DEF Serialized
<1>3. \A c : Kind(c)' = Kind(c) /\ Place(c)' = Place(c)
  BY DEF Kind, Place
<1>4. \A c, k : Upto(c, k)' = Upto(c, k) /\ CountIn(run, k, c)' = CountIn(run, k, c)
  BY DEF Upto, CountIn, End, Start, Step
<1>5. \A c : Counts(c)' = Counts(c)
  BY <1>1, <1>4 DEF Counts
<1>6. \A r, c, ph : StageIn(r, c, ph)' = StageIn(r, c, ph)
  BY <1>1, <1>2, <1>3 DEF StageIn
<1> QED BY <1>1, <1>2, <1>3, <1>4, <1>5, <1>6

LEMMA NowType ==
  ASSUME RankTyped
  PROVE  \A r \in Ranks : Now(r) \in Nat
<1> SUFFICES ASSUME NEW r \in Ranks PROVE Now(r) \in Nat
  OBVIOUS
<1>1. call[r] \in Nat /\ Level(phase[r]) \in {0, 1, 2}
  BY DEF RankTyped, Level
<1> QED BY <1>1 DEF Now

\* Where the calls are in the file.
LEMMA PlacesOK ==
  ASSUME RankTyped
  PROVE  /\ \A c \in 1 .. n_calls + 1 : Place(c) \in Nat
         /\ Place(1) = 0
         /\ \A c \in 1 .. n_calls : Place(c + 1) = Place(c) + Length(setup.calls[c], Place(c))
<1>1. Placing(layout.places, setup.calls)
  BY DEF RankTyped, Described
<1>2. setup.calls \in Seq(Operations)
  BY ConfigOK DEF RankTyped
<1> QED BY <1>1, <1>2, PlacingOK DEF Place, n_calls

\* A rank in a call.
LEMMA InCall ==
  ASSUME LocalInv, NEW r \in Ranks, NEW op, NEW ph, In(r, op, ph)
  PROVE  /\ r \in Active /\ call[r] \in 1 .. n_calls /\ call[r] \in Nat
         /\ Kind(call[r]) = op /\ phase[r] = ph /\ Op(r) = setup.calls[call[r]]
         /\ Op(r) \in Operations
         /\ Now(r) = 4 * call[r] + Level(ph)
         /\ offset[r] = Place(call[r]) /\ Place(call[r]) \in Nat
         /\ Place(call[r] + 1) = Place(call[r]) + Length(Op(r), Place(call[r]))
<1>1. /\ r \in Active /\ call[r] \in 1 .. n_calls + 1 /\ call[r] <= n_calls
      /\ Op(r).op = op /\ phase[r] = ph
  BY DEF In, Free, LocalInv, RankTyped
<1>2. /\ n_calls \in Nat /\ \A c \in 1 .. n_calls : setup.calls[c] \in Operations
  BY ConfigOK DEF LocalInv, RankTyped
<1>3. call[r] \in 1 .. n_calls /\ call[r] \in Nat /\ call[r] \in 1 .. n_calls + 1
  BY <1>1, <1>2
<1>4. /\ Place(call[r]) \in Nat
      /\ Place(call[r] + 1) = Place(call[r]) + Length(setup.calls[call[r]], Place(call[r]))
  BY <1>3, PlacesOK DEF LocalInv
<1>5. offset[r] = Place(call[r])
  BY <1>1 DEF LocalInv, PositionsOK
<1> QED BY <1>1, <1>2, <1>3, <1>4, <1>5 DEF Op, Kind, Now

\* Going to another stage of a call, or on to the next call.
LEMMA GotoKeeps ==
  ASSUME LocalInv, UNCHANGED <<setup, layout, run>>,
         NEW r \in Active, NEW ph, Goto(r, ph), call[r] \in 1 .. n_calls, StageIn(r, call[r], ph)
  PROVE  /\ \A q \in Ranks : Stage(q)'
         /\ DOMAIN phase' = Ranks
         /\ call' = call /\ phase'[r] = ph /\ \A q \in Ranks \ {r} : phase'[q] = phase[q]
         /\ Now(r)' = 4 * call[r] + Level(ph) /\ Now(r)' \in Nat
         /\ \A q \in Ranks \ {r} : Now(q)' = Now(q) /\ Now(q) \in Nat
<1>1. DOMAIN phase = Ranks /\ r \in Ranks /\ \A q \in Ranks : call[q] \in Nat
  BY ConfigOK DEF LocalInv, RankTyped
<1>2. /\ DOMAIN phase' = Ranks /\ call' = call
      /\ phase'[r] = ph /\ \A q \in Ranks \ {r} : phase'[q] = phase[q]
  BY <1>1 DEF Goto
<1>3. ASSUME NEW q \in Ranks PROVE Stage(q)'
  <2>1. Stage(q)
    BY DEF LocalInv
  <2>2. CASE q = r
    BY <1>2, <2>2, Frame DEF Stage
  <2>3. CASE q # r
    BY <1>2, <2>1, <2>3, Frame DEF Stage
  <2> QED BY <2>2, <2>3
<1>4. Now(r)' = 4 * call[r] + Level(ph)
  BY <1>2 DEF Now, Level
<1>5. Level(ph) \in {0, 1, 2}
  BY DEF Level
<1>6. \A q \in Ranks \ {r} : Now(q)' = Now(q)
  BY <1>2 DEF Now, Level
<1>7. \A q \in Ranks : Now(q) \in Nat
  BY NowType DEF LocalInv
<1>8. Now(r)' \in Nat
  BY <1>1, <1>4, <1>5
<1> QED BY <1>2, <1>3, <1>4, <1>6, <1>7, <1>8

LEMMA ReturnKeeps ==
  ASSUME LocalInv, UNCHANGED <<setup, layout, run>>,
         NEW r \in Active, Return(r), call[r] \in 1 .. n_calls
  PROVE  /\ \A q \in Ranks : Stage(q)'
         /\ DOMAIN phase' = Ranks
         /\ call' \in [Ranks -> Nat] /\ \A q \in Ranks : call'[q] \in 1 .. n_calls + 1
         /\ call'[r] = call[r] + 1 /\ phase'[r] = "start"
         /\ \A q \in Ranks \ {r} : phase'[q] = phase[q] /\ call'[q] = call[q]
         /\ Now(r)' = 4 * call[r] + 4 /\ Now(r)' \in Nat
         /\ \A q \in Ranks \ {r} : Now(q)' = Now(q) /\ Now(q) \in Nat
<1>1. /\ DOMAIN phase = Ranks /\ r \in Ranks /\ n_calls \in Nat
      /\ call \in [Ranks -> Nat] /\ \A q \in Ranks : call[q] \in 1 .. n_calls + 1
  BY ConfigOK DEF LocalInv, RankTyped
<1>2. /\ DOMAIN phase' = Ranks
      /\ phase'[r] = "start" /\ \A q \in Ranks \ {r} : phase'[q] = phase[q]
      /\ call' = [call EXCEPT ![r] = call[r] + 1]
  BY <1>1 DEF Return
<1>3. /\ call' \in [Ranks -> Nat]
      /\ call'[r] = call[r] + 1 /\ \A q \in Ranks \ {r} : call'[q] = call[q]
  BY <1>1, <1>2
<1>4. \A q \in Ranks : call'[q] \in 1 .. n_calls + 1
  BY <1>1, <1>3
<1>5. ASSUME NEW q \in Ranks PROVE Stage(q)'
  <2>1. Stage(q)
    BY DEF LocalInv
  <2>2. CASE q = r
    BY <1>2, <2>2 DEF Stage
  <2>3. CASE q # r
    BY <1>2, <1>3, <2>1, <2>3, Frame DEF Stage
  <2> QED BY <2>2, <2>3
<1>6. Now(r)' = 4 * (call[r] + 1) + 0
  BY <1>2, <1>3 DEF Now, Level
<1>7. \A q \in Ranks \ {r} : Now(q)' = Now(q)
  BY <1>2, <1>3 DEF Now, Level
<1>8. \A q \in Ranks : Now(q) \in Nat
  BY NowType DEF LocalInv
<1>9. Now(r)' = 4 * call[r] + 4 /\ Now(r)' \in Nat
  BY <1>1, <1>6
<1> QED BY <1>2, <1>3, <1>4, <1>5, <1>7, <1>8, <1>9

\* A step that moves no rank to other collective messages, nor touches these.
LEMMA TransitKept ==
  ASSUME InTransit, UNCHANGED <<setup, layout, run, coll>>, \A q \in Ranks : Now(q)' = Now(q)
  PROVE  InTransit'
<1>1. \A p, q : Due(p, q)' = Due(p, q)
  BY DEF Due, SentFirst, SentInside, SentLast, Kind, Place, LastRank, n_ranks, Active, n_calls,
         Serialized, method, writing
<1>2. \A p, u, m : Says(p, u, m)' = Says(p, u, m)
  BY DEF Says, Kind, Place, CountIn, End, Start, Step, n_calls, writing
<1>3. \A p, D, a, b, ch : Carried(p, D, a, b, ch)' = Carried(p, D, a, b, ch)
  BY <1>2 DEF Carried
<1> QED BY <1>1, <1>3 DEF InTransit

LEMMA StayKeeps ==
  ASSUME LocalInv, UNCHANGED <<setup, layout, run, call, phase, coll>>
  PROVE  /\ \A q \in Ranks : Stage(q)'
         /\ InTransit'
<1>1. ASSUME NEW q \in Ranks PROVE Stage(q)'
  BY Frame DEF LocalInv, Stage
<1>2. \A q \in Ranks : Now(q)' = Now(q)
  BY DEF Now, Level
<1> QED BY <1>1, <1>2, TransitKept DEF LocalInv

\* Positions after a step of rank r.
LEMMA PositionsKept ==
  ASSUME LocalInv, UNCHANGED <<setup, layout, run>>, NEW r \in Ranks,
         \A q \in Ranks \ {r} : /\ offset'[q] = offset[q] /\ told'[q] = told[q]
                                /\ call'[q] = call[q] /\ phase'[q] = phase[q],
         offset'[r] = Place(call'[r]), phase'[r] = "pad" => told'[r] = Place(call'[r]),
         method = "serial" => pos'[0] = Place(call'[0]) + Progress'
  PROVE  PositionsOK'
<1>1. Active \subseteq Ranks
  BY ConfigOK DEF LocalInv, RankTyped
<1>2. ASSUME NEW q \in Active
      PROVE  offset'[q] = Place(call'[q]) /\ (phase'[q] = "pad" => told'[q] = Place(call'[q]))
  <2>1. CASE q = r
    BY <2>1
  <2>2. CASE q # r
    BY <1>1, <2>2 DEF LocalInv, PositionsOK
  <2> QED BY <2>1, <2>2
<1>3. \A c : Place(c) = layout'.places[c]
  BY DEF Place
<1> QED BY <1>2, <1>3, Frame DEF PositionsOK, Place

\* A step of another rank than 0 leaves the serializer alone.
LEMMA OthersKeep ==
  ASSUME LocalInv, UNCHANGED <<setup, layout, run, ser>>,
         phase'[0] = phase[0], call'[0] = call[0], pos'[0] = pos[0]
  PROVE  /\ SerializerOK'
         /\ Progress' = Progress
         /\ method = "serial" => pos'[0] = Place(call'[0]) + Progress'
<1>1. SerializerOK'
  BY Frame DEF LocalInv, SerializerOK
<1>2. Progress' = Progress
  BY Frame DEF Progress
<1> QED BY <1>1, <1>2 DEF LocalInv, PositionsOK

\* The messages after a step that goes on from a stage of a call, past stages at which
\* nothing is due.
LEMMA CollMoves ==
  ASSUME LocalInv, UNCHANGED <<setup, layout, run>>, NEW r \in Active,
         NEW c \in 1 .. n_calls, NEW i \in 0 .. 3, NEW j \in 0 .. 4, i < j,
         Now(r) = 4 * c + i, Now(r)' = 4 * c + j,
         \A q \in Ranks \ {r} : Now(q)' = Now(q) /\ Now(q) \in Nat,
         \A p, q \in Active : /\ i < 1 /\ 1 < j => ~SentInside(p, q, c)
                              /\ i < 2 /\ 2 < j => ~SentLast(p, q, c),
         CollStep(r, Now(r))
  PROVE  InTransit'
<1> DEFINE e == 4 * c + j
<1>1. r \in Ranks /\ e \in Nat /\ Now(r) \in Nat /\ Now(r)' = e /\ Now(r) < e
  <2>1. r \in Ranks
    BY ConfigOK DEF LocalInv, RankTyped
  <2>2. 4 * c + i \in Nat /\ e \in Nat /\ 4 * c + i < e
    OBVIOUS
  <2> QED BY <2>1, <2>2
<1>2. ASSUME NEW p \in Ranks, NEW q \in Ranks, NEW t \in Due(p, q), Now(r) <= t, t < e
      PROVE  t = Now(r)
  <2>1. p \in Active /\ q \in Active
    BY DEF Due
  <2>2. \A u \in Due(p, q) : 4 * c + i <= u /\ u < 4 * c + j => u = 4 * c + i
    BY <2>1, DueBetween
  <2> QED BY <1>2, <2>2
<1> HIDE DEF e
<1> QED BY <1>1, <1>2, CollKept DEF LocalInv

\* A broadcast, or a scatter, from a root.
LEMMA Broadcast ==
  ASSUME LocalInv, NEW root \in Active, NEW r \in Active, NEW m,
         \A p, q \in Active : Now(r) \in Due(p, q) <=> p = root /\ q # root,
         coll' = IF r = root THEN FromRoot(root, m) ELSE Taken(coll, root, r),
         r # root => Arrived(coll, root, r),
         r = root => \A q \in Active : Says(root, Now(r), m[q])
  PROVE  /\ CollStep(r, Now(r))
         /\ DOMAIN coll' = Ranks \X Ranks
         /\ r # root => Says(root, Now(r), Head(coll[<<root, r>>]))
<1> DEFINE t == Now(r)
<1>1. /\ DOMAIN coll = Ranks \X Ranks /\ r \in Ranks /\ root \in Ranks /\ Active \subseteq Ranks
      /\ \A q \in Ranks : Now(q) \in Nat
  BY ConfigOK, NowType DEF LocalInv, RankTyped
<1>2. \A p, q : t \in Due(p, q) => p \in Active /\ q \in Active
  BY DEF Due
<1>3. \A p, q \in Ranks : t \in Due(p, q) <=> p = root /\ q \in Active \ {root}
  BY <1>1, <1>2
<1>4. DOMAIN coll' = Ranks \X Ranks
  BY <1>1 DEF FromRoot, Taken
<1>5. CASE r = root
  <2>1. \A q \in Ranks : t \in Due(r, q) <=> q \in Active \ {r}
    BY <1>1, <1>3, <1>5
  <2>2. \A p \in Ranks : t \notin Due(p, r)
    BY <1>1, <1>3, <1>5
  <2>3. coll' = FromRoot(r, m) /\ \A q \in Active \ {r} : Says(r, t, m[q])
    BY <1>5
  <2> HIDE DEF t
  <2>4. CollStep(r, t)
    BY <1>1, <2>1, <2>2, <2>3, StepFromRoot
  <2> QED BY <1>4, <1>5, <2>4 DEF t
<1>6. CASE r # root
  <2>1. \A p \in Ranks : t \in Due(p, r) <=> p = root
    BY <1>1, <1>3, <1>6
  <2>2. \A q \in Ranks : t \notin Due(r, q)
    BY <1>1, <1>3, <1>6
  <2>3. coll' = Taken(coll, root, r) /\ Arrived(coll, root, r)
    BY <1>6
  <2>4. Says(root, Now(r), Head(coll[<<root, r>>]))
    BY <1>1, <2>1, <2>3, TakenSays DEF LocalInv
  <2> HIDE DEF t
  <2>5. CollStep(r, t)
    BY <1>1, <1>6, <2>1, <2>2, <2>3, StepTake
  <2> QED BY <1>4, <2>4, <2>5 DEF t
<1> QED BY <1>5, <1>6

\* A broadcast from rank 0 at the first stage of a call.
LEMMA FirstBroadcast ==
  ASSUME NEW c \in 1 .. n_calls, setup \in Setups, run \in {1, 2},
         Kind(c) = "align" \/ (Kind(c) = "global" /\ (writing => setup.calls[c].n # 0))
  PROVE  \A p, q \in Active : /\ 4 * c \in Due(p, q) <=> p = 0 /\ q # 0
                              /\ ~SentInside(p, q, c)
                              /\ Kind(c) = "global" => ~SentLast(p, q, c)
  BY DueAt DEF SentFirst, SentInside, SentLast

\* The types after a step.
LEMMA TypedKept ==
  ASSUME LocalInv, UNCHANGED <<setup, layout, run>>,
         call' \in [Ranks -> Nat], \A q \in Ranks : call'[q] \in 1 .. n_calls + 1,
         DOMAIN phase' = Ranks,
         offset' \in [Ranks -> Nat], told' \in [Ranks -> Nat],
         pos' \in [Ranks -> Nat \cup {-1}],
         DOMAIN coll' = Ranks \X Ranks, DOMAIN mail' = Ranks \X Ranks
  PROVE  RankTyped'
<1>1. n_calls' = n_calls
  BY Frame
<1>2. Described'
  BY DEF LocalInv, RankTyped, Described, Placing
<1>3. setup' \in Setups /\ run' \in {1, 2} /\ \A q \in Ranks : call'[q] \in 1 .. n_calls' + 1
  BY <1>1 DEF LocalInv, RankTyped
<1> QED BY <1>2, <1>3 DEF RankTyped

LEMMA TellKeeps ==
  ASSUME LocalInv, NEW r \in Ranks, Tell(r)
  PROVE  LocalInv'
<1> DEFINE c == call[r]  m == [q \in Active |-> Position]
<1>1. UNCHANGED <<setup, layout, run, offset, pos, ser, mail>> /\ In(r, "align", "start")
  BY DEF Tell
<1>2. /\ r \in Active /\ c \in 1 .. n_calls /\ Kind(c) = "align" /\ phase[r] = "start"
      /\ Now(r) = 4 * c + 0 /\ offset[r] = Place(c) /\ Place(c) \in Nat
  BY <1>1, InCall DEF Level
<1>3. Goto(r, "pad")
  BY DEF Tell
<1>4. StageIn(r, c, "pad")
  BY <1>2 DEF StageIn
<1>5. /\ \A q \in Ranks : Stage(q)'
      /\ DOMAIN phase' = Ranks
      /\ call' = call /\ phase'[r] = "pad" /\ \A q \in Ranks \ {r} : phase'[q] = phase[q]
      /\ Now(r)' = 4 * c + 2
      /\ \A q \in Ranks \ {r} : Now(q)' = Now(q) /\ Now(q) \in Nat
  <2>1. Level("pad") = 2
    BY DEF Level
  <2> QED BY <1>1, <1>2, <1>3, <1>4, <2>1, GotoKeeps
<1>6. 0 \in Active /\ setup \in Setups /\ run \in {1, 2}
  BY ConfigOK DEF LocalInv, RankTyped
<1>7. \A p, q \in Active : /\ Now(r) \in Due(p, q) <=> p = 0 /\ q # 0
                           /\ ~SentInside(p, q, c)
  <2>1. Now(r) = 4 * c
    BY <1>2
  <2> QED BY <1>2, <1>6, <2>1, FirstBroadcast
<1>8. r = 0 => Position = Place(c)
  <2>1. r = 0 => Progress = 0
    BY <1>2 DEF Progress
  <2> QED BY <1>2, <2>1 DEF Position, LocalInv, PositionsOK
<1>9. \A x : Says(0, Now(r), x) <=> x = Place(c)
  <2>1. Now(r) = 4 * c
    BY <1>2
  <2> QED BY <1>2, <2>1, SaysAt
<1>10. coll' = IF r = 0 THEN FromRoot(0, m) ELSE Taken(coll, 0, r)
  BY DEF Tell
<1>11. r # 0 => Arrived(coll, 0, r)
  BY DEF Tell
<1>12. /\ CollStep(r, Now(r)) /\ DOMAIN coll' = Ranks \X Ranks
       /\ r # 0 => Says(0, Now(r), Head(coll[<<0, r>>]))
  <2>1. r = 0 => \A q \in Active : Says(0, Now(r), m[q])
    BY <1>8, <1>9
  <2> HIDE DEF m
  <2> QED BY <1>2, <1>6, <1>7, <1>10, <1>11, <2>1, Broadcast
<1>13. InTransit'
  <2> HIDE DEF c
  <2> QED BY <1>1, <1>2, <1>5, <1>7, <1>12, CollMoves
<1>14. told' = [told EXCEPT ![r] = Place(c)]
  BY <1>8, <1>9, <1>12 DEF Tell
<1>15. told \in [Ranks -> Nat]
  BY DEF LocalInv, RankTyped
<1>16. RankTyped'
  <2>1. told' \in [Ranks -> Nat]
    BY <1>2, <1>14, <1>15
  <2> QED BY <1>1, <1>5, <1>12, <2>1, TypedKept DEF LocalInv, RankTyped
<1>17. SerializerOK' /\ (method = "serial" => pos'[0] = Place(call'[0]) + Progress')
  <2>1. CASE r = 0
    <3>1. phase'[0] = "pad" /\ phase[0] = "start"
      BY <1>2, <1>5, <2>1
    <3>2. SerializerOK'
      BY <1>1, <3>1 DEF LocalInv, SerializerOK
    <3>3. Progress' = 0 /\ Progress = 0
      BY <3>1 DEF Progress
    <3>4. method = "serial" => pos[0] = Place(call[0]) + 0
      BY <3>3 DEF LocalInv, PositionsOK
    <3> QED BY <1>1, <1>5, <3>2, <3>3, <3>4
  <2>2. CASE r # 0
    <3>1. phase'[0] = phase[0]
      BY <1>5, <1>6, <2>2, ConfigOK
    <3> QED BY <1>1, <1>5, <3>1, OthersKeep
  <2> QED BY <2>1, <2>2
<1>18. PositionsOK'
  <2>1. offset'[r] = Place(call'[r]) /\ told'[r] = Place(call'[r])
    BY <1>1, <1>2, <1>5, <1>14, <1>15
  <2>2. \A q \in Ranks \ {r} : /\ offset'[q] = offset[q] /\ told'[q] = told[q]
                               /\ call'[q] = call[q] /\ phase'[q] = phase[q]
    BY <1>1, <1>5, <1>14, <1>15
  <2> QED BY <1>1, <1>17, <2>1, <2>2, PositionsKept
<1> QED BY <1>5, <1>13, <1>16, <1>17, <1>18 DEF LocalInv


-----------------------------------------------------------------------------
\* A step with which a rank goes on in its call, one that ends the call, and one that
\* leaves the rank at a stage where the same collective messages are due.
LEMMA GoneOn ==
  ASSUME LocalInv, UNCHANGED <<setup, layout, run, offset>>, NEW r \in Active, NEW ph,
         Goto(r, ph), call[r] \in 1 .. n_calls, StageIn(r, call[r], ph),
         Level(phase[r]) < Level(ph),
         \A p, q \in Active : Level(phase[r]) < 1 /\ 1 < Level(ph) => ~SentInside(p, q, call[r]),
         CollStep(r, Now(r)), DOMAIN coll' = Ranks \X Ranks, DOMAIN mail' = Ranks \X Ranks,
         told' \in [Ranks -> Nat], \A q \in Ranks \ {r} : told'[q] = told[q],
         ph = "pad" => told'[r] = Place(call[r]),
         pos' \in [Ranks -> Nat \cup {-1}],
         SerializerOK', method = "serial" => pos'[0] = Place(call'[0]) + Progress'
  PROVE  LocalInv'
<1>1. /\ \A q \in Ranks : Stage(q)'
      /\ DOMAIN phase' = Ranks
      /\ call' = call /\ phase'[r] = ph /\ \A q \in Ranks \ {r} : phase'[q] = phase[q]
      /\ Now(r)' = 4 * call[r] + Level(ph)
      /\ \A q \in Ranks \ {r} : Now(q)' = Now(q) /\ Now(q) \in Nat
  BY GotoKeeps
<1>2. /\ r \in Ranks /\ offset[r] = Place(call[r])
      /\ call \in [Ranks -> Nat] /\ \A q \in Ranks : call[q] \in 1 .. n_calls + 1
      /\ offset \in [Ranks -> Nat]
  BY ConfigOK DEF LocalInv, RankTyped, PositionsOK
<1> DEFINE c == call[r]  i == Level(phase[r])  j == Level(ph)
<1>3. i \in 0 .. 3 /\ j \in 0 .. 4 /\ j < 3 /\ i < j /\ c \in 1 .. n_calls
  BY DEF Level
<1>4. Now(r) = 4 * c + i /\ Now(r)' = 4 * c + j
  BY <1>1 DEF Now
<1>5. \A p, q \in Active : /\ i < 1 /\ 1 < j => ~SentInside(p, q, c)
                           /\ i < 2 /\ 2 < j => ~SentLast(p, q, c)
  BY <1>3
<1>6. InTransit'
  <2> HIDE DEF c, i, j
  <2> QED BY <1>1, <1>3, <1>4, <1>5, CollMoves
<1>7. RankTyped'
  BY <1>1, <1>2, TypedKept
<1>8. PositionsOK'
  <2>1. offset'[r] = Place(call'[r]) /\ (phase'[r] = "pad" => told'[r] = Place(call'[r]))
    BY <1>1, <1>2
  <2>2. \A q \in Ranks \ {r} : /\ offset'[q] = offset[q] /\ told'[q] = told[q]
                               /\ call'[q] = call[q] /\ phase'[q] = phase[q]
    BY <1>1
  <2> QED BY <1>2, <2>1, <2>2, PositionsKept
<1> QED BY <1>1, <1>6, <1>7, <1>8 DEF LocalInv

LEMMA CallDone ==
  ASSUME LocalInv, UNCHANGED <<setup, layout, run, told>>, NEW r \in Active,
         Return(r), call[r] \in 1 .. n_calls,
         \A p, q \in Active : /\ Level(phase[r]) < 1 => ~SentInside(p, q, call[r])
                              /\ Level(phase[r]) < 2 => ~SentLast(p, q, call[r]),
         CollStep(r, Now(r)), DOMAIN coll' = Ranks \X Ranks, DOMAIN mail' = Ranks \X Ranks,
         offset' \in [Ranks -> Nat], \A q \in Ranks \ {r} : offset'[q] = offset[q],
         offset'[r] = Place(call[r] + 1),
         pos' \in [Ranks -> Nat \cup {-1}],
         SerializerOK', method = "serial" => pos'[0] = Place(call'[0]) + Progress'
  PROVE  LocalInv'
<1>1. /\ \A q \in Ranks : Stage(q)'
      /\ DOMAIN phase' = Ranks
      /\ call' \in [Ranks -> Nat] /\ \A q \in Ranks : call'[q] \in 1 .. n_calls + 1
      /\ call'[r] = call[r] + 1 /\ phase'[r] = "start"
      /\ \A q \in Ranks \ {r} : phase'[q] = phase[q] /\ call'[q] = call[q]
      /\ Now(r)' = 4 * call[r] + 4
      /\ \A q \in Ranks \ {r} : Now(q)' = Now(q) /\ Now(q) \in Nat
  BY ReturnKeeps
<1>2. r \in Ranks /\ told \in [Ranks -> Nat]
  BY ConfigOK DEF LocalInv, RankTyped
<1> DEFINE c == call[r]  i == Level(phase[r])
<1>3. i \in 0 .. 3 /\ i < 4 /\ c \in 1 .. n_calls /\ 4 \in 0 .. 4
  BY DEF Level
<1>4. Now(r) = 4 * c + i /\ Now(r)' = 4 * c + 4
  BY <1>1 DEF Now
<1>5. \A p, q \in Active : /\ i < 1 /\ 1 < 4 => ~SentInside(p, q, c)
                           /\ i < 2 /\ 2 < 4 => ~SentLast(p, q, c)
  BY <1>3
<1>6. InTransit'
  <2> HIDE DEF c, i
  <2> QED BY <1>1, <1>3, <1>4, <1>5, CollMoves
<1>7. RankTyped'
  BY <1>1, <1>2, TypedKept
<1>8. PositionsOK'
  <2>1. offset'[r] = Place(call'[r]) /\ (phase'[r] = "pad" => told'[r] = Place(call'[r]))
    BY <1>1
  <2>2. \A q \in Ranks \ {r} : /\ offset'[q] = offset[q] /\ told'[q] = told[q]
                               /\ call'[q] = call[q] /\ phase'[q] = phase[q]
    BY <1>1
  <2> QED BY <1>2, <2>1, <2>2, PositionsKept
<1> QED BY <1>1, <1>6, <1>7, <1>8 DEF LocalInv

LEMMA SameLevel ==
  ASSUME LocalInv, UNCHANGED <<setup, layout, run, offset, told, coll>>, NEW r \in Active, NEW ph,
         Goto(r, ph), call[r] \in 1 .. n_calls, StageIn(r, call[r], ph), ph # "pad",
         Level(phase[r]) = Level(ph),
         DOMAIN mail' = Ranks \X Ranks, pos' \in [Ranks -> Nat \cup {-1}],
         SerializerOK', method = "serial" => pos'[0] = Place(call'[0]) + Progress'
  PROVE  LocalInv'
<1>1. /\ \A q \in Ranks : Stage(q)'
      /\ DOMAIN phase' = Ranks
      /\ call' = call /\ phase'[r] = ph /\ \A q \in Ranks \ {r} : phase'[q] = phase[q]
      /\ Now(r)' = 4 * call[r] + Level(ph)
      /\ \A q \in Ranks \ {r} : Now(q)' = Now(q) /\ Now(q) \in Nat
  BY GotoKeeps
<1>2. /\ r \in Ranks /\ offset[r] = Place(call[r])
      /\ call \in [Ranks -> Nat] /\ \A q \in Ranks : call[q] \in 1 .. n_calls + 1
      /\ offset \in [Ranks -> Nat] /\ told \in [Ranks -> Nat] /\ DOMAIN coll = Ranks \X Ranks
  BY ConfigOK DEF LocalInv, RankTyped, PositionsOK
<1>3. \A q \in Ranks : Now(q)' = Now(q)
  BY <1>1 DEF Now
<1>4. InTransit'
  BY <1>3, TransitKept DEF LocalInv
<1>5. RankTyped'
  BY <1>1, <1>2, TypedKept
<1>6. PositionsOK'
  <2>1. offset'[r] = Place(call'[r]) /\ phase'[r] # "pad"
    BY <1>1, <1>2
  <2>2. \A q \in Ranks \ {r} : /\ offset'[q] = offset[q] /\ told'[q] = told[q]
                               /\ call'[q] = call[q] /\ phase'[q] = phase[q]
    BY <1>1
  <2> QED BY <1>2, <2>1, <2>2, PositionsKept
<1> QED BY <1>1, <1>4, <1>5, <1>6 DEF LocalInv

LEMMA SamePlace ==
  ASSUME LocalInv, UNCHANGED <<setup, layout, run, call, phase, offset, told, coll>>,
         DOMAIN mail' = Ranks \X Ranks, pos' \in [Ranks -> Nat \cup {-1}],
         SerializerOK', method = "serial" => pos'[0] = Place(call'[0]) + Progress'
  PROVE  LocalInv'
<1>1. (\A q \in Ranks : Stage(q)') /\ InTransit'
  BY StayKeeps
<1>2. RankTyped'
  BY TypedKept DEF LocalInv, RankTyped
<1>3. PositionsOK'
  <2>1. \A q \in Active : /\ offset'[q] = Place(call'[q])
                          /\ phase'[q] = "pad" => told'[q] = Place(call'[q])
    BY DEF LocalInv, PositionsOK
  <2>2. \A c : Place(c) = layout'.places[c]
    BY DEF Place
  <2> QED BY <2>1, <2>2, Frame DEF PositionsOK, Place
<1> QED BY <1>1, <1>2, <1>3 DEF LocalInv

LEMMA NothingMoves ==
  ASSUME LocalInv,
         UNCHANGED <<setup, layout, run, call, phase, offset, told, coll, mail, pos, ser>>
  PROVE  LocalInv'
<1>1. SerializerOK' /\ (method = "serial" => pos'[0] = Place(call'[0]) + Progress')
  BY OthersKeep
<1>2. DOMAIN mail' = Ranks \X Ranks /\ pos' \in [Ranks -> Nat \cup {-1}]
  BY DEF LocalInv, RankTyped
<1> QED BY <1>1, <1>2, SamePlace

-----------------------------------------------------------------------------
\* The stream of rank 0 when a rank ends a call.
LEMMA StreamAtReturn ==
  ASSUME LocalInv, UNCHANGED <<setup, layout, run, ser>>, NEW r \in Active,
         Return(r), call[r] \in 1 .. n_calls,
         r = 0 /\ method = "serial" => pos'[0] = Place(call[0] + 1),
         r # 0 => pos'[0] = pos[0]
  PROVE  SerializerOK' /\ (method = "serial" => pos'[0] = Place(call'[0]) + Progress')
<1>1. /\ call'[r] = call[r] + 1 /\ phase'[r] = "start"
      /\ \A q \in Ranks \ {r} : phase'[q] = phase[q] /\ call'[q] = call[q]
  BY ReturnKeeps
<1>2. 0 \in Ranks /\ call[0] \in 1 .. n_calls + 1 /\ n_calls \in Nat
  BY ConfigOK DEF LocalInv, RankTyped
<1>3. CASE r = 0
  <2>1. phase'[0] = "start" /\ call'[0] = call[0] + 1
    BY <1>1, <1>3
  <2>2. SerializerOK' /\ Progress' = 0
    BY <2>1 DEF LocalInv, SerializerOK, Progress
  <2>3. Place(call[0] + 1) \in Nat
    BY <1>2, <1>3, PlacesOK DEF LocalInv
  <2> QED BY <1>3, <2>1, <2>2, <2>3
<1>4. CASE r # 0
  <2>1. phase'[0] = phase[0] /\ call'[0] = call[0] /\ pos'[0] = pos[0]
    BY <1>1, <1>2, <1>4
  <2> QED BY <2>1, OthersKeep
<1> QED BY <1>3, <1>4

\* The padding of a call, and where it ends.
LEMMA PadAt ==
  ASSUME LocalInv, NEW r \in Ranks, In(r, "align", "pad")
  PROVE  /\ told[r] = Place(call[r])
         /\ Padding(told[r], Op(r).to) \in Nat
         /\ Place(call[r] + 1) = Place(call[r]) + Padding(told[r], Op(r).to)
<1>1. /\ r \in Active /\ phase[r] = "pad" /\ Op(r).op = "align" /\ Op(r) \in Operations
      /\ Place(call[r]) \in Nat
      /\ Place(call[r] + 1) = Place(call[r]) + Length(Op(r), Place(call[r]))
  BY InCall DEF In
<1>2. told[r] = Place(call[r])
  BY <1>1 DEF LocalInv, PositionsOK
<1>3. Op(r).to \in Nat \ {0}
  BY <1>1 DEF Operations
<1>4. Length(Op(r), Place(call[r])) = Padding(Place(call[r]), Op(r).to)
  BY <1>1 DEF Length
<1>5. Padding(Place(call[r]), Op(r).to) \in Nat
  BY <1>1, <1>3, PaddingOK
<1> QED BY <1>1, <1>2, <1>4, <1>5

LEMMA SeekKeeps ==
  ASSUME LocalInv, NEW r \in Ranks, Seek(r)
  PROVE  LocalInv'
<1> DEFINE c == call[r]  add == Padding(told[r], Op(r).to)
           To(n) == IF Op(r).header THEN n + add ELSE told[r] + add
<1>1. /\ UNCHANGED <<setup, layout, run, told, ser, mail, coll>> /\ In(r, "align", "pad")
      /\ ~writing /\ Return(r)
      /\ offset' = [offset EXCEPT ![r] = To(offset[r])]
      /\ pos' = [pos EXCEPT ![r] = IF pos[r] = -1 THEN -1 ELSE To(pos[r])]
  BY DEF Seek
<1>2. /\ r \in Active /\ c \in 1 .. n_calls /\ Kind(c) = "align" /\ phase[r] = "pad"
      /\ Now(r) = 4 * c + 2 /\ offset[r] = Place(c) /\ Place(c) \in Nat
  BY <1>1, InCall DEF Level
<1>3. told[r] = Place(c) /\ add \in Nat /\ Place(c + 1) = Place(c) + add
  BY <1>1, PadAt
<1>4. /\ offset \in [Ranks -> Nat] /\ pos \in [Ranks -> Nat \cup {-1}]
      /\ DOMAIN coll = Ranks \X Ranks /\ DOMAIN mail = Ranks \X Ranks
      /\ setup \in Setups /\ run \in {1, 2}
  BY DEF LocalInv, RankTyped
<1>5. \A n \in Nat : To(n) \in Nat
  BY <1>2, <1>3
<1>6. To(Place(c)) = Place(c + 1)
  BY <1>3
<1> HIDE DEF add, To
<1>7. /\ offset' \in [Ranks -> Nat] /\ offset'[r] = Place(c + 1)
      /\ \A q \in Ranks \ {r} : offset'[q] = offset[q]
  <2>1. offset' = [offset EXCEPT ![r] = Place(c + 1)] /\ Place(c + 1) \in Nat
    BY <1>1, <1>2, <1>5, <1>6
  <2> QED BY <1>4, <2>1
<1>8. pos' \in [Ranks -> Nat \cup {-1}]
  BY <1>1, <1>4, <1>5
<1>9. CollStep(r, Now(r))
  <2>1. \A p, q : Now(r) \in Due(p, q) => p \in Active /\ q \in Active
    BY DEF Due
  <2>2. \A p, q \in Active : Now(r) \notin Due(p, q)
    <3>1. \A p, q \in Active : ~SentLast(p, q, c)
      BY <1>1, <1>2 DEF SentLast
    <3> QED BY <1>2, <3>1, DueAt
  <2> QED BY <1>1, <2>1, <2>2, StepNone
<1>10. \A p, q \in Active : /\ Level(phase[r]) < 1 => ~SentInside(p, q, c)
                            /\ Level(phase[r]) < 2 => ~SentLast(p, q, c)
  BY <1>2 DEF Level
<1>11. r = 0 /\ method = "serial" => pos'[0] = Place(call[0] + 1)
  <2> SUFFICES ASSUME r = 0, method = "serial" PROVE pos'[0] = Place(call[0] + 1)
    OBVIOUS
  <2>1. Progress = 0
    BY <1>2 DEF Progress
  <2>2. pos[0] = Place(c)
    BY <1>2, <2>1 DEF LocalInv, PositionsOK
  <2> QED BY <1>1, <1>2, <1>4, <1>6, <2>2
<1>12. r # 0 => pos'[0] = pos[0]
  BY <1>1
<1>13. SerializerOK' /\ (method = "serial" => pos'[0] = Place(call'[0]) + Progress')
  BY <1>1, <1>2, <1>11, <1>12, StreamAtReturn
<1> QED BY <1>1, <1>2, <1>4, <1>7, <1>8, <1>9, <1>10, <1>13, CallDone

\* A step of a collective operation at which nothing is due.
LEMMA NothingDue ==
  ASSUME NEW r, coll' = coll, \A p, q \in Active : Now(r) \notin Due(p, q)
  PROVE  CollStep(r, Now(r))
<1>1. \A p, q : Now(r) \in Due(p, q) => p \in Active /\ q \in Active
  BY DEF Due
<1> QED BY <1>1, StepNone

LEMMA WriteGlobalKeeps ==
  ASSUME LocalInv, NEW r \in Ranks, WriteGlobal(r)
  PROVE  LocalInv'
<1> DEFINE c == call[r]  n == GlobalSize(r)  m == [q \in Active |-> n]
<1>1. /\ UNCHANGED <<setup, layout, run, told, ser, mail>> /\ writing /\ Return(r)
      /\ In(r, "global", "start") \/ In(r, "align", "pad")
      /\ offset' = [offset EXCEPT ![r] = offset[r] + n]
      /\ n = 0 => UNCHANGED <<pos, coll>>
      /\ n # 0 /\ r = 0 => pos' = [pos EXCEPT ![r] = IF pos[r] = -1 THEN -1 ELSE pos[r] + n]
      /\ n # 0 /\ r # 0 => Arrived(coll, 0, r) /\ UNCHANGED pos
      /\ n # 0 => coll' = IF r = 0 THEN FromRoot(0, m) ELSE Taken(coll, 0, r)
  BY DEF WriteGlobal
<1>2. /\ r \in Active /\ c \in 1 .. n_calls /\ offset[r] = Place(c) /\ Place(c) \in Nat
      /\ phase[r] \in {"start", "pad"} /\ Kind(c) = Op(r).op
      /\ Now(r) = 4 * c + Level(phase[r]) /\ Op(r) = setup.calls[c]
  <2>1. PICK op, ph : In(r, op, ph) /\ ph \in {"start", "pad"}
    BY <1>1
  <2>2. phase[r] = ph /\ Kind(c) = op /\ Op(r).op = op
    BY <2>1, InCall DEF In
  <2> QED BY <2>1, <2>2, InCall
<1>3. n \in Nat /\ Place(c + 1) = Place(c) + n
  <2>1. CASE In(r, "global", "start")
    <3>1. /\ Op(r).op = "global" /\ Op(r) \in Operations
          /\ Place(c + 1) = Place(c) + Length(Op(r), Place(c))
      BY <2>1, InCall DEF In
    <3>2. Op(r).n \in Nat
      BY <3>1 DEF Operations
    <3> QED BY <3>1, <3>2 DEF GlobalSize, Length
  <2>2. CASE In(r, "align", "pad")
    <3>1. Op(r).op = "align"
      BY <2>2 DEF In
    <3> QED BY <2>2, <3>1, PadAt DEF GlobalSize
  <2> QED BY <1>1, <2>1, <2>2
<1>4. /\ offset \in [Ranks -> Nat] /\ pos \in [Ranks -> Nat \cup {-1}]
      /\ DOMAIN coll = Ranks \X Ranks /\ DOMAIN mail = Ranks \X Ranks
      /\ setup \in Setups /\ run \in {1, 2} /\ 0 \in Active
  BY ConfigOK DEF LocalInv, RankTyped
<1>5. \A p, q \in Active : /\ Now(r) \in Due(p, q) <=> n # 0 /\ p = 0 /\ q # 0
                           /\ Level(phase[r]) < 1 => ~SentInside(p, q, c)
                           /\ Level(phase[r]) < 2 => ~SentLast(p, q, c)
  <2>1. CASE In(r, "global", "start")
    <3>1. Kind(c) = "global" /\ phase[r] = "start" /\ Now(r) = 4 * c
      BY <1>2, <2>1 DEF In, Level
    <3>2. n = setup.calls[c].n
      BY <1>2, <3>1 DEF GlobalSize
    <3>3. \A p, q \in Active : /\ SentFirst(p, q, c) <=> n # 0 /\ p = 0 /\ q # 0
                               /\ ~SentInside(p, q, c) /\ ~SentLast(p, q, c)
      BY <1>1, <3>1, <3>2 DEF SentFirst, SentInside, SentLast
    <3> QED BY <1>2, <3>1, <3>3, DueAt
  <2>2. CASE In(r, "align", "pad")
    <3>1. Kind(c) = "align" /\ phase[r] = "pad" /\ Now(r) = 4 * c + 2 /\ Level(phase[r]) = 2
      BY <1>2, <2>2 DEF In, Level
    <3>2. n = Padding(Place(c), setup.calls[c].to)
      BY <1>2, <2>2, <3>1, PadAt DEF GlobalSize
    <3>3. \A p, q \in Active : SentLast(p, q, c) <=> n # 0 /\ p = 0 /\ q # 0
      BY <1>1, <3>1, <3>2 DEF SentLast
    <3> QED BY <1>2, <3>1, <3>3, DueAt
  <2> QED BY <1>1, <2>1, <2>2
<1>6. \A x : Says(0, Now(r), x)
  <2>1. CASE In(r, "global", "start")
    <3>1. Kind(c) = "global" /\ Now(r) = 4 * c /\ writing
      BY <1>1, <1>2, <2>1 DEF In, Level
    <3> QED BY <1>2, <3>1, SaysAt
  <2>2. CASE In(r, "align", "pad")
    <3>1. Kind(c) = "align" /\ Now(r) = 4 * c + 2
      BY <1>2, <2>2 DEF In, Level
    <3> QED BY <1>2, <3>1, SaysAt
  <2> QED BY <1>1, <2>1, <2>2
<1> HIDE DEF n
<1>7. CollStep(r, Now(r)) /\ DOMAIN coll' = Ranks \X Ranks
  <2>1. CASE n = 0
    BY <1>1, <1>4, <1>5, <2>1, NothingDue
  <2>2. CASE n # 0
    <3>1. coll' = IF r = 0 THEN FromRoot(0, m) ELSE Taken(coll, 0, r)
      BY <1>1, <2>2
    <3>2. \A p, q \in Active : Now(r) \in Due(p, q) <=> p = 0 /\ q # 0
      BY <1>5, <2>2
    <3>3. r # 0 => Arrived(coll, 0, r)
      BY <1>1, <2>2
    <3> HIDE DEF m
    <3> QED BY <1>2, <1>4, <1>6, <3>1, <3>2, <3>3, Broadcast
  <2> QED BY <2>1, <2>2
<1>8. /\ offset' \in [Ranks -> Nat] /\ offset'[r] = Place(c + 1)
      /\ \A q \in Ranks \ {r} : offset'[q] = offset[q]
  BY <1>1, <1>2, <1>3, <1>4
<1>9. pos' \in [Ranks -> Nat \cup {-1}] /\ (r # 0 => pos' = pos)
  BY <1>1, <1>3, <1>4
<1>10. r = 0 /\ method = "serial" => pos'[0] = Place(call[0] + 1)
  <2> SUFFICES ASSUME r = 0, method = "serial" PROVE pos'[0] = Place(call[0] + 1)
    OBVIOUS
  <2>1. Progress = 0
    BY <1>2 DEF Progress
  <2>2. pos[0] = Place(c)
    BY <1>2, <2>1 DEF LocalInv, PositionsOK
  <2> QED BY <1>1, <1>2, <1>3, <1>4, <2>2
<1>11. SerializerOK' /\ (method = "serial" => pos'[0] = Place(call'[0]) + Progress')
  BY <1>1, <1>2, <1>9, <1>10, StreamAtReturn
<1> QED BY <1>1, <1>2, <1>4, <1>5, <1>7, <1>8, <1>9, <1>11, CallDone

LEMMA ReadGlobalKeeps ==
  ASSUME LocalInv, NEW r \in Ranks, ReadGlobal(r),
         r = 0 => Get(offset[r], Op(r).n) = Values(call[r], 1, Op(r).n)
  PROVE  LocalInv'
<1> DEFINE c == call[r]  n == Op(r).n
           data == IF r = 0 THEN Get(offset[r], n) ELSE Head(coll[<<0, r>>])
           m == [q \in Active |-> data]
<1>1. ~writing /\ In(r, "global", "start") /\ (r # 0 => Arrived(coll, 0, r))
  BY DEF ReadGlobal
<1>2. /\ r \in Active /\ c \in 1 .. n_calls /\ offset[r] = Place(c) /\ Place(c) \in Nat
      /\ phase[r] = "start" /\ Kind(c) = "global" /\ Op(r) \in Operations
      /\ Now(r) = 4 * c + 0 /\ Op(r).op = "global"
      /\ Place(c + 1) = Place(c) + Length(Op(r), Place(c))
  BY <1>1, InCall DEF Level, In
<1>3. n \in Nat /\ Place(c + 1) = Place(c) + n
  BY <1>2 DEF Operations, Length
<1>4. /\ offset \in [Ranks -> Nat] /\ pos \in [Ranks -> Nat \cup {-1}]
      /\ DOMAIN coll = Ranks \X Ranks /\ DOMAIN mail = Ranks \X Ranks
      /\ setup \in Setups /\ run \in {1, 2} /\ 0 \in Active
  BY ConfigOK DEF LocalInv, RankTyped
<1>5. CASE r = 0 /\ Missing(offset[r], n)
  <2>1. UNCHANGED <<setup, layout, run, call, phase, offset, told, coll, mail, pos, ser>>
    BY <1>5 DEF ReadGlobal, Abort
  <2> QED BY <2>1, NothingMoves
<1>6. CASE ~(r = 0 /\ Missing(offset[r], n))
  <2>1. /\ UNCHANGED <<setup, layout, run, told, ser, mail>> /\ Return(r)
        /\ offset' = [offset EXCEPT ![r] = offset[r] + n]
        /\ pos' = [pos EXCEPT ![r] = IF pos[r] = -1 \/ r # 0 THEN pos[r] ELSE offset[r] + n]
        /\ coll' = IF r = 0 THEN FromRoot(0, m) ELSE Taken(coll, 0, r)
    BY <1>6 DEF ReadGlobal
  <2>2. Now(r) = 4 * c
    BY <1>2
  <2>3. \A p, q \in Active : /\ Now(r) \in Due(p, q) <=> p = 0 /\ q # 0
                             /\ ~SentInside(p, q, c) /\ ~SentLast(p, q, c)
    BY <1>1, <1>2, <1>4, <2>2, FirstBroadcast
  <2>4. r = 0 => \A q \in Active : Says(0, Now(r), m[q])
    <3> SUFFICES ASSUME r = 0, NEW q \in Active PROVE Says(0, Now(r), m[q])
      OBVIOUS
    <3>1. m[q] = Values(c, 1, setup.calls[c].n) /\ Kind(c) = "global"
      BY <1>2 DEF Op
    <3> HIDE DEF m
    <3> QED BY <1>2, <2>2, <3>1, SaysAt
  <2>5. CollStep(r, Now(r)) /\ DOMAIN coll' = Ranks \X Ranks
    <3> HIDE DEF m
    <3>1. /\ coll' = IF r = 0 THEN FromRoot(0, m) ELSE Taken(coll, 0, r)
          /\ r \in Active /\ 0 \in Active /\ (r # 0 => Arrived(coll, 0, r))
          /\ \A p, q \in Active : Now(r) \in Due(p, q) <=> p = 0 /\ q # 0
      BY <1>1, <1>2, <1>4, <2>1, <2>3
    <3> QED BY <2>4, <3>1, Broadcast
  <2> HIDE DEF n
  <2>6. /\ offset' \in [Ranks -> Nat] /\ offset'[r] = Place(c + 1)
        /\ \A q \in Ranks \ {r} : offset'[q] = offset[q]
    BY <1>2, <1>3, <1>4, <2>1
  <2>7. pos' \in [Ranks -> Nat \cup {-1}] /\ (r # 0 => pos'[0] = pos[0])
    BY <1>2, <1>3, <1>4, <2>1
  <2>8. r = 0 /\ method = "serial" => pos'[0] = Place(call[0] + 1)
    <3> SUFFICES ASSUME r = 0, method = "serial" PROVE pos'[0] = Place(call[0] + 1)
      OBVIOUS
    <3>1. Progress = 0
      BY <1>2 DEF Progress
    <3>2. pos[0] = Place(c)
      BY <1>2, <3>1 DEF LocalInv, PositionsOK
    <3> QED BY <1>2, <1>3, <1>4, <2>1, <3>2
  <2>9. SerializerOK' /\ (method = "serial" => pos'[0] = Place(call'[0]) + Progress')
    BY <1>2, <2>1, <2>7, <2>8, StreamAtReturn
  <2> QED BY <1>2, <1>4, <2>1, <2>3, <2>5, <2>6, <2>7, <2>9, CallDone
<1> QED BY <1>5, <1>6

-----------------------------------------------------------------------------
\* The end of a block, on all ranks.
LEMMA EndBlockKeeps ==
  ASSUME LocalInv, NEW r \in Ranks, EndBlock(r)
  PROVE  LocalInv'
<1> DEFINE c == call[r]  o == setup.calls[c]  m == [q \in Active |-> LastEnd(r)]
<1>1. /\ UNCHANGED <<setup, layout, run, told, ser, mail, pos>> /\ Return(r)
      /\ In(r, "block", "end")
      /\ r # LastRank => Arrived(coll, LastRank, r)
      /\ coll' = IF r = LastRank THEN FromRoot(LastRank, m) ELSE Taken(coll, LastRank, r)
      /\ offset' = [offset EXCEPT ![r] = offset[r] + (LastEnd(r) - 1) * Op(r).stride]
  BY DEF EndBlock, LastRank
<1>2. /\ r \in Active /\ c \in 1 .. n_calls /\ offset[r] = Place(c) /\ Place(c) \in Nat
      /\ phase[r] = "end" /\ Kind(c) = "block" /\ Op(r) = o /\ Op(r).op = "block"
      /\ Now(r) = 4 * c + 2
      /\ Place(c + 1) = Place(c) + Length(Op(r), Place(c))
  BY <1>1, InCall DEF Level, In
<1>3. /\ offset \in [Ranks -> Nat] /\ pos \in [Ranks -> Nat \cup {-1}]
      /\ DOMAIN coll = Ranks \X Ranks /\ DOMAIN mail = Ranks \X Ranks
      /\ setup \in Setups /\ run \in {1, 2} /\ 0 \in Active /\ LastRank \in Active
  BY ConfigOK DEF LocalInv, RankTyped
<1>4. /\ o.n \in Nat /\ o.stride \in Nat /\ End(run, LastRank, c) = o.n + 1
      /\ Upto(c, n_ranks) = o.n * o.stride /\ Upto(c, n_ranks) \in Nat
  <2>1. n_ranks \in Nat
    BY <1>3, ConfigOK
  <2> QED BY <1>2, <1>3, <2>1, BlockOK
<1>5. Place(c + 1) = Place(c) + o.n * o.stride
  BY <1>2 DEF Length
<1>6. \A p, q \in Active : Now(r) \in Due(p, q) <=> p = LastRank /\ q # LastRank
  <2>1. \A p, q \in Active : SentLast(p, q, c) <=> p = LastRank /\ q # LastRank
    BY <1>2 DEF SentLast
  <2> QED BY <1>2, <2>1, DueAt
<1>7. \A x : Says(LastRank, Now(r), x) <=> x = o.n + 1
  BY <1>2, <1>4, SaysAt
<1>8. r = LastRank => LastEnd(r) = o.n + 1
  BY <1>4 DEF LastEnd, LastRank
<1>9. /\ CollStep(r, Now(r)) /\ DOMAIN coll' = Ranks \X Ranks
      /\ r # LastRank => Says(LastRank, Now(r), Head(coll[<<LastRank, r>>]))
  <2>1. r = LastRank => \A q \in Active : Says(LastRank, Now(r), m[q])
    BY <1>7, <1>8
  <2> HIDE DEF m
  <2> QED BY <1>1, <1>2, <1>3, <1>6, <2>1, Broadcast
<1>10. LastEnd(r) = o.n + 1
  BY <1>7, <1>8, <1>9 DEF LastEnd, LastRank
<1>11. /\ offset' \in [Ranks -> Nat] /\ offset'[r] = Place(c + 1)
       /\ \A q \in Ranks \ {r} : offset'[q] = offset[q]
  <2>1. (o.n + 1) - 1 = o.n /\ o.n * o.stride \in Nat
    BY <1>4
  <2>2. (LastEnd(r) - 1) * Op(r).stride = o.n * o.stride
    BY <1>2, <1>10, <2>1
  <2>3. Place(c + 1) = offset[r] + (LastEnd(r) - 1) * Op(r).stride
    BY <1>2, <1>5, <2>2
  <2>4. offset' = [offset EXCEPT ![r] = Place(c + 1)] /\ Place(c + 1) \in Nat
    <3>1. Place(c + 1) \in Nat
      BY <1>2, <1>5, <2>1
    <3> QED BY <1>1, <2>3, <3>1
  <2> QED BY <1>3, <2>4
<1>12. \A p, q \in Active : /\ Level(phase[r]) < 1 => ~SentInside(p, q, c)
                            /\ Level(phase[r]) < 2 => ~SentLast(p, q, c)
  BY <1>2 DEF Level
<1>13. r = 0 /\ method = "serial" => pos'[0] = Place(call[0] + 1)
  <2> SUFFICES ASSUME r = 0, method = "serial" PROVE pos'[0] = Place(call[0] + 1)
    OBVIOUS
  <2>1. Progress = Upto(c, n_ranks)
    BY <1>2 DEF Progress
  <2> QED BY <1>1, <1>4, <1>5, <2>1 DEF LocalInv, PositionsOK
<1>14. SerializerOK' /\ (method = "serial" => pos'[0] = Place(call'[0]) + Progress')
  BY <1>1, <1>2, <1>13, StreamAtReturn
<1> QED BY <1>1, <1>2, <1>3, <1>9, <1>11, <1>12, <1>14, CallDone

-----------------------------------------------------------------------------
\* The counts of the ranks, on their way to rank 0 at the start of a serialized block.
LEMMA BlockStage ==
  ASSUME LocalInv, NEW r \in Ranks, NEW ph, In(r, "block", ph), Serialized
  PROVE  /\ r \in Active /\ call[r] \in 1 .. n_calls /\ Kind(call[r]) = "block"
         /\ phase[r] = ph /\ Now(r) = 4 * call[r] + Level(ph) /\ 0 \in Active
         /\ offset[r] = Place(call[r]) /\ Place(call[r]) \in Nat
         /\ method = "serial" /\ setup \in Setups /\ run \in {1, 2} /\ n_ranks \in Nat \ {0, 1}
         /\ \A p, q \in Active :
              /\ 4 * call[r] \in Due(p, q) <=> p # 0 /\ q = 0
              /\ 4 * call[r] + 1 \in Due(p, q) <=> writing /\ p = 0 /\ q # 0
              /\ SentInside(p, q, call[r]) <=> writing /\ p = 0 /\ q # 0
<1>1. /\ r \in Active /\ call[r] \in 1 .. n_calls /\ Kind(call[r]) = "block"
      /\ phase[r] = ph /\ Now(r) = 4 * call[r] + Level(ph)
      /\ offset[r] = Place(call[r]) /\ Place(call[r]) \in Nat
  BY InCall
<1>2. setup \in Setups /\ run \in {1, 2} /\ n_ranks \in Nat \ {0} /\ 0 \in Active
  BY ConfigOK DEF LocalInv, RankTyped
<1>3. method = "serial" /\ n_ranks > 1
  BY DEF Serialized
<1>4. \A p, q \in Active : /\ SentFirst(p, q, call[r]) <=> p # 0 /\ q = 0
                           /\ SentInside(p, q, call[r]) <=> writing /\ p = 0 /\ q # 0
  BY <1>1 DEF SentFirst, SentInside
<1> QED BY <1>1, <1>2, <1>3, <1>4, DueAt

LEMMA DepositKeeps ==
  ASSUME LocalInv, NEW r \in Ranks \ {0}, NEW full, NEW empty, Deposit(r, full, empty),
         In(r, "block", "start"), Serialized,
         StageIn(r, call[r], full), full # "pad", Level(full) = 1,
         StageIn(r, call[r], empty), empty # "pad",
         Level(empty) = 1 \/ (Level(empty) = 2 /\ ~writing)
  PROVE  LocalInv'
<1> DEFINE c == call[r]
<1>1. /\ r \in Active /\ c \in 1 .. n_calls /\ Kind(c) = "block"
      /\ phase[r] = "start" /\ Now(r) = 4 * c /\ 0 \in Active /\ 0 \in Ranks
      /\ \A p, q \in Active : /\ 4 * c \in Due(p, q) <=> p # 0 /\ q = 0
                              /\ SentInside(p, q, c) <=> writing /\ p = 0 /\ q # 0
  <2>1. In(r, "block", "start") /\ Level("start") = 0 /\ r \in Ranks
    BY DEF Level
  <2> QED BY <2>1, BlockStage, ConfigOK
<1>2. /\ UNCHANGED <<setup, layout, run, offset, pos, told, ser, mail>>
      /\ coll' = Posted(coll, r, 0, Count(r))
  BY DEF Deposit
<1>3. PICK ph \in {full, empty} : Goto(r, ph)
  BY DEF Deposit
<1>4. /\ StageIn(r, c, ph) /\ ph # "pad" /\ Level(phase[r]) < Level(ph)
      /\ \A p, q \in Active : Level(phase[r]) < 1 /\ 1 < Level(ph) => ~SentInside(p, q, c)
  BY <1>1 DEF Level
<1>5. \A p, q : Now(r) \in Due(p, q) <=> p \in Active /\ q \in Active /\ p # 0 /\ q = 0
  <2>1. \A p, q : Now(r) \in Due(p, q) => p \in Active /\ q \in Active
    BY DEF Due
  <2> QED BY <1>1, <2>1
<1>6. Says(r, Now(r), Count(r))
  BY <1>1, SaysAt DEF Count
<1>7. CollStep(r, Now(r)) /\ DOMAIN coll' = Ranks \X Ranks
  <2>1. DOMAIN coll = Ranks \X Ranks
    BY DEF LocalInv, RankTyped
  <2>2. DOMAIN coll' = Ranks \X Ranks
    BY <1>2, <2>1 DEF Posted
  <2>3. \A q \in Ranks : Now(r) \in Due(r, q) <=> q = 0
    BY <1>1, <1>5
  <2>4. \A p \in Ranks : Now(r) \notin Due(p, r)
    BY <1>5
  <2>5. CollStep(r, Now(r))
    BY <1>1, <1>2, <1>6, <2>1, <2>3, <2>4, StepPost
  <2> QED BY <2>2, <2>5
<1>8. /\ told \in [Ranks -> Nat] /\ pos \in [Ranks -> Nat \cup {-1}]
      /\ DOMAIN mail = Ranks \X Ranks
  BY DEF LocalInv, RankTyped
<1>9. phase'[0] = phase[0] /\ call'[0] = call[0]
  BY <1>1, <1>2, <1>3, <1>4, GotoKeeps
<1>10. SerializerOK' /\ (method = "serial" => pos'[0] = Place(call'[0]) + Progress')
  BY <1>2, <1>9, OthersKeep
<1> QED BY <1>1, <1>2, <1>3, <1>4, <1>7, <1>8, <1>10, GoneOn

LEMMA GatherStep ==
  ASSUME LocalInv, NEW ph, In(0, "block", ph), Level(ph) = 0, Serialized, Gathers(0)
  PROVE  /\ Gathered = Counts(call[0])
         /\ CollStep(0, Now(0)) /\ DOMAIN coll' = Ranks \X Ranks
<1> DEFINE c == call[0]
<1>1. 0 \in Ranks /\ Active \subseteq Ranks /\ \A q \in Ranks : Now(q) \in Nat
  BY ConfigOK, NowType DEF LocalInv, RankTyped
<1>2. /\ c \in 1 .. n_calls /\ Kind(c) = "block" /\ Now(0) = 4 * c
      /\ \A p, q \in Active : 4 * c \in Due(p, q) <=> p # 0 /\ q = 0
  <2>1. /\ call[0] \in 1 .. n_calls /\ Kind(call[0]) = "block"
        /\ Now(0) = 4 * call[0] + Level(ph)
        /\ \A p, q \in Active : 4 * call[0] \in Due(p, q) <=> p # 0 /\ q = 0
    BY <1>1, BlockStage
  <2> QED BY <2>1
<1>3. \A p, q : Now(0) \in Due(p, q) <=> p \in Active /\ q \in Active /\ p # 0 /\ q = 0
  <2>1. \A p, q : Now(0) \in Due(p, q) => p \in Active /\ q \in Active
    BY DEF Due
  <2> QED BY <1>2, <2>1
<1>4. 0 \in Active
  BY ConfigOK DEF LocalInv, RankTyped
<1>5. ASSUME NEW q \in Active \ {0} PROVE Head(coll[<<q, 0>>]) = CountIn(run, q, c)
  <2>1. Now(0) \in Due(q, 0) /\ Arrived(coll, q, 0) /\ q \in Ranks
    BY <1>1, <1>3, <1>4 DEF Gathers
  <2>2. Says(q, Now(0), Head(coll[<<q, 0>>]))
    BY <1>1, <2>1, TakenSays DEF LocalInv
  <2> QED BY <1>2, <2>2, SaysAt
<1>6. Count(0) = CountIn(run, 0, c)
  BY DEF Count
<1>7. Gathered = Counts(c)
  <2>1. \A q \in Active : (IF q = 0 THEN Count(0) ELSE Head(coll[<<q, 0>>])) = CountIn(run, q, c)
    BY <1>5, <1>6
  <2> QED BY <2>1 DEF Gathered, Counts
<1>8. DOMAIN coll = Ranks \X Ranks
  BY DEF LocalInv, RankTyped
<1>9. DOMAIN coll' = Ranks \X Ranks
  BY <1>8 DEF Gathers
<1>10. \A p \in Ranks : Now(0) \in Due(p, 0) <=> p \in Active \ {0}
  BY <1>3, <1>4
<1>11. \A q \in Ranks : Now(0) \notin Due(0, q)
  BY <1>3
<1>12. CollStep(0, Now(0))
  BY <1>8, <1>10, <1>11, StepGather
<1> QED BY <1>7, <1>9, <1>12

\* The serializer and the stream of rank 0 after a step.
LEMMA SerializerNext ==
  ASSUME UNCHANGED <<setup, layout, run>>, NEW c, call'[0] = c, NEW k, ser'.next_rank_id = k,
         DOMAIN ser' = SerializerFields,
         phase'[0] \in {"advance", "await", "deal"} => ser'.count = Counts(c),
         phase'[0] \in {"advance", "await"} =>
           /\ k \in 0 .. n_ranks
           /\ k \in 1 .. n_ranks - 1 => ser'.count[k] > 0
           /\ ser'.dist_rank = k \/ k = n_ranks
           /\ ser'.next_g_num = 1 + Upto(c, k),
         phase'[0] = "await" => k \in 1 .. n_ranks - 1,
         phase'[0] = "deal" => ser'.dist_rank \in 1 .. n_ranks
  PROVE  SerializerOK'
<1>1. n_ranks' = n_ranks
  BY Frame
<1>2. Counts(call[0])' = Counts(c)
  BY DEF Counts, CountIn, End, Start, Step, Active, n_ranks
<1>3. Upto(call[0], ser.next_rank_id)' = Upto(c, k)
  BY DEF Upto, End, Step
<1> QED BY <1>1, <1>2, <1>3 DEF SerializerOK

LEMMA ProgressNext ==
  ASSUME UNCHANGED <<setup, layout, run>>, NEW c, call'[0] = c, NEW k, NEW d,
         ser'.next_rank_id = k, ser'.dist_rank = d
  PROVE  /\ phase'[0] \in {"start", "pad"} => Progress' = 0
         /\ phase'[0] \in {"advance", "await"} => Progress' = Upto(c, k)
         /\ phase'[0] = "gather" => Progress' = Upto(c, 1)
         /\ phase'[0] = "deal" => Progress' = Upto(c, d)
         /\ phase'[0] = "end" => Progress' = Upto(c, n_ranks)
<1>1. /\ Upto(call[0], ser.next_rank_id)' = Upto(c, k)
      /\ Upto(call[0], 1)' = Upto(c, 1)
      /\ Upto(call[0], ser.dist_rank)' = Upto(c, d)
      /\ Upto(call[0], n_ranks)' = Upto(c, n_ranks)
  BY DEF Upto, End, Step, n_ranks
<1> QED BY <1>1 DEF Progress

LEMMA InitSerializerKeeps ==
  ASSUME LocalInv, NEW r \in Ranks, InitSerializer(r)
  PROVE  LocalInv'
<1> DEFINE c == call[r]
<1>1. writing /\ Serialized /\ In(r, "block", "start")
  BY DEF InitSerializer
<1>2. /\ r \in Active /\ c \in 1 .. n_calls /\ Kind(c) = "block" /\ phase[r] = "start"
      /\ setup \in Setups /\ run \in {1, 2} /\ 0 \in Active /\ n_ranks \in Nat \ {0, 1}
      /\ Now(r) = 4 * c + 0 /\ method = "serial"
  <2>1. Level("start") = 0
    BY DEF Level
  <2> QED BY <1>1, <2>1, BlockStage
<1>3. CASE r # 0
  <2>1. Deposit(r, "sync", "scatter")
    BY <1>3 DEF InitSerializer
  <2>2. /\ StageIn(r, call[r], "sync") /\ "sync" # "pad" /\ Level("sync") = 1
        /\ StageIn(r, call[r], "scatter") /\ "scatter" # "pad" /\ Level("scatter") = 1
    BY <1>1, <1>2, <1>3 DEF StageIn, Level
  <2>3. r \in Ranks \ {0}
    BY <1>3
  <2> QED BY <1>1, <2>1, <2>2, <2>3, DepositKeeps
<1>4. CASE r = 0
  <2>1. /\ Gathers(0) /\ Goto(0, "advance")
        /\ ser' = [count |-> Gathered, next_rank_id |-> 0, next_g_num |-> First(0),
                   dist_rank |-> 0]
        /\ UNCHANGED <<setup, layout, run, offset, pos, told, mail>>
    BY <1>4 DEF InitSerializer
  <2>2. Gathered = Counts(c) /\ CollStep(0, Now(0)) /\ DOMAIN coll' = Ranks \X Ranks
    <3>1. Level("start") = 0
      BY DEF Level
    <3> QED BY <1>1, <1>4, <2>1, <3>1, GatherStep
  <2>3. StageIn(0, c, "advance") /\ Level("advance") = 1 /\ Level(phase[r]) = 0
    BY <1>1, <1>2 DEF StageIn, Level
  <2>4. phase'[0] = "advance" /\ call' = call
    BY <1>2, <1>4, <2>1, <2>3, GotoKeeps
  <2>5. PICK d \in Nat : d = call[0]
    BY <1>2, <1>4
  <2>6. call'[0] = d /\ Upto(d, 0) = 0 /\ First(0) = 1 + Upto(d, 0) /\ ser'.count = Counts(d)
    BY <1>2, <1>4, <2>1, <2>2, <2>4, <2>5, BlockOK DEF First
  <2>7. /\ SerializerOK'
        /\ method = "serial" => pos'[0] = Place(call'[0]) + Progress'
    <3>1. ser'.next_rank_id = 0 /\ ser'.dist_rank = 0 /\ ser'.next_g_num = 1 + Upto(d, 0)
      BY <2>1, <2>6
    <3>a. DOMAIN ser' = SerializerFields
      BY <2>1 DEF SerializerFields
    <3>2. SerializerOK'
      BY <1>2, <2>1, <2>4, <2>6, <3>1, <3>a, SerializerNext
    <3>3. Progress' = Upto(d, 0)
      BY <2>1, <2>4, <2>6, <3>1, ProgressNext
    <3>4. Progress = 0
      BY <1>2, <1>4 DEF Progress
    <3> QED BY <2>1, <2>4, <2>6, <3>2, <3>3, <3>4 DEF LocalInv, PositionsOK
  <2>8. /\ told \in [Ranks -> Nat] /\ pos \in [Ranks -> Nat \cup {-1}]
        /\ DOMAIN mail = Ranks \X Ranks
    BY DEF LocalInv, RankTyped
  <2>9. /\ 0 \in Active /\ call[0] \in 1 .. n_calls /\ StageIn(0, call[0], "advance")
        /\ Level(phase[0]) < Level("advance") /\ ~(1 < Level("advance"))
    BY <1>2, <1>4, <2>3
  <2>10. UNCHANGED <<setup, layout, run, offset, told, mail, pos>> /\ Goto(0, "advance")
    BY <2>1
  <2> QED BY <2>2, <2>7, <2>8, <2>9, <2>10, GoneOn
<1> QED BY <1>3, <1>4

\* Going on in a block without collective messages.
LEMMA QuietStep ==
  ASSUME LocalInv, UNCHANGED <<setup, layout, run, offset, told, coll>>, NEW r \in Ranks,
         NEW op, NEW old, NEW ph, In(r, op, old), Goto(r, ph), StageIn(r, call[r], ph), ph # "pad",
         \/ Level(old) = Level(ph)
         \/ /\ Level(old) < Level(ph)
            /\ \A p, q \in Active : Now(r) \notin Due(p, q) /\ ~SentInside(p, q, call[r]),
         DOMAIN mail' = Ranks \X Ranks, pos' \in [Ranks -> Nat \cup {-1}],
         SerializerOK', method = "serial" => pos'[0] = Place(call'[0]) + Progress'
  PROVE  LocalInv'
<1>1. r \in Active /\ call[r] \in 1 .. n_calls /\ phase[r] = old
  BY InCall
<1>2. DOMAIN coll' = Ranks \X Ranks /\ told \in [Ranks -> Nat]
  BY DEF LocalInv, RankTyped
<1>4. CASE Level(old) = Level(ph)
  BY <1>1, <1>4, SameLevel
<1>5. CASE /\ Level(old) < Level(ph)
           /\ \A p, q \in Active : Now(r) \notin Due(p, q) /\ ~SentInside(p, q, call[r])
  <2>1. CollStep(r, Now(r))
    BY <1>5, NothingDue
  <2> QED BY <1>1, <1>2, <1>5, <2>1, GoneOn
<1> QED BY <1>4, <1>5

LEMMA ServeKeeps ==
  ASSUME LocalInv, NEW r \in Ranks, Serve(r)
  PROVE  LocalInv'
<1>1. r # 0 /\ In(r, "block", "sync")
  BY DEF Serve
<1>2. CASE Abort
  BY <1>2, NothingMoves DEF Abort
<1>3. CASE ~Abort
  <2>1. /\ mail' = Posted(Taken(mail, 0, r), r, 0, Block(r)) /\ Goto(r, "scatter")
        /\ UNCHANGED <<setup, layout, run, offset, pos, told, ser, coll>>
    BY <1>3 DEF Serve
  <2>2. /\ r \in Active /\ call[r] \in 1 .. n_calls /\ Kind(call[r]) = "block"
        /\ phase[r] = "sync"
    BY <1>1, InCall
  <2>a. 0 \in Active /\ 0 \in Ranks
    BY ConfigOK DEF LocalInv, RankTyped
  <2>3. Stage(r)
    BY DEF LocalInv
  <2>4. StageIn(r, call[r], "scatter")
    BY <1>1, <2>2, <2>3 DEF Stage, StageIn
  <2>5. Level("sync") = Level("scatter") /\ "scatter" # "pad"
    BY DEF Level
  <2>6. DOMAIN mail' = Ranks \X Ranks /\ pos' \in [Ranks -> Nat \cup {-1}]
    BY <2>1 DEF LocalInv, RankTyped, Posted, Taken
  <2>7. phase'[0] = phase[0] /\ call'[0] = call[0]
    BY <1>1, <2>1, <2>2, <2>a, <2>4, GotoKeeps
  <2>8. SerializerOK' /\ (method = "serial" => pos'[0] = Place(call'[0]) + Progress')
    BY <2>1, <2>7, OthersKeep
  <2>9. /\ UNCHANGED <<setup, layout, run, offset, told, coll>>
        /\ In(r, "block", "sync") /\ Goto(r, "scatter")
    BY <1>1, <2>1
  <2> QED BY <2>4, <2>5, <2>6, <2>8, <2>9, QuietStep
<1> QED BY <1>2, <1>3

LEMMA RequestKeeps ==
  ASSUME LocalInv, NEW r \in Ranks, Request(r)
  PROVE  LocalInv'
<1>1. /\ r = 0 /\ In(0, "block", "advance") /\ ser.next_rank_id \in 1 .. n_ranks - 1
      /\ mail' = Posted(mail, 0, ser.next_rank_id, SyncRange) /\ Goto(0, "await")
      /\ UNCHANGED <<setup, layout, run, offset, pos, told, ser, coll>>
  BY DEF Request
<1>2. /\ 0 \in Active /\ call[0] \in 1 .. n_calls /\ Kind(call[0]) = "block"
      /\ phase[0] = "advance"
  BY <1>1, InCall
<1>3. Stage(0)
  BY <1>1 DEF LocalInv
<1>4. StageIn(0, call[0], "await")
  BY <1>2, <1>3 DEF Stage, StageIn
<1>5. Level("advance") = Level("await") /\ "await" # "pad"
  BY DEF Level
<1>6. DOMAIN mail' = Ranks \X Ranks /\ pos' \in [Ranks -> Nat \cup {-1}]
  BY <1>1 DEF LocalInv, RankTyped, Posted
<1>7. phase'[0] = "await" /\ call'[0] = call[0]
  BY <1>1, <1>2, <1>4, GotoKeeps
<1>8. PICK c \in Nat, k \in Nat, d \in {ser.dist_rank} : c = call[0] /\ k = ser.next_rank_id /\ d = ser.dist_rank
  BY <1>1, <1>2, ConfigOK DEF LocalInv, RankTyped
<1>9. SerializerOK
  BY DEF LocalInv
<1>10. SerializerOK'
  <2>1. /\ ser.count = Counts(c) /\ k \in 0 .. n_ranks
        /\ k \in 1 .. n_ranks - 1 => ser.count[k] > 0
        /\ d = k \/ k = n_ranks
        /\ ser.next_g_num = 1 + Upto(c, k)
        /\ DOMAIN ser = SerializerFields
    BY <1>2, <1>8, <1>9 DEF SerializerOK
  <2> QED BY <1>1, <1>7, <1>8, <2>1, SerializerNext
<1>11. method = "serial" => pos'[0] = Place(call'[0]) + Progress'
  <2>1. Progress = Upto(c, k)
    BY <1>2, <1>8 DEF Progress
  <2>2. Progress' = Upto(c, k)
    BY <1>1, <1>7, <1>8, ProgressNext
  <2> QED BY <1>1, <1>7, <2>1, <2>2 DEF LocalInv, PositionsOK, Place
<1>12. /\ UNCHANGED <<setup, layout, run, offset, told, coll>> /\ 0 \in Ranks
       /\ In(0, "block", "advance") /\ Goto(0, "await")
  BY <1>1
<1> QED BY <1>4, <1>5, <1>6, <1>10, <1>11, <1>12, QuietStep

LEMMA ScatterKeeps ==
  ASSUME LocalInv, NEW r \in Ranks, Scatter(r)
  PROVE  LocalInv'
<1> DEFINE c == call[r]  m == [q \in Active |-> ser.count[q]]
<1>1. /\ \/ r = 0 /\ In(r, "block", "advance") /\ ser.next_rank_id = n_ranks
         \/ r # 0 /\ In(r, "block", "scatter") /\ Arrived(coll, 0, r)
      /\ coll' = IF r = 0 THEN FromRoot(0, m) ELSE Taken(coll, 0, r)
      /\ Goto(r, "end")
      /\ UNCHANGED <<setup, layout, run, offset, pos, told, ser, mail>>
  BY DEF Scatter
<1>2. /\ phase[r] \in {"advance", "scatter"} /\ In(r, "block", phase[r])
  BY <1>1 DEF In
<1>3. Stage(r) /\ Level(phase[r]) = 1
  BY <1>2 DEF LocalInv, Level
<1>4. Serialized /\ writing /\ StageIn(r, c, "end")
  <2>1. Kind(c) = "block"
    BY <1>2, InCall
  <2> QED BY <1>2, <1>3, <2>1 DEF Stage, StageIn
<1>5. /\ r \in Active /\ c \in 1 .. n_calls /\ Kind(c) = "block"
      /\ Now(r) = 4 * c + 1 /\ 0 \in Active /\ setup \in Setups /\ run \in {1, 2}
      /\ method = "serial"
      /\ \A p, q \in Active : 4 * c + 1 \in Due(p, q) <=> p = 0 /\ q # 0
  BY <1>2, <1>3, <1>4, BlockStage
<1>6. /\ CollStep(r, Now(r)) /\ DOMAIN coll' = Ranks \X Ranks
  <2>1. \A x : Says(0, Now(r), x)
    BY <1>5, SaysAt
  <2>2. \A p, q \in Active : Now(r) \in Due(p, q) <=> p = 0 /\ q # 0
    BY <1>5
  <2>3. /\ r # 0 => Arrived(coll, 0, r)
        /\ coll' = IF r = 0 THEN FromRoot(0, m) ELSE Taken(coll, 0, r)
        /\ r \in Active /\ 0 \in Active
    BY <1>1, <1>5
  <2> HIDE DEF m
  <2> QED BY <2>1, <2>2, <2>3, Broadcast
<1>7. phase'[r] = "end" /\ call' = call /\ \A q \in Ranks \ {r} : phase'[q] = phase[q]
  BY <1>1, <1>4, <1>5, GotoKeeps
<1>8. SerializerOK' /\ (method = "serial" => pos'[0] = Place(call'[0]) + Progress')
  <2>1. CASE r = 0
    <3>1. PICK d \in Nat, k \in Nat, e \in {ser.dist_rank} : d = call[0] /\ k = ser.next_rank_id /\ e = ser.dist_rank
      BY <1>1, <1>5, <2>1, ConfigOK
    <3>2. phase'[0] = "end" /\ call'[0] = d
      BY <1>7, <2>1, <3>1
    <3>3. SerializerOK'
      BY <1>1, <3>2 DEF LocalInv, SerializerOK
    <3>4. phase[0] = "advance" /\ k = n_ranks
      BY <1>1, <2>1, <3>1 DEF In
    <3>5. Progress = Upto(d, n_ranks)
      BY <3>1, <3>4 DEF Progress
    <3>6. Progress' = Upto(d, n_ranks)
      BY <1>1, <3>1, <3>2, ProgressNext
    <3> QED BY <1>1, <3>1, <3>2, <3>3, <3>5, <3>6 DEF LocalInv, PositionsOK, Place
  <2>2. CASE r # 0
    <3>1. phase'[0] = phase[0]
      BY <1>5, <1>7, <2>2, ConfigOK
    <3> QED BY <1>1, <1>7, <3>1, OthersKeep
  <2> QED BY <2>1, <2>2
<1>9. told \in [Ranks -> Nat] /\ pos \in [Ranks -> Nat \cup {-1}] /\ DOMAIN mail = Ranks \X Ranks
  BY DEF LocalInv, RankTyped
<1>10. Level(phase[r]) < Level("end") /\ ~(Level(phase[r]) < 1)
  BY <1>3 DEF Level
<1>11. UNCHANGED <<setup, layout, run, offset, told, mail, pos>> /\ Goto(r, "end")
  BY <1>1
<1> QED BY <1>4, <1>5, <1>6, <1>8, <1>9, <1>10, <1>11, GoneOn

-----------------------------------------------------------------------------
\* The next rank with data: those before it have none.
LEMMA NextRankOK ==
  ASSUME setup \in Setups, run \in {1, 2}, NEW c \in 1 .. n_calls, Kind(c) = "block",
         ser.count = Counts(c), NEW k \in 0 .. n_ranks - 1
  PROVE  /\ NextRank(k) \in k + 1 .. n_ranks
         /\ NextRank(k) # n_ranks => ser.count[NextRank(k)] > 0
         /\ Upto(c, NextRank(k)) = Upto(c, k + 1)
<1> DEFINE S == {q \in k + 1 .. n_ranks : q = n_ranks \/ ser.count[q] > 0}
           m == NextRank(k)
<1>1. n_ranks \in Nat /\ k + 1 <= n_ranks /\ k \in Nat /\ Active = 0 .. n_ranks - 1
  BY ConfigOK DEF Active
<1>2. n_ranks \in S /\ S \subseteq Nat
  BY <1>1
<1>3. m \in S /\ \A y \in S : m <= y
  <2>1. PICK v \in S : \A y \in S : v <= y
    <3> HIDE DEF S
    <3> QED BY <1>2, LeastExists
  <2>2. m = CHOOSE x \in S : \A y \in S : x <= y
    BY DEF NextRank, Min
  <2> HIDE DEF S, m
  <2> QED BY <2>1, <2>2
<1>4. ASSUME NEW q \in k + 1 .. n_ranks, q < m PROVE CountIn(run, q, c) = 0 /\ q \in Active
  <2>1. q \notin S /\ q \in Nat
    BY <1>1, <1>2, <1>3, <1>4
  <2>2. q # n_ranks /\ ~(ser.count[q] > 0)
    BY <2>1
  <2>3. q \in Active
    BY <1>1, <2>1, <2>2
  <2>4. ser.count[q] = CountIn(run, q, c) /\ CountIn(run, q, c) \in Nat
    BY <2>3, BlockOK DEF Counts
  <2> QED BY <2>2, <2>3, <2>4
<1> DEFINE T == {i \in Nat : k + 1 + i <= m => Upto(c, k + 1 + i) = Upto(c, k + 1)}
<1>5. m \in k + 1 .. n_ranks
  BY <1>3
<1> HIDE DEF m, S
<1>6. 0 \in T
  BY <1>1
<1>7. ASSUME NEW i \in Nat, i \in T PROVE i + 1 \in T
  <2> SUFFICES ASSUME k + 1 + (i + 1) <= m PROVE Upto(c, k + 1 + (i + 1)) = Upto(c, k + 1)
    OBVIOUS
  <2> DEFINE q == k + 1 + i
  <2>1. q \in k + 1 .. n_ranks /\ q < m /\ k + 1 + (i + 1) = q + 1 /\ q <= m
    BY <1>1, <1>5
  <2>2. Upto(c, q) = Upto(c, k + 1)
    BY <1>7, <2>1
  <2> HIDE DEF q
  <2>3. CountIn(run, q, c) = 0 /\ q \in Active
    BY <1>4, <2>1
  <2>4. Upto(c, q + 1) = Upto(c, q) + CountIn(run, q, c) /\ Upto(c, q) \in Nat
    <3>1. q \in 0 .. n_ranks
      BY <1>1, <2>3
    <3> QED BY <2>3, <3>1, BlockOK
  <2> QED BY <2>1, <2>2, <2>3, <2>4
<1>8. Nat \subseteq T
  <2> HIDE DEF T
  <2> QED BY <1>6, <1>7, Induction
<1>9. Upto(c, m) = Upto(c, k + 1)
  <2>1. m - (k + 1) \in Nat /\ k + 1 + (m - (k + 1)) = m /\ m <= m
    BY <1>1, <1>5
  <2> QED BY <1>8, <2>1
<1>10. m # n_ranks => ser.count[m] > 0
  BY <1>3 DEF S
<1> QED BY <1>5, <1>9, <1>10 DEF m

\* The serializer goes on to the next rank, the stream past the values of this one.
LEMMA MovedOK ==
  ASSUME LocalInv, UNCHANGED <<setup, layout, run, call>>, phase'[0] = "advance",
         NEW ph \in {"advance", "await"}, In(0, "block", ph),
         ser.next_rank_id \in 0 .. n_ranks - 1, NEW buf, Moved(buf)
  PROVE  /\ SerializerOK' /\ (method = "serial" => pos'[0] = Place(call'[0]) + Progress')
         /\ pos' \in [Ranks -> Nat \cup {-1}]
<1>1. 0 \in Active /\ 0 \in Ranks /\ setup \in Setups /\ run \in {1, 2}
  BY ConfigOK DEF LocalInv, RankTyped
<1>2. /\ call[0] \in 1 .. n_calls /\ Kind(call[0]) = "block" /\ phase[0] = ph
      /\ Place(call[0]) \in Nat
  BY <1>1, InCall
<1>3. Serialized /\ method = "serial"
  <2>1. Stage(0)
    BY <1>1 DEF LocalInv
  <2> QED BY <1>2, <2>1 DEF Stage, StageIn, Serialized
<1>4. PICK c \in 1 .. n_calls, k \in 0 .. n_ranks - 1, m \in {NextRank(ser.next_rank_id)} :
        c = call[0] /\ k = ser.next_rank_id /\ m = NextRank(k)
  BY <1>2
<1>5. /\ ser.count = Counts(c) /\ DOMAIN ser = SerializerFields
      /\ k \in 1 .. n_ranks - 1 => ser.count[k] > 0
      /\ ser.dist_rank = k \/ k = n_ranks
      /\ ser.next_g_num = 1 + Upto(c, k)
  BY <1>2, <1>4 DEF LocalInv, SerializerOK
<1>6. n_ranks \in Nat /\ Active = 0 .. n_ranks - 1 /\ k \in Active /\ ser.dist_rank = k
  BY <1>1, <1>4, <1>5, ConfigOK DEF Active
<1>7. /\ m \in k + 1 .. n_ranks
      /\ m # n_ranks => ser.count[m] > 0
      /\ Upto(c, m) = Upto(c, k + 1)
  BY <1>1, <1>2, <1>4, <1>5, NextRankOK
<1>8. PICK n \in Nat : n = ser.count[k] /\ n = CountIn(run, k, c)
  <2>1. ser.count[k] = CountIn(run, k, c)
    BY <1>5, <1>6 DEF Counts
  <2>2. CountIn(run, k, c) \in Nat
    BY <1>1, <1>2, <1>4, <1>6, BlockOK
  <2> QED BY <2>1, <2>2
<1>9. Upto(c, k) \in Nat /\ Upto(c, k + 1) = Upto(c, k) + n
  <2>1. k \in 0 .. n_ranks
    BY <1>6
  <2> QED BY <1>1, <1>2, <1>4, <1>6, <1>8, <2>1, BlockOK
<1>10. /\ ser' = [ser EXCEPT !.next_rank_id = m, !.next_g_num = 1 + Upto(c, k) + n,
                             !.dist_rank = IF n = 0 THEN k ELSE m]
       /\ n = 0 => pos' = pos
       /\ n # 0 => pos' = [pos EXCEPT ![0] = pos[0] + n]
  BY <1>4, <1>5, <1>6, <1>8 DEF Moved
<1>11. /\ ser'.count = Counts(c) /\ ser'.next_rank_id = m /\ DOMAIN ser' = SerializerFields
       /\ ser'.next_g_num = 1 + Upto(c, m) /\ ser'.dist_rank = IF n = 0 THEN k ELSE m
  <2>1. /\ ser'.count = ser.count /\ ser'.next_rank_id = m /\ DOMAIN ser' = SerializerFields
        /\ ser'.next_g_num = 1 + Upto(c, k) + n
        /\ ser'.dist_rank = IF n = 0 THEN k ELSE m
    BY <1>5, <1>10 DEF SerializerFields
  <2>2. 1 + Upto(c, k) + n = 1 + Upto(c, m)
    BY <1>7, <1>9
  <2> QED BY <1>5, <2>1, <2>2
<1>12. n = 0 => m = n_ranks
  <2> SUFFICES ASSUME n = 0, m # n_ranks PROVE FALSE
    OBVIOUS
  <2>1. k = 0
    BY <1>5, <1>6, <1>8
  <2>2. m \in Active
    BY <1>6, <1>7
  <2>3. CountIn(run, m, c) = 0
    BY <1>1, <1>2, <1>4, <1>8, <2>1, <2>2, BlockOK
  <2>4. ser.count[m] = 0
    BY <1>5, <2>2, <2>3 DEF Counts
  <2> QED BY <1>7, <2>4
<1>13. SerializerOK'
  <2>1. m \in 0 .. n_ranks /\ (m \in 1 .. n_ranks - 1 => ser'.count[m] > 0)
    BY <1>5, <1>6, <1>7, <1>11
  <2>2. ser'.dist_rank = m \/ m = n_ranks
    BY <1>11, <1>12
  <2>3. call'[0] = c
    BY <1>4
  <2> QED BY <1>11, <2>1, <2>2, <2>3, SerializerNext
<1>14. pos[0] = Place(c) + Upto(c, k) /\ Place(c) \in Nat
  <2>1. Progress = Upto(c, k)
    BY <1>2, <1>4 DEF Progress
  <2> QED BY <1>2, <1>3, <1>4, <2>1 DEF LocalInv, PositionsOK
<1>15. pos \in [Ranks -> Nat \cup {-1}]
  BY DEF LocalInv, RankTyped
<1>16. pos' \in [Ranks -> Nat \cup {-1}] /\ pos'[0] = Place(c) + Upto(c, m)
  BY <1>1, <1>7, <1>8, <1>9, <1>10, <1>14, <1>15
<1>17. Progress' = Upto(c, m)
  <2>1. call'[0] = c
    BY <1>4
  <2> QED BY <1>11, <2>1, ProgressNext
<1> QED BY <1>4, <1>13, <1>16, <1>17 DEF Place

LEMMA OwnBlockKeeps ==
  ASSUME LocalInv, NEW r \in Ranks, OwnBlock(r)
  PROVE  LocalInv'
<1>1. /\ In(0, "block", "advance") /\ ser.next_rank_id = 0 /\ Moved(Block(0))
      /\ UNCHANGED <<setup, layout, run, call, phase, offset, told, mail, coll>>
  BY DEF OwnBlock
<1>2. 0 \in Ranks /\ n_ranks \in Nat \ {0}
  BY ConfigOK DEF LocalInv, RankTyped
<1>3. phase'[0] = "advance" /\ ser.next_rank_id \in 0 .. n_ranks - 1
  BY <1>1, <1>2 DEF In
<1>4. /\ SerializerOK' /\ (method = "serial" => pos'[0] = Place(call'[0]) + Progress')
      /\ pos' \in [Ranks -> Nat \cup {-1}]
  BY <1>1, <1>3, MovedOK
<1>5. DOMAIN mail' = Ranks \X Ranks
  BY <1>1 DEF LocalInv, RankTyped
<1> QED BY <1>1, <1>4, <1>5, SamePlace

LEMMA CollectKeeps ==
  ASSUME LocalInv, NEW r \in Ranks, Collect(r)
  PROVE  LocalInv'
<1> DEFINE q == ser.next_rank_id
<1>1. /\ r = 0 /\ In(0, "block", "await") /\ mail' = Taken(mail, q, 0)
      /\ Goto(0, "advance") /\ Moved(Head(mail[<<q, 0>>]))
      /\ UNCHANGED <<setup, layout, run, offset, told, coll>>
  BY DEF Collect
<1>2. /\ 0 \in Active /\ call[0] \in 1 .. n_calls /\ Kind(call[0]) = "block"
      /\ phase[0] = "await"
  BY <1>1, InCall
<1>3. Stage(0)
  BY <1>1 DEF LocalInv
<1>4. StageIn(0, call[0], "advance")
  BY <1>2, <1>3 DEF Stage, StageIn
<1>5. Level("await") = Level("advance") /\ "advance" # "pad"
  BY DEF Level
<1>6. DOMAIN mail' = Ranks \X Ranks
  BY <1>1 DEF LocalInv, RankTyped, Taken
<1>7. phase'[0] = "advance" /\ call' = call
  BY <1>1, <1>2, <1>4, GotoKeeps
<1>8. q \in 0 .. n_ranks - 1
  <2>1. q \in 1 .. n_ranks - 1
    BY <1>2 DEF LocalInv, SerializerOK
  <2> QED BY <2>1
<1>9. /\ SerializerOK' /\ (method = "serial" => pos'[0] = Place(call'[0]) + Progress')
      /\ pos' \in [Ranks -> Nat \cup {-1}]
  BY <1>1, <1>7, <1>8, MovedOK
<1>10. /\ UNCHANGED <<setup, layout, run, offset, told, coll>> /\ 0 \in Ranks
       /\ In(0, "block", "await") /\ Goto(0, "advance")
  BY <1>1
<1> QED BY <1>4, <1>5, <1>6, <1>9, <1>10, QuietStep

-----------------------------------------------------------------------------
\* The actions that read a block through rank 0.
LEMMA ReadOwnKeeps ==
  ASSUME LocalInv, NEW r \in Ranks, ReadOwn(r)
  PROVE  LocalInv'
<1>1. ~writing /\ Serialized /\ In(r, "block", "start")
  BY DEF ReadOwn
<1>2. /\ r \in Active /\ call[r] \in 1 .. n_calls /\ Kind(call[r]) = "block"
      /\ phase[r] = "start" /\ setup \in Setups /\ run \in {1, 2} /\ 0 \in Active
      /\ method = "serial"
  BY <1>1, BlockStage
<1>3. CASE r # 0
  <2>1. Deposit(r, "receive", "end")
    BY <1>3 DEF ReadOwn
  <2>2. /\ StageIn(r, call[r], "receive") /\ "receive" # "pad" /\ Level("receive") = 1
        /\ StageIn(r, call[r], "end") /\ "end" # "pad" /\ Level("end") = 2 /\ ~writing
    BY <1>1, <1>2, <1>3 DEF StageIn, Level
  <2>3. r \in Ranks \ {0}
    BY <1>3
  <2> QED BY <1>1, <2>1, <2>2, <2>3, DepositKeeps
<1>4. CASE r = 0 /\ Abort
  BY <1>4, NothingMoves DEF Abort
<1>5. CASE r = 0 /\ ~Abort
  <2>1. /\ pos' = [pos EXCEPT ![0] = pos[0] + Count(0)] /\ Goto(0, "gather")
        /\ UNCHANGED <<setup, layout, run, offset, told, ser, mail, coll>>
    BY <1>5 DEF ReadOwn
  <2>2. StageIn(0, call[0], "gather") /\ "gather" # "pad" /\ Level("start") = Level("gather")
    BY <1>1, <1>2, <1>5 DEF StageIn, Level
  <2>3. phase'[0] = "gather" /\ call' = call
    BY <1>2, <1>5, <2>1, <2>2, GotoKeeps
  <2>4. PICK c \in 1 .. n_calls, k \in {ser.next_rank_id}, d \in {ser.dist_rank} : c = call[0] /\ k = ser.next_rank_id /\ d = ser.dist_rank
    BY <1>2, <1>5
  <2>5. Count(0) \in Nat /\ Upto(c, 1) = Count(0)
    <3>1. Upto(c, 0) = 0 /\ CountIn(run, 0, c) \in Nat
          /\ Upto(c, 0 + 1) = Upto(c, 0) + CountIn(run, 0, c)
      BY <1>2, <1>5, <2>4, BlockOK
    <3>2. Count(0) = CountIn(run, 0, c)
      BY <2>4 DEF Count
    <3> QED BY <3>1, <3>2
  <2>6. Progress = 0
    BY <1>2, <1>5 DEF Progress
  <2>7. pos[0] = Place(c) /\ Place(c) \in Nat
    BY <1>1, <1>2, <1>5, <2>4, <2>6, InCall DEF LocalInv, PositionsOK
  <2>8. pos \in [Ranks -> Nat \cup {-1}] /\ DOMAIN mail = Ranks \X Ranks
    BY DEF LocalInv, RankTyped
  <2>9. pos' \in [Ranks -> Nat \cup {-1}] /\ pos'[0] = Place(c) + Upto(c, 1)
    BY <1>5, <2>1, <2>5, <2>7, <2>8
  <2>10. Progress' = Upto(c, 1)
    BY <2>1, <2>3, <2>4, ProgressNext
  <2>11. SerializerOK'
    BY <2>1, <2>3 DEF LocalInv, SerializerOK
  <2>12. method = "serial" => pos'[0] = Place(call'[0]) + Progress'
    BY <2>3, <2>4, <2>9, <2>10
  <2>13. /\ UNCHANGED <<setup, layout, run, offset, told, coll>> /\ 0 \in Ranks
         /\ In(0, "block", "start") /\ Goto(0, "gather") /\ DOMAIN mail' = Ranks \X Ranks
    BY <1>1, <1>5, <2>1, <2>8
  <2> QED BY <2>2, <2>9, <2>11, <2>12, <2>13, QuietStep
<1> QED BY <1>3, <1>4, <1>5

LEMMA GatherCountsKeeps ==
  ASSUME LocalInv, NEW r \in Ranks, GatherCounts(r)
  PROVE  LocalInv'
<1>1. /\ r = 0 /\ 0 \in Ranks /\ In(0, "block", "gather") /\ Gathers(0) /\ Goto(0, "deal")
      /\ ser' = [ser EXCEPT !.count = Gathered, !.dist_rank = 1]
      /\ UNCHANGED <<setup, layout, run, offset, pos, told, mail>>
  BY DEF GatherCounts
<1>2. phase[0] = "gather" /\ Kind(call[0]) = "block" /\ Stage(0)
  BY <1>1, InCall DEF LocalInv
<1>3. Serialized /\ ~writing /\ StageIn(0, call[0], "deal")
  BY <1>2 DEF Stage, StageIn
<1>4. Level("gather") = 0 /\ Level("deal") = 1
  BY DEF Level
<1>5. /\ Gathered = Counts(call[0]) /\ CollStep(0, Now(0)) /\ DOMAIN coll' = Ranks \X Ranks
  BY <1>1, <1>3, <1>4, GatherStep
<1>6. /\ 0 \in Active /\ call[0] \in 1 .. n_calls /\ n_ranks \in Nat \ {0, 1}
      /\ method = "serial"
  BY <1>1, <1>3, BlockStage
<1>7. PICK c \in 1 .. n_calls, k \in {ser.next_rank_id} : c = call[0] /\ k = ser.next_rank_id
  BY <1>6
<1>8. phase'[0] = "deal" /\ call' = call
  BY <1>1, <1>3, <1>6, GotoKeeps
<1>9. DOMAIN ser = SerializerFields
  BY DEF LocalInv, SerializerOK
<1>10. /\ DOMAIN ser' = SerializerFields /\ ser'.count = Counts(c) /\ ser'.dist_rank = 1
       /\ ser'.next_rank_id = k
  BY <1>1, <1>5, <1>7, <1>9 DEF SerializerFields
<1>11. SerializerOK'
  <2>1. call'[0] = c /\ 1 \in 1 .. n_ranks
    BY <1>6, <1>7, <1>8
  <2> QED BY <1>1, <1>8, <1>10, <2>1, SerializerNext
<1>12. method = "serial" => pos'[0] = Place(call'[0]) + Progress'
  <2>1. Progress = Upto(c, 1)
    BY <1>2, <1>7 DEF Progress
  <2>2. Progress' = Upto(c, 1)
    BY <1>1, <1>7, <1>8, <1>10, ProgressNext
  <2> QED BY <1>1, <1>8, <2>1, <2>2 DEF LocalInv, PositionsOK, Place
<1>13. /\ told \in [Ranks -> Nat] /\ pos \in [Ranks -> Nat \cup {-1}]
       /\ DOMAIN mail = Ranks \X Ranks
  BY DEF LocalInv, RankTyped
<1>14. Level(phase[0]) < Level("deal") /\ ~(1 < Level("deal"))
  BY <1>2, <1>4
<1>15. UNCHANGED <<setup, layout, run, offset, told, mail, pos>> /\ Goto(0, "deal")
  BY <1>1
<1> QED BY <1>3, <1>5, <1>6, <1>11, <1>12, <1>13, <1>14, <1>15, GoneOn

LEMMA DealKeeps ==
  ASSUME LocalInv, NEW r \in Ranks, Deal(r)
  PROVE  LocalInv'
<1>1. r = 0 /\ 0 \in Ranks /\ In(0, "block", "deal")
  BY DEF Deal
<1>2. /\ phase[0] = "deal" /\ Kind(call[0]) = "block" /\ Stage(0) /\ call[0] \in 1 .. n_calls
      /\ Place(call[0]) \in Nat /\ Now(0) = 4 * call[0] + Level("deal") /\ Level("deal") = 1
  BY <1>1, InCall DEF LocalInv, Level
<1>3. Serialized /\ ~writing
  BY <1>2 DEF Stage, StageIn
<1>4. setup \in Setups /\ run \in {1, 2} /\ n_ranks \in Nat \ {0} /\ Active = 0 .. n_ranks - 1
  BY ConfigOK DEF LocalInv, RankTyped, Active
<1>5. PICK c \in 1 .. n_calls, k \in {ser.next_rank_id}, d \in {ser.dist_rank} :
        c = call[0] /\ k = ser.next_rank_id /\ d = ser.dist_rank
  BY <1>2
<1>6. ser.count = Counts(c) /\ d \in 1 .. n_ranks /\ DOMAIN ser = SerializerFields
  BY <1>2, <1>5 DEF LocalInv, SerializerOK
<1>7. Progress = Upto(c, d)
  BY <1>2, <1>5 DEF Progress
<1>8. method = "serial" => pos[0] = Place(c) + Upto(c, d)
  BY <1>5, <1>7 DEF LocalInv, PositionsOK
<1>9. method = "serial"
  BY <1>3 DEF Serialized
<1>10. pos \in [Ranks -> Nat \cup {-1}] /\ DOMAIN mail = Ranks \X Ranks
  BY DEF LocalInv, RankTyped
<1>11. CASE d = n_ranks
  <2>1. Goto(0, "end") /\ UNCHANGED <<setup, layout, run, offset, told, coll, mail, pos, ser>>
    BY <1>1, <1>5, <1>11 DEF Deal
  <2>2. StageIn(0, call[0], "end") /\ "end" # "pad" /\ Level("deal") < Level("end")
    BY <1>2 DEF StageIn, Level
  <2>3. phase'[0] = "end" /\ call' = call
    BY <1>1, <1>2, <1>4, <2>1, <2>2, GotoKeeps
  <2>4. Progress' = Upto(c, n_ranks)
    BY <1>5, <2>1, <2>3, ProgressNext
  <2>5. method = "serial" => pos'[0] = Place(call'[0]) + Progress'
    BY <1>5, <1>8, <1>11, <2>1, <2>3, <2>4 DEF Place
  <2>6. SerializerOK'
    BY <2>1, <2>3 DEF LocalInv, SerializerOK
  <2>7. \A p, q \in Active : Now(0) \notin Due(p, q) /\ ~SentInside(p, q, call[0])
    <3>1. Now(0) = 4 * call[0] + 1
      BY <1>2
    <3>2. \A p, q \in Active : ~SentInside(p, q, call[0])
      BY <1>3 DEF SentInside
    <3> QED BY <1>2, <3>1, <3>2, DueAt
  <2>8. UNCHANGED <<setup, layout, run, offset, told, coll>>
    BY <2>1
  <2>9. DOMAIN mail' = Ranks \X Ranks /\ pos' \in [Ranks -> Nat \cup {-1}]
    BY <1>10, <2>1
  <2> QED BY <1>1, <2>1, <2>2, <2>5, <2>6, <2>7, <2>8, <2>9, QuietStep
<1>12. CASE d # n_ranks /\ Abort
  BY <1>12, NothingMoves DEF Abort
<1>13. CASE d # n_ranks /\ ~Abort
  <2>1. d \in Active /\ d \in 0 .. n_ranks
    BY <1>4, <1>6, <1>13
  <2>2. PICK n \in Nat : n = ser.count[d] /\ n = CountIn(run, d, c)
    <3>1. ser.count[d] = CountIn(run, d, c)
      BY <1>6, <2>1 DEF Counts
    <3>2. CountIn(run, d, c) \in Nat
      BY <1>2, <1>4, <1>5, <2>1, BlockOK
    <3> QED BY <3>1, <3>2
  <2>3. /\ ser' = [ser EXCEPT !.dist_rank = d + 1]
        /\ pos' = [pos EXCEPT ![0] = pos[0] + n]
        /\ \E msg : mail' = IF n = 0 THEN mail ELSE Posted(mail, 0, d, msg)
        /\ UNCHANGED <<setup, layout, run, call, phase, offset, told, coll>>
    BY <1>1, <1>5, <1>13, <2>2 DEF Deal
  <2>4. Upto(c, d) \in Nat /\ Upto(c, d + 1) = Upto(c, d) + n
    BY <1>2, <1>4, <1>5, <2>1, <2>2, BlockOK
  <2>5. /\ DOMAIN ser' = SerializerFields /\ ser'.count = Counts(c) /\ ser'.dist_rank = d + 1
        /\ ser'.next_rank_id = k
    BY <1>5, <1>6, <2>3 DEF SerializerFields
  <2>6. phase'[0] = "deal" /\ call'[0] = c
    BY <1>2, <1>5, <2>3
  <2>7. SerializerOK'
    <3>1. d + 1 \in 1 .. n_ranks
      BY <1>4, <1>6, <1>13
    <3> QED BY <2>3, <2>5, <2>6, <3>1, SerializerNext
  <2>8. Progress' = Upto(c, d + 1)
    BY <2>3, <2>5, <2>6, ProgressNext
  <2>9. pos' \in [Ranks -> Nat \cup {-1}] /\ pos'[0] = Place(c) + Upto(c, d + 1)
    BY <1>1, <1>2, <1>5, <1>8, <1>9, <1>10, <2>3, <2>4
  <2>10. method = "serial" => pos'[0] = Place(call'[0]) + Progress'
    BY <2>3, <2>6, <2>8, <2>9 DEF Place
  <2>11. DOMAIN mail' = Ranks \X Ranks
    BY <1>10, <2>3 DEF Posted
  <2> QED BY <2>3, <2>7, <2>9, <2>10, <2>11, SamePlace
<1> QED BY <1>11, <1>12, <1>13

LEMMA ReceiveKeeps ==
  ASSUME LocalInv, NEW r \in Ranks, Receive(r)
  PROVE  LocalInv'
<1>1. /\ r # 0 /\ In(r, "block", "receive") /\ mail' = Taken(mail, 0, r) /\ Goto(r, "end")
      /\ UNCHANGED <<setup, layout, run, offset, pos, told, ser, coll>>
  BY DEF Receive
<1>2. /\ r \in Active /\ phase[r] = "receive" /\ Kind(call[r]) = "block" /\ Stage(r)
      /\ call[r] \in 1 .. n_calls
      /\ Now(r) = 4 * call[r] + Level("receive") /\ Level("receive") = 1
  BY <1>1, InCall DEF LocalInv, Level
<1>3. ~writing
  BY <1>1, <1>2 DEF Stage, StageIn
<1>4. StageIn(r, call[r], "end") /\ "end" # "pad" /\ Level("receive") < Level("end")
  BY <1>2 DEF StageIn, Level
<1>5. \A p, q \in Active : Now(r) \notin Due(p, q) /\ ~SentInside(p, q, call[r])
  <2>1. Now(r) = 4 * call[r] + 1
    BY <1>2
  <2>2. \A p, q \in Active : ~SentInside(p, q, call[r])
    BY <1>3 DEF SentInside
  <2> QED BY <1>2, <2>1, <2>2, DueAt
<1>6. DOMAIN mail' = Ranks \X Ranks /\ pos' \in [Ranks -> Nat \cup {-1}]
  BY <1>1 DEF LocalInv, RankTyped, Taken
<1>7. phase'[0] = phase[0] /\ call'[0] = call[0]
  <2>1. 0 \in Ranks
    BY ConfigOK DEF LocalInv, RankTyped
  <2> QED BY <1>1, <1>2, <1>4, <2>1, GotoKeeps
<1>8. SerializerOK' /\ (method = "serial" => pos'[0] = Place(call'[0]) + Progress')
  BY <1>1, <1>7, OthersKeep
<1>9. UNCHANGED <<setup, layout, run, offset, told, coll>>
  BY <1>1
<1> QED BY <1>1, <1>4, <1>5, <1>6, <1>8, <1>9, QuietStep

-----------------------------------------------------------------------------
\* A rank that accesses its own block.
LEMMA AccessKeeps ==
  ASSUME LocalInv, NEW r \in Ranks, Access(r)
  PROVE  LocalInv'
<1> DEFINE n == Count(r)  at == IF method = "serial" THEN pos[r] ELSE offset[r] + First(r) - 1
<1>1. ~Serialized /\ In(r, "block", "start")
  BY DEF Access
<1>2. /\ r \in Active /\ call[r] \in 1 .. n_calls /\ Kind(call[r]) = "block"
      /\ phase[r] = "start" /\ Now(r) = 4 * call[r] /\ Level("start") = 0 /\ Level("end") = 2
      /\ offset[r] = Place(call[r]) /\ Place(call[r]) \in Nat
  BY <1>1, InCall DEF Level
<1>3. /\ setup \in Setups /\ run \in {1, 2} /\ n_ranks \in Nat \ {0}
      /\ Active = 0 .. n_ranks - 1 /\ 0 \in Active /\ 0 \in Ranks
  BY ConfigOK DEF LocalInv, RankTyped, Active
<1>4. PICK c \in 1 .. n_calls, k \in {ser.next_rank_id}, d \in {ser.dist_rank} :
        c = call[r] /\ k = ser.next_rank_id /\ d = ser.dist_rank
  BY <1>2
<1>5. /\ n \in Nat /\ Upto(c, r) \in Nat /\ First(r) = Upto(c, r) + 1 /\ Upto(c, 0) = 0
      /\ Upto(c, r + 1) = Upto(c, r) + n
  <2>1. r \in 0 .. n_ranks
    BY <1>2, <1>3
  <2>2. n = CountIn(run, r, c) /\ First(r) = FirstIn(run, r, c)
    BY <1>4 DEF Count, First
  <2> QED BY <1>2, <1>3, <1>4, <2>1, <2>2, BlockOK
<1>6. /\ pos \in [Ranks -> Nat \cup {-1}] /\ DOMAIN mail = Ranks \X Ranks
  BY DEF LocalInv, RankTyped
<1>7. CASE Abort
  BY <1>7, NothingMoves DEF Abort
<1>8. CASE ~Abort
  <2>1. /\ pos' = [pos EXCEPT ![r] = IF n = 0 \/ method = "mpi" THEN pos[r] ELSE at + n]
        /\ Goto(r, "end")
        /\ UNCHANGED <<setup, layout, run, offset, told, ser, mail, coll>>
    BY <1>8 DEF Access
  <2>2. StageIn(r, call[r], "end") /\ "end" # "pad" /\ Level("start") < Level("end")
    BY <1>2 DEF StageIn
  <2>3. phase'[r] = "end" /\ call' = call /\ \A q \in Ranks \ {r} : phase'[q] = phase[q]
    BY <1>2, <2>1, <2>2, GotoKeeps
  <2>4. method = "serial" => n_ranks = 1 /\ r = 0 /\ pos[r] = Place(c)
    <3> SUFFICES ASSUME method = "serial" PROVE n_ranks = 1 /\ r = 0 /\ pos[r] = Place(c)
      OBVIOUS
    <3>1. n_ranks = 1
      BY <1>1, <1>3 DEF Serialized
    <3>2. r = 0
      BY <1>2, <1>3, <3>1
    <3>3. Progress = 0
      BY <1>2, <3>2 DEF Progress
    <3> QED BY <1>2, <1>4, <3>1, <3>2, <3>3 DEF LocalInv, PositionsOK
  <2>5. at \in Nat
    <3>1. CASE method = "serial"
      BY <1>2, <1>4, <2>4, <3>1
    <3>2. CASE method # "serial"
      BY <1>2, <1>5, <3>2
    <3> QED BY <3>1, <3>2
  <2>6. method = "serial" => at = Place(c)
    BY <2>4
  <2> HIDE DEF n, at
  <2>7. pos' \in [Ranks -> Nat \cup {-1}] /\ (r # 0 => pos'[0] = pos[0])
    BY <1>3, <1>5, <1>6, <2>1, <2>5
  <2>8. SerializerOK' /\ (method = "serial" => pos'[0] = Place(call'[0]) + Progress')
    <3>1. CASE r = 0
      <4>1. phase'[0] = "end" /\ call'[0] = c
        BY <1>4, <2>3, <3>1
      <4>2. SerializerOK'
        BY <2>1, <4>1 DEF LocalInv, SerializerOK
      <4>3. Progress' = Upto(c, n_ranks)
        BY <1>4, <2>1, <4>1, ProgressNext
      <4>4. method = "serial" => pos'[0] = Place(c) + n
        <5> SUFFICES ASSUME method = "serial" PROVE pos'[0] = Place(c) + n
          OBVIOUS
        <5>1. pos[0] = Place(c) /\ at = Place(c) /\ Place(c) \in Nat
          BY <1>2, <1>4, <2>4, <2>6
        <5>2. pos' = [pos EXCEPT ![0] = IF n = 0 THEN pos[0] ELSE at + n]
          BY <2>1, <3>1
        <5> QED BY <1>3, <1>6, <5>1, <5>2
      <4>5. method = "serial" => Upto(c, n_ranks) = n
        BY <1>5, <2>4
      <4> QED BY <2>1, <4>1, <4>2, <4>3, <4>4, <4>5 DEF Place
    <3>2. CASE r # 0
      <4>1. phase'[0] = phase[0] /\ pos'[0] = pos[0]
        BY <1>3, <2>3, <2>7, <3>2
      <4> QED BY <2>1, <2>3, <4>1, OthersKeep
    <3> QED BY <3>1, <3>2
  <2>9. \A p, q \in Active : Now(r) \notin Due(p, q) /\ ~SentInside(p, q, call[r])
    <3>1. \A p, q \in Active : ~SentInside(p, q, call[r]) /\ ~SentFirst(p, q, call[r])
      BY <1>1, <1>2 DEF SentInside, SentFirst
    <3> QED BY <1>2, <3>1, DueAt
  <2>10. UNCHANGED <<setup, layout, run, offset, told, coll>> /\ DOMAIN mail' = Ranks \X Ranks
    BY <1>6, <2>1
  <2> QED BY <1>1, <2>1, <2>2, <2>7, <2>8, <2>9, <2>10, QuietStep
<1> QED BY <1>7, <1>8

-----------------------------------------------------------------------------
\* When all ranks are at the same stage nothing is in transit.
LEMMA CarriedLevel ==
  ASSUME NEW p, NEW D, D \subseteq Nat, NEW a \in Nat
  PROVE  Carried(p, D, a, a, <<>>)
<1>1. \A t \in D : ~(a <= t /\ t < a)
  OBVIOUS
<1>2. Holds(<<>>, OnTheWay(D, a, a))
  BY <1>1 DEF Holds, OnTheWay
<1>3. <<>> \in Seq(Nat) /\ Len(<<>>) = 0 /\ \A i \in 1 .. 0 : FALSE
  OBVIOUS
<1>4. \E st \in Seq(Nat) : /\ Holds(st, OnTheWay(D, a, a)) /\ Len(<<>>) = Len(st)
                           /\ \A i \in 1 .. Len(st) : Says(p, st[i], <<>>[i])
  BY <1>2, <1>3
<1> QED BY <1>4 DEF Carried

\* Nothing is due to or from a rank that does not run.
LEMMA NothingToIdle ==
  ASSUME NEW p, NEW D, NEW a, NEW b, NEW ch, IsSeq(ch), D = {}, Carried(p, D, a, b, ch)
  PROVE  ch = <<>>
<1>1. PICK st \in Seq(Nat) : Holds(st, OnTheWay(D, a, b)) /\ Len(ch) = Len(st)
  BY DEF Carried
<1>2. \A t \in OnTheWay(D, a, b) : FALSE
  BY DEF OnTheWay
<1>3. PICK S : ch \in Seq(S)
  BY DEF IsSeq
<1>4. Len(st) = 0
  <2> SUFFICES ASSUME 1 \in 1 .. Len(st) PROVE FALSE
    OBVIOUS
  <2>1. st[1] \in OnTheWay(D, a, b)
    BY <1>1 DEF Holds
  <2> QED BY <1>2, <2>1
<1> QED BY <1>1, <1>3, <1>4

LEMMA AllQuiet ==
  ASSUME LocalInv, \A p, q \in Active : Now(p) = Now(q)
  PROVE  \A p, q \in Ranks : coll[<<p, q>>] = <<>>
<1> SUFFICES ASSUME NEW p \in Ranks, NEW q \in Ranks PROVE coll[<<p, q>>] = <<>>
  OBVIOUS
<1>1. /\ IsSeq(coll[<<p, q>>])
      /\ Carried(p, Due(p, q), Now(q), Now(p), coll[<<p, q>>])
  BY DEF LocalInv, InTransit
<1>2. Now(p) \in Nat
  BY NowType DEF LocalInv
<1>3. CASE p \in Active /\ q \in Active
  <2>1. Now(q) = Now(p)
    BY <1>3
  <2> QED BY <1>1, <1>2, <2>1, NothingCarried
<1>4. CASE ~(p \in Active /\ q \in Active)
  <2>1. Due(p, q) = {}
    BY <1>4 DEF Due
  <2> QED BY <1>1, <2>1, NothingToIdle
<1> QED BY <1>3, <1>4

\* All ranks start a run at its first call.
AllStart ==
  /\ setup \in Setups /\ Described /\ run \in {1, 2}
  /\ call = [r \in Ranks |-> 1] /\ DOMAIN phase = Ranks /\ (\A r \in Ranks : phase[r] = "start")
  /\ offset = [r \in Ranks |-> 0] /\ pos = Opened(run) /\ told \in [Ranks -> Nat]
  /\ DOMAIN ser = SerializerFields
  /\ DOMAIN coll = Ranks \X Ranks /\ DOMAIN mail = Ranks \X Ranks
  /\ \A p, q \in Ranks : coll[<<p, q>>] = <<>>

LEMMA Started == AllStart => LocalInv
<1> SUFFICES ASSUME AllStart PROVE LocalInv
  OBVIOUS
<1> USE DEF AllStart
<1>1. n_calls \in Nat /\ 0 \in Active /\ 0 \in Ranks /\ Active \subseteq Ranks
  BY ConfigOK
<1>2. pos \in [Ranks -> Nat \cup {-1}] /\ (method = "serial" => pos[0] = 0)
  BY <1>1 DEF Opened, method
<1>3. RankTyped
  BY <1>1, <1>2 DEF RankTyped
<1>4. \A r \in Ranks : Stage(r)
  BY DEF Stage
<1>5. phase[0] = "start" /\ call[0] = 1
  BY <1>1
<1>6. SerializerOK
  BY <1>5 DEF SerializerOK
<1>7. Place(1) = 0
  BY <1>3, PlacesOK
<1>8. PositionsOK
  <2>1. \A r \in Active : offset[r] = 0 /\ call[r] = 1 /\ phase[r] # "pad"
    BY <1>1
  <2>2. Progress = 0
    BY <1>5 DEF Progress
  <2>3. \A r \in Active : offset[r] = Place(call[r]) /\ phase[r] # "pad"
    BY <1>7, <2>1
  <2>4. method = "serial" => pos[0] = Place(call[0]) + Progress
    BY <1>2, <1>5, <1>7, <2>2
  <2> QED BY <2>3, <2>4 DEF PositionsOK
<1>9. \A r \in Ranks : Now(r) = 4
  BY DEF Now, Level
<1>10. ASSUME NEW p \in Ranks, NEW q \in Ranks
       PROVE  /\ IsSeq(coll[<<p, q>>])
              /\ Carried(p, Due(p, q), Now(q), Now(p), coll[<<p, q>>])
  <2>1. Carried(p, Due(p, q), 4, 4, <<>>)
    BY DueType, CarriedLevel
  <2>2. IsSeq(<<>>)
    BY <1>1 DEF IsSeq
  <2> QED BY <1>9, <2>1, <2>2
<1>11. InTransit
  BY <1>10 DEF InTransit
<1> QED BY <1>3, <1>4, <1>6, <1>8, <1>11 DEF LocalInv

LEMMA StartedNext == AllStart' => LocalInv'
  BY Started, PTL

LEMMA ReopenKeeps ==
  ASSUME LocalInv, Reopen
  PROVE  LocalInv'
<1>1. /\ AllReturned /\ run' = 2 /\ call' = [r \in Ranks |-> 1]
      /\ offset' = [r \in Ranks |-> 0] /\ pos' = Opened(2)
      /\ UNCHANGED <<setup, layout, phase, told, ser, mail, coll>>
  BY DEF Reopen
<1>2. /\ setup \in Setups /\ Described /\ DOMAIN phase = Ranks /\ told \in [Ranks -> Nat]
      /\ DOMAIN coll = Ranks \X Ranks /\ DOMAIN mail = Ranks \X Ranks
      /\ Active \subseteq Ranks /\ n_calls \in Nat
  BY ConfigOK DEF LocalInv, RankTyped
<1>3. \A r \in Ranks : phase[r] = "start"
  <2> SUFFICES ASSUME NEW r \in Ranks PROVE phase[r] = "start"
    OBVIOUS
  <2>1. r \in Active => call[r] = n_calls + 1
    BY <1>1 DEF AllReturned
  <2>2. Stage(r)
    BY DEF LocalInv
  <2> QED BY <1>2, <2>1, <2>2 DEF Stage
<1>4. \A p, q \in Ranks : coll[<<p, q>>] = <<>>
  <2>1. \A p \in Active : Now(p) = 4 * (n_calls + 1) + Level("start")
    BY <1>1, <1>2, <1>3 DEF Now, AllReturned
  <2> QED BY <2>1, AllQuiet
<1>5. (Described /\ pos = Opened(run) /\ DOMAIN ser = SerializerFields)'
  BY <1>1, <1>2 DEF Described, Placing, Opened, LocalInv, SerializerOK, SerializerFields
<1>6. AllStart'
  BY <1>1, <1>2, <1>3, <1>4, <1>5 DEF AllStart
<1> QED BY <1>6, StartedNext

LEMMA InitLocal == Init => LocalInv
<1> SUFFICES ASSUME Init PROVE LocalInv
  OBVIOUS
<1>1. Described
  BY LayoutPlaces DEF Init, Described
<1>2. pos = Opened(run)
  BY DEF Init
<1>3. DOMAIN ser = SerializerFields
  BY DEF Init, SerializerFields
<1>4. /\ DOMAIN coll = Ranks \X Ranks /\ DOMAIN mail = Ranks \X Ranks
      /\ \A p, q \in Ranks : coll[<<p, q>>] = <<>>
  BY DEF Init, NoMessage
<1> QED BY <1>1, <1>2, <1>3, <1>4, Started DEF Init, AllStart

LEMMA NextLocal ==
  ASSUME LocalInv, [Next]_vars,
         ReadGlobal(0) => Get(offset[0], Op(0).n) = Values(call[0], 1, Op(0).n)
  PROVE  LocalInv'
<1>1. CASE UNCHANGED vars
  BY <1>1, NothingMoves DEF vars
<1>2. CASE Reopen
  BY <1>2, ReopenKeeps
<1>3. ASSUME NEW r \in Ranks, ReadGlobal(r) PROVE LocalInv'
  <2>1. r = 0 => Get(offset[r], Op(r).n) = Values(call[r], 1, Op(r).n)
    BY <1>3
  <2> QED BY <1>3, <2>1, ReadGlobalKeeps
<1>4. ASSUME NEW r \in Ranks, Advance(r) PROVE LocalInv'
  BY <1>3, <1>4, TellKeeps, SeekKeeps, WriteGlobalKeeps, InitSerializerKeeps,
     OwnBlockKeeps, RequestKeeps, ServeKeeps, CollectKeeps, ScatterKeeps, ReadOwnKeeps,
     GatherCountsKeeps, DealKeeps, ReceiveKeeps, AccessKeeps, EndBlockKeeps DEF Advance
<1> QED BY <1>1, <1>2, <1>4 DEF Next

-----------------------------------------------------------------------------
(***************************************************************************)
(* What is in the file.                                                    *)
(***************************************************************************)
Extent(c) == Place(c) .. Place(c + 1) - 1
LayoutOK == layout = Layout(setup)

\* Each call is placed after those before it.
LEMMA PlacesGrow ==
  ASSUME setup \in Setups, Described
  PROVE  /\ n_calls \in Nat /\ \A c \in 1 .. n_calls : setup.calls[c] \in Operations
         /\ \A c \in 1 .. n_calls + 1 : Place(c) \in Nat
         /\ Place(1) = 0
         /\ \A c \in 1 .. n_calls : Place(c + 1) = Place(c) + Length(setup.calls[c], Place(c))
         /\ \A c, d \in 1 .. n_calls + 1 : c <= d => Place(c) <= Place(d)
<1>1. /\ setup.calls \in Seq(Operations) /\ n_calls \in Nat
      /\ \A c \in 1 .. n_calls : setup.calls[c] \in Operations
  <2>1. setup.calls \in Seq(Operations)
    BY SetupAssumption
  <2> QED BY <2>1 DEF n_calls
<1>2. /\ \A c \in 1 .. n_calls + 1 : Place(c) \in Nat
      /\ Place(1) = 0
      /\ \A c \in 1 .. n_calls : Place(c + 1) = Place(c) + Length(setup.calls[c], Place(c))
  BY <1>1, PlacingOK DEF Place, n_calls, Described
<1>3. ASSUME NEW c \in 1 .. n_calls PROVE Place(c) <= Place(c + 1)
  <2>1. c \in 1 .. n_calls + 1
    BY <1>1
  <2>2. Length(setup.calls[c], Place(c)) \in Nat
    BY <1>1, <1>2, <2>1, LengthOK
  <2> QED BY <1>2, <2>1, <2>2
<1>4. ASSUME NEW c \in 1 .. n_calls + 1, NEW d \in 1 .. n_calls + 1, c <= d
      PROVE  Place(c) <= Place(d)
  <2> DEFINE S == {k \in Nat : c + k <= n_calls + 1 => Place(c) <= Place(c + k)}
  <2>1. 0 \in S
    BY <1>1, <1>2
  <2>2. ASSUME NEW k \in Nat, k \in S PROVE k + 1 \in S
    <3> SUFFICES ASSUME c + (k + 1) <= n_calls + 1 PROVE Place(c) <= Place(c + (k + 1))
      OBVIOUS
    <3>1. c + k \in 1 .. n_calls /\ (c + k) + 1 = c + (k + 1) /\ c + k \in 1 .. n_calls + 1
          /\ c + (k + 1) \in 1 .. n_calls + 1
      BY <1>1
    <3>2. Place(c + k) <= Place((c + k) + 1)
      BY <1>3, <3>1
    <3>3. Place(c) <= Place(c + k)
      BY <1>1, <2>2, <3>1
    <3>4. Place(c) \in Nat /\ Place(c + k) \in Nat /\ Place(c + (k + 1)) \in Nat
      BY <1>2, <3>1
    <3> QED BY <3>1, <3>2, <3>3, <3>4
  <2> HIDE DEF S
  <2>3. d - c \in Nat /\ c + (d - c) = d
    BY <1>1, <1>4
  <2>4. d - c \in S
    BY <2>1, <2>2, <2>3, Induction
  <2> QED BY <2>3, <2>4 DEF S
<1> QED BY <1>1, <1>2, <1>4

\* What the calls of the setup describe: where each value is, and the blocks.
LEMMA LayoutParts ==
  ASSUME setup \in Setups, LayoutOK
  PROVE  /\ Described
         /\ layout.contents = [p \in 0 .. Place(n_calls + 1) - 1 |-> layout.contents[p]]
         /\ \A c \in 1 .. n_calls : \A p \in Extent(c) :
              p \in 0 .. Place(n_calls + 1) - 1 /\ layout.contents[p] = <<c, p - Place(c) + 1>>
         /\ \A c \in 1 .. n_calls :
              Kind(c) # "block" /\ Extent(c) # {} => Extent(c) \in layout.blocks
         /\ \A c \in 1 .. n_calls, r \in 0 .. setup.n_ranks[1] - 1 : \A b :
              /\ Kind(c) = "block" /\ b # {}
              /\ b = {Place(c) + FirstIn(1, r, c) + i - 2 : i \in 1 .. CountIn(1, r, c)}
              => b \in layout.blocks
<1> DEFINE calls == setup.calls  n == Len(calls)
           chosen == CHOOSE Places : Places =
                       [c \in 1 .. Len(calls) + 1 |->
                          IF c = 1 THEN 0
                          ELSE LET before == Places[c - 1]
                               IN  before + Length(calls[c - 1], before)]
           E(c) == chosen[c] .. chosen[c + 1] - 1
           B(c, r) == {chosen[c] + FirstIn(1, r, c) + i - 2 : i \in 1 .. CountIn(1, r, c)}
           P(c) == IF calls[c].op # "block" THEN {E(c)}
                   ELSE {B(c, r) : r \in 0 .. setup.n_ranks[1] - 1}
           Chosen(p) == CHOOSE c \in 1 .. n : p \in E(c)
<1>1. Described
  BY LayoutPlaces DEF LayoutOK, Described
<1>2. layout.places = [c \in 1 .. n + 1 |-> chosen[c]]
  BY DEF Layout, Length, LayoutOK
<1>3. layout.blocks = (UNION {P(c) : c \in 1 .. n}) \ {{}}
  BY DEF Layout, Length, LayoutOK
<1>4. layout.contents = [p \in 0 .. chosen[n + 1] - 1 |->
                           <<Chosen(p), p - chosen[Chosen(p)] + 1>>]
  BY DEF Layout, Length, LayoutOK
<1> HIDE DEF chosen
<1>5. /\ n_calls = n /\ n \in Nat /\ \A c \in 1 .. n + 1 : chosen[c] = Place(c) /\ Place(c) \in Nat
      /\ \A c, d \in 1 .. n + 1 : c <= d => Place(c) <= Place(d)
      /\ Place(1) = 0
  BY <1>1, <1>2, PlacesGrow DEF Place, n_calls
<1>6. ASSUME NEW c \in 1 .. n
      PROVE  /\ c \in 1 .. n + 1 /\ c + 1 \in 1 .. n + 1 /\ 1 \in 1 .. n + 1 /\ n + 1 \in 1 .. n + 1
             /\ E(c) = Extent(c)
  BY <1>5 DEF Extent
<1>7. ASSUME NEW c \in 1 .. n, NEW p \in Extent(c)
      PROVE  p \in 0 .. Place(n + 1) - 1 /\ layout.contents[p] = <<c, p - Place(c) + 1>>
  <2>1. p \in Int /\ Place(c) <= p /\ p < Place(c + 1)
    BY <1>5, <1>6 DEF Extent
  <2>2. /\ Place(c) \in Nat /\ Place(c + 1) \in Nat /\ Place(n + 1) \in Nat
        /\ Place(c + 1) <= Place(n + 1)
    BY <1>5, <1>6
  <2>3. p \in 0 .. Place(n + 1) - 1
    <3> DEFINE x == Place(c)  y == Place(c + 1)  z == Place(n + 1)
    <3> HIDE DEF x, y, z
    <3>1. x \in Nat /\ y \in Nat /\ z \in Nat /\ p \in Int /\ x <= p /\ p < y /\ y <= z
      BY <2>1, <2>2 DEF x, y, z
    <3>2. p \in 0 .. z - 1
      BY <3>1
    <3> QED BY <3>2 DEF z
  <2>4. ASSUME NEW d \in 1 .. n, p \in E(d) PROVE d = c
    <3>1. Place(d) <= p /\ p < Place(d + 1) /\ Place(d) \in Nat /\ Place(d + 1) \in Nat
      BY <1>5, <1>6, <2>4 DEF Extent
    <3>2. CASE d < c
      <4>1. Place(d + 1) <= Place(c)
        BY <1>5, <1>6, <3>2
      <4> QED BY <1>5, <1>6, <2>1, <3>1, <4>1
    <3>3. CASE c < d
      <4>1. Place(c + 1) <= Place(d)
        BY <1>5, <1>6, <3>3
      <4> QED BY <1>5, <1>6, <2>1, <3>1, <4>1
    <3> QED BY <3>2, <3>3
  <2>5. p \in E(c)
    BY <1>6
  <2> HIDE DEF E
  <2>6. Chosen(p) \in 1 .. n /\ p \in E(Chosen(p))
    BY <2>5
  <2>7. Chosen(p) = c
    BY <2>4, <2>6
  <2>8. p \in 0 .. chosen[n + 1] - 1
    BY <1>5, <1>6, <2>3
  <2>9. layout.contents[p] = <<Chosen(p), p - chosen[Chosen(p)] + 1>>
    BY <1>4, <2>8
  <2> HIDE DEF Chosen
  <2>10. layout.contents[p] = <<c, p - chosen[c] + 1>>
    BY <2>7, <2>9
  <2> QED BY <1>5, <1>6, <2>3, <2>10
<1>8. layout.contents = [p \in 0 .. Place(n + 1) - 1 |-> layout.contents[p]]
  <2> HIDE DEF Chosen
  <2>1. layout.contents = [p \in 0 .. chosen[n + 1] - 1 |-> layout.contents[p]]
    BY <1>4
  <2>2. chosen[n + 1] = Place(n + 1)
    BY <1>5
  <2> QED BY <2>1, <2>2
<1>9. ASSUME NEW c \in 1 .. n, Kind(c) # "block", Extent(c) # {} PROVE Extent(c) \in layout.blocks
  <2>1. Extent(c) \in P(c)
    BY <1>6, <1>9 DEF Kind
  <2> HIDE DEF P
  <2> QED BY <1>3, <1>9, <2>1
<1>10. ASSUME NEW c \in 1 .. n, NEW r \in 0 .. setup.n_ranks[1] - 1, NEW b, Kind(c) = "block",
              b # {}, b = {Place(c) + FirstIn(1, r, c) + i - 2 : i \in 1 .. CountIn(1, r, c)}
       PROVE  b \in layout.blocks
  <2>1. chosen[c] = Place(c)
    BY <1>5, <1>6
  <2>2. b = B(c, r)
    BY <1>10, <2>1
  <2> HIDE DEF B
  <2>3. b \in P(c)
    BY <1>10, <2>2 DEF Kind
  <2> HIDE DEF P
  <2> QED BY <1>3, <1>10, <2>3
<1> QED BY <1>1, <1>5, <1>7, <1>8, <1>9, <1>10

\* What a rank, or rank 0 alone, writes in a call.
Fills(c, k) ==
  IF Kind(c) = "block" THEN Place(c) + Upto(c, k) .. Place(c) + Upto(c, k + 1) - 1
  ELSE IF k = 0 THEN Extent(c) ELSE {}

\* Where the parts of a block are.
LEMMA BlockPlaces ==
  ASSUME setup \in Setups, Described, run \in {1, 2}, NEW c \in 1 .. n_calls, Kind(c) = "block"
  PROVE  /\ \A j, k \in 0 .. n_ranks : j <= k => Upto(c, j) <= Upto(c, k)
         /\ Place(c + 1) = Place(c) + Upto(c, n_ranks)
<1>1. /\ \A k \in 0 .. n_ranks : Upto(c, k) \in Nat
      /\ Upto(c, n_ranks) = setup.calls[c].n * setup.calls[c].stride
      /\ \A q \in Active : /\ CountIn(run, q, c) \in Nat
                           /\ Upto(c, q + 1) = Upto(c, q) + CountIn(run, q, c)
  BY BlockOK
<1>2. n_ranks \in Nat /\ Active = 0 .. n_ranks - 1
  BY ConfigOK DEF Active
<1>3. ASSUME NEW j \in 0 .. n_ranks, NEW k \in 0 .. n_ranks, j <= k
      PROVE  Upto(c, j) <= Upto(c, k)
  <2> DEFINE S == {i \in Nat : j + i <= n_ranks => Upto(c, j) <= Upto(c, j + i)}
  <2>1. 0 \in S
    BY <1>1
  <2>2. ASSUME NEW i \in Nat, i \in S PROVE i + 1 \in S
    <3> SUFFICES ASSUME j + (i + 1) <= n_ranks PROVE Upto(c, j) <= Upto(c, j + (i + 1))
      OBVIOUS
    <3>1. j + i \in Active /\ (j + i) + 1 = j + (i + 1) /\ j + i \in 0 .. n_ranks
      BY <1>2
    <3>2. /\ Upto(c, j + (i + 1)) = Upto(c, j + i) + CountIn(run, j + i, c)
          /\ CountIn(run, j + i, c) \in Nat
          /\ Upto(c, j + i) \in Nat /\ Upto(c, j) \in Nat
      BY <1>1, <3>1
    <3>3. Upto(c, j) <= Upto(c, j + i)
      BY <1>2, <2>2, <3>1
    <3> QED BY <3>2, <3>3
  <2> HIDE DEF S
  <2>3. k - j \in Nat /\ j + (k - j) = k
    BY <1>2, <1>3
  <2>4. k - j \in S
    BY <2>1, <2>2, <2>3, Induction
  <2> QED BY <1>2, <2>3, <2>4 DEF S
<1>4. Place(c + 1) = Place(c) + Upto(c, n_ranks)
  <2>1. Length(setup.calls[c], Place(c)) = Upto(c, n_ranks)
    BY <1>1 DEF Length, Kind
  <2> QED BY <2>1, PlacesGrow
<1> QED BY <1>3, <1>4

LEMMA FillsInside ==
  ASSUME setup \in Setups, LayoutOK, run \in {1, 2}, NEW c \in 1 .. n_calls, NEW k \in Active
  PROVE  /\ Fills(c, k) \subseteq Extent(c)
         /\ \A p \in Fills(c, k) : /\ p \in 0 .. Place(n_calls + 1) - 1
                                   /\ layout.contents[p] = <<c, p - Place(c) + 1>>
<1>1. CASE Kind(c) # "block"
  <2>1. Fills(c, k) \subseteq Extent(c)
    BY <1>1 DEF Fills
  <2> QED BY <2>1, LayoutParts
<1>2. CASE Kind(c) = "block"
  <2>1. Described
    BY LayoutParts
  <2>2. n_ranks \in Nat /\ k \in 0 .. n_ranks /\ k + 1 \in 0 .. n_ranks /\ n_ranks \in 0 .. n_ranks
        /\ 0 \in 0 .. n_ranks
    BY ConfigOK DEF Active
  <2>3. /\ Upto(c, k) \in Nat /\ Upto(c, k + 1) \in Nat /\ Upto(c, n_ranks) \in Nat
        /\ Upto(c, k + 1) <= Upto(c, n_ranks)
        /\ Place(c + 1) = Place(c) + Upto(c, n_ranks)
    BY <1>2, <2>1, <2>2, BlockOK, BlockPlaces
  <2>4. Place(c) \in Nat
    <3>1. c \in 1 .. n_calls + 1 /\ \A d \in 1 .. n_calls + 1 : Place(d) \in Nat
      BY <2>1, PlacesGrow
    <3> QED BY <3>1
  <2>5. Fills(c, k) \subseteq Extent(c)
    <3> DEFINE x == Upto(c, k)  y == Upto(c, k + 1)  z == Upto(c, n_ranks)  a == Place(c)
    <3>1. Fills(c, k) = a + x .. a + y - 1 /\ Extent(c) = a .. (a + z) - 1
      BY <1>2, <2>3 DEF Fills, Extent
    <3>2. x \in Nat /\ y \in Nat /\ z \in Nat /\ a \in Nat /\ y <= z
      BY <2>3, <2>4
    <3> HIDE DEF x, y, z, a
    <3> QED BY <3>1, <3>2
  <2> QED BY <2>5, LayoutParts
<1> QED BY <1>1, <1>2

LEMMA FillsBlock ==
  ASSUME setup \in Setups, LayoutOK, run = 1, NEW c \in 1 .. n_calls, NEW k \in Active,
         Fills(c, k) # {}
  PROVE  Fills(c, k) \in layout.blocks
<1>1. CASE Kind(c) # "block"
  <2>1. Fills(c, k) = Extent(c)
    BY <1>1 DEF Fills
  <2> QED BY <1>1, <2>1, LayoutParts
<1>2. CASE Kind(c) = "block"
  <2> DEFINE b == {Place(c) + FirstIn(1, k, c) + i - 2 : i \in 1 .. CountIn(1, k, c)}
  <2>1. k \in 0 .. setup.n_ranks[1] - 1
    BY DEF Active, n_ranks
  <2>2. /\ FirstIn(1, k, c) = Upto(c, k) + 1 /\ Upto(c, k + 1) = Upto(c, k) + CountIn(1, k, c)
        /\ CountIn(1, k, c) \in Nat
    BY <1>2, BlockOK
  <2>3. Upto(c, k) \in Nat
    <3>1. k \in 0 .. n_ranks
      BY ConfigOK DEF Active
    <3> QED BY <1>2, <3>1, BlockOK
  <2>4. Place(c) \in Nat
    <3>1. c \in 1 .. n_calls + 1 /\ \A d \in 1 .. n_calls + 1 : Place(d) \in Nat
      BY LayoutParts, PlacesGrow
    <3> QED BY <3>1
  <2>5. Fills(c, k) = b
    <3> DEFINE x == Upto(c, k)  y == CountIn(1, k, c)  a == Place(c)
    <3>1. Fills(c, k) = a + x .. a + (x + y) - 1
      BY <1>2, <2>2 DEF Fills
    <3>2. b = {a + (x + 1) + i - 2 : i \in 1 .. y}
      BY <2>2
    <3>3. x \in Nat /\ y \in Nat /\ a \in Nat
      BY <2>2, <2>3, <2>4
    <3> HIDE DEF x, y, a, b
    <3>4. ASSUME NEW p \in a + x .. a + (x + y) - 1
          PROVE  \E i \in 1 .. y : p = a + (x + 1) + i - 2
      <4>1. p - a - x + 1 \in 1 .. y /\ p = a + (x + 1) + (p - a - x + 1) - 2
        BY <3>3
      <4> QED BY <4>1
    <3>5. ASSUME NEW i \in 1 .. y PROVE a + (x + 1) + i - 2 \in a + x .. a + (x + y) - 1
      BY <3>3
    <3> QED BY <3>1, <3>2, <3>4, <3>5
  <2> HIDE DEF b
  <2>6. b # {}
    BY <2>5
  <2> QED BY <1>2, <2>1, <2>5, <2>6, LayoutParts DEF b
<1> QED BY <1>1, <1>2

LEMMA FillsApart ==
  ASSUME setup \in Setups, LayoutOK, run \in {1, 2},
         NEW c \in 1 .. n_calls, NEW k \in Active, NEW d \in 1 .. n_calls, NEW j \in Active,
         NEW p, p \in Fills(c, k), p \in Fills(d, j)
  PROVE  c = d /\ k = j
<1>1. c = d
  <2>1. layout.contents[p] = <<c, p - Place(c) + 1>> /\ layout.contents[p] = <<d, p - Place(d) + 1>>
    BY FillsInside
  <2> QED BY <2>1
<1>2. CASE Kind(c) # "block"
  BY <1>1, <1>2 DEF Fills
<1>3. CASE Kind(c) = "block"
  <2>1. Described
    BY LayoutParts
  <2>2. n_ranks \in Nat /\ Active = 0 .. n_ranks - 1
    BY ConfigOK DEF Active
  <2>3. /\ \A x, y \in 0 .. n_ranks : x <= y => Upto(c, x) <= Upto(c, y)
        /\ \A x \in 0 .. n_ranks : Upto(c, x) \in Nat
    BY <1>3, <2>1, BlockOK, BlockPlaces
  <2>4. Place(c) \in Nat
    <3>1. c \in 1 .. n_calls + 1 /\ \A e \in 1 .. n_calls + 1 : Place(e) \in Nat
      BY <2>1, PlacesGrow
    <3> QED BY <3>1
  <2>5. /\ p \in Place(c) + Upto(c, k) .. Place(c) + Upto(c, k + 1) - 1
        /\ p \in Place(c) + Upto(c, j) .. Place(c) + Upto(c, j + 1) - 1
    BY <1>1, <1>3 DEF Fills
  <2>6. /\ k \in 0 .. n_ranks /\ k + 1 \in 0 .. n_ranks /\ j \in 0 .. n_ranks
        /\ j + 1 \in 0 .. n_ranks
    BY <2>2
  <2> DEFINE x1 == Upto(c, k)  x2 == Upto(c, k + 1)  y1 == Upto(c, j)  y2 == Upto(c, j + 1)
             a == Place(c)
  <2>7. /\ x1 \in Nat /\ x2 \in Nat /\ y1 \in Nat /\ y2 \in Nat /\ a \in Nat
        /\ k + 1 <= j => x2 <= y1
        /\ j + 1 <= k => y2 <= x1
        /\ p \in a + x1 .. a + x2 - 1 /\ p \in a + y1 .. a + y2 - 1
    BY <2>3, <2>4, <2>5, <2>6
  <2> HIDE DEF x1, x2, y1, y2, a
  <2>8. ~(k + 1 <= j) /\ ~(j + 1 <= k)
    BY <2>7
  <2> QED BY <1>1, <2>2, <2>8
<1> QED BY <1>2, <1>3

\* Together they fill the file.
LEMMA FillsAll ==
  ASSUME setup \in Setups, LayoutOK, run \in {1, 2}, NEW p \in 0 .. Place(n_calls + 1) - 1
  PROVE  \E c \in 1 .. n_calls : \E k \in Active : p \in Fills(c, k)
<1>1. Described /\ n_calls \in Nat /\ Place(1) = 0 /\ (\A c \in 1 .. n_calls + 1 : Place(c) \in Nat)
  BY LayoutParts, PlacesGrow
<1>2. p \in Nat /\ p < Place(n_calls + 1)
  <2>1. n_calls + 1 \in 1 .. n_calls + 1
    BY <1>1
  <2> QED BY <1>1, <2>1
<1>3. n_calls # 0
  BY <1>1, <1>2
<1> DEFINE S == {c \in 1 .. n_calls : p < Place(c + 1)}
<1>4. n_calls \in S /\ S \subseteq Nat
  BY <1>1, <1>2, <1>3
<1>5. PICK c \in S : \A d \in S : c <= d
  <2> HIDE DEF S
  <2> QED BY <1>4, LeastExists
<1>6. c \in 1 .. n_calls /\ p < Place(c + 1) /\ c \in 1 .. n_calls + 1
  BY <1>1
<1>7. Place(c) <= p
  <2>1. CASE c = 1
    BY <1>1, <1>2, <2>1
  <2>2. CASE c # 1
    <3>1. c - 1 \in 1 .. n_calls /\ (c - 1) + 1 = c /\ ~(c <= c - 1)
      BY <1>1, <1>6, <2>2
    <3>2. c - 1 \notin S
      <4> HIDE DEF S
      <4> QED BY <1>5, <3>1
    <3>3. ~(p < Place(c))
      BY <3>1, <3>2
    <3> QED BY <1>1, <1>2, <1>6, <3>3
  <2> QED BY <2>1, <2>2
<1>8. CASE Kind(c) # "block"
  <2>1. c + 1 \in 1 .. n_calls + 1
    BY <1>1, <1>6
  <2>2. p \in Extent(c)
    BY <1>1, <1>2, <1>6, <1>7, <2>1 DEF Extent
  <2>3. 0 \in Active
    BY ConfigOK
  <2>4. p \in Fills(c, 0)
    BY <1>8, <2>2 DEF Fills
  <2> QED BY <1>6, <2>3, <2>4
<1>9. CASE Kind(c) = "block"
  <2>1. n_ranks \in Nat \ {0} /\ Active = 0 .. n_ranks - 1
    BY ConfigOK DEF Active
  <2>2. /\ \A x \in 0 .. n_ranks : Upto(c, x) \in Nat
        /\ Upto(c, 0) = 0 /\ Place(c + 1) = Place(c) + Upto(c, n_ranks)
    BY <1>1, <1>6, <1>9, BlockOK, BlockPlaces
  <2> DEFINE T == {k \in 0 .. n_ranks : p < Place(c) + Upto(c, k)}
  <2>3. n_ranks \in T /\ T \subseteq Nat
    BY <1>6, <2>1, <2>2
  <2>4. PICK k \in T : \A j \in T : k <= j
    <3> HIDE DEF T
    <3> QED BY <2>3, LeastExists
  <2>5. Place(c) \in Nat /\ k \in 0 .. n_ranks /\ p < Place(c) + Upto(c, k)
    BY <1>1, <1>6
  <2>6. k # 0
    BY <1>2, <1>7, <2>2, <2>5
  <2>7. k - 1 \in Active /\ (k - 1) + 1 = k /\ k - 1 \in 0 .. n_ranks /\ ~(k <= k - 1)
    BY <2>1, <2>5, <2>6
  <2>8. k - 1 \notin T
    <3> HIDE DEF T
    <3> QED BY <2>4, <2>7
  <2>9. ~(p < Place(c) + Upto(c, k - 1))
    BY <2>7, <2>8
  <2>10. Upto(c, k - 1) \in Nat /\ Upto(c, k) \in Nat
    BY <2>2, <2>5, <2>7
  <2>11. p \in Place(c) + Upto(c, k - 1) .. Place(c) + Upto(c, k) - 1
    <3> HIDE DEF T
    <3> DEFINE x == Upto(c, k - 1)  y == Upto(c, k)  a == Place(c)
    <3>1. x \in Nat /\ y \in Nat /\ a \in Nat /\ p \in Nat /\ p < a + y /\ ~(p < a + x)
      BY <1>2, <2>5, <2>9, <2>10
    <3> HIDE DEF x, y, a
    <3>2. p \in a + x .. a + y - 1
      BY <3>1
    <3> QED BY <3>2 DEF x, y, a
  <2>12. p \in Fills(c, k - 1)
    BY <1>9, <2>7, <2>11 DEF Fills
  <2> QED BY <1>6, <2>7, <2>12
<1> QED BY <1>8, <1>9

\* Who writes the part of a rank, and whether it is written.
Writer(k) == IF method = "serial" THEN 0 ELSE k
Done(c, k) ==
  LET w == Writer(k)
  IN  \/ c < call[w]
      \/ c = call[w] /\ phase[w] = "end"
      \/ c = call[w] /\ phase[w] \in {"advance", "await"} /\ k < ser.next_rank_id
Filled ==
  {p \in Nat : \E c \in 1 .. n_calls : \E k \in Active : p \in Fills(c, k) /\ Done(c, k)}
FileOK == file = IF writing THEN [p \in Filled |-> layout.contents[p]] ELSE layout.contents

\* What a step leaves alone in the file and in what is to be there.
LEMMA FillsFrame ==
  ASSUME UNCHANGED <<setup, layout, run>>
  PROVE  \A c, k : Fills(c, k)' = Fills(c, k) /\ Writer(k)' = Writer(k)
<1>1. /\ \A c : Kind(c)' = Kind(c) /\ Place(c)' = Place(c)
      /\ \A c, k : Upto(c, k)' = Upto(c, k)
      /\ method' = method
  BY Frame
<1>2. \A c : Extent(c)' = Extent(c)
  BY <1>1 DEF Extent
<1> QED BY <1>1, <1>2 DEF Fills, Writer

LEMMA FilledType ==
  ASSUME LocalInv, LayoutOK
  PROVE  /\ \A p : p \in Filled <=>
              \E c \in 1 .. n_calls : \E k \in Active : p \in Fills(c, k) /\ Done(c, k)
         /\ Filled \subseteq 0 .. Place(n_calls + 1) - 1
<1>1. setup \in Setups /\ run \in {1, 2}
  BY DEF LocalInv, RankTyped
<1>2. ASSUME NEW c \in 1 .. n_calls, NEW k \in Active, NEW p \in Fills(c, k)
      PROVE  p \in 0 .. Place(n_calls + 1) - 1 /\ p \in Nat
  <2>1. p \in 0 .. Place(n_calls + 1) - 1
    BY <1>1, FillsInside
  <2> QED BY <2>1
<1> QED BY <1>2 DEF Filled

LEMMA FileKept ==
  ASSUME LocalInv, LayoutOK, FileOK, UNCHANGED <<setup, layout, run, file>>,
         writing => \A c \in 1 .. n_calls : \A k \in Active :
                      Fills(c, k) # {} => (Done(c, k)' <=> Done(c, k))
  PROVE  FileOK' /\ UNCHANGED Promise!vars
<1>1. UNCHANGED Promise!vars
  BY DEF Promise!vars
<1>2. /\ writing' = writing /\ n_calls' = n_calls /\ Active' = Active
      /\ \A c, k : Fills(c, k)' = Fills(c, k)
  BY Frame, FillsFrame
<1>3. ASSUME ~writing PROVE FileOK'
  BY <1>2, <1>3 DEF FileOK
<1>4. ASSUME writing PROVE FileOK'
  <2>1. Filled' = Filled
    <3>1. ASSUME NEW c \in 1 .. n_calls, NEW k \in Active, NEW p
          PROVE  (p \in Fills(c, k) /\ Done(c, k))' <=> p \in Fills(c, k) /\ Done(c, k)
      <4>1. Fills(c, k)' = Fills(c, k)
        BY <1>2
      <4>2. Fills(c, k) # {} => (Done(c, k)' <=> Done(c, k))
        BY <1>4
      <4> QED BY <4>1, <4>2
    <3> QED BY <1>2, <3>1 DEF Filled
  <2> QED BY <1>2, <1>4, <2>1 DEF FileOK
<1> QED BY <1>1, <1>3, <1>4

\* The file with what is to be at more positions.
WithPart(part) == [p \in DOMAIN file \cup part |-> layout.contents[p]]

\* Writing the part of a rank in a call.
LEMMA PartWritten ==
  ASSUME LocalInv, LayoutOK, FileOK, writing, UNCHANGED <<setup, layout, run>>,
         NEW c \in 1 .. n_calls, NEW k \in Active, ~Done(c, k),
         \A d \in 1 .. n_calls : \A j \in Active :
           Fills(d, j) # {} => (Done(d, j)' <=> Done(d, j) \/ (d = c /\ j = k)),
         file' = WithPart(Fills(c, k))
  PROVE  FileOK' /\ [Promise!Write]_(Promise!vars)
<1> DEFINE new == Fills(c, k)
<1>1. /\ writing' = writing /\ n_calls' = n_calls /\ Active' = Active
      /\ \A d, j : Fills(d, j)' = Fills(d, j)
  BY Frame, FillsFrame
<1>2. setup \in Setups /\ run = 1
  BY DEF LocalInv, RankTyped, writing
<1>3. file = [p \in Filled |-> layout.contents[p]]
  BY DEF FileOK
<1>4. /\ \A p : p \in Filled <=>
           \E d \in 1 .. n_calls : \E j \in Active : p \in Fills(d, j) /\ Done(d, j)
      /\ Filled \subseteq Nat
  <2>1. \A p \in 0 .. Place(n_calls + 1) - 1 : p \in Nat
    OBVIOUS
  <2> QED BY <2>1, FilledType
<1>5. \A p \in new : p \in Nat
  <2>1. \A p \in new : p \in 0 .. Place(n_calls + 1) - 1
    BY <1>2, FillsInside
  <2> QED BY <2>1
<1>6. Filled' = Filled \cup new
  <2>1. ASSUME NEW p PROVE p \in Filled' <=> p \in Filled \cup new
    <3>1. p \in Filled' <=> p \in Nat /\ \E d \in 1 .. n_calls : \E j \in Active :
                                             p \in Fills(d, j) /\ Done(d, j)'
      BY <1>1 DEF Filled
    <3>2. ASSUME NEW d \in 1 .. n_calls, NEW j \in Active, p \in Fills(d, j)
          PROVE  Done(d, j)' <=> Done(d, j) \/ (d = c /\ j = k)
      <4>1. Fills(d, j) # {}
        BY <3>2
      <4> QED BY <4>1
    <3>3. p \in Filled => p \in Filled'
      BY <1>4, <3>1, <3>2
    <3>4. p \in new => p \in Filled'
      BY <1>5, <3>1, <3>2
    <3>5. p \in Filled' => p \in Filled \/ p \in new
      BY <1>4, <3>1, <3>2
    <3> QED BY <3>3, <3>4, <3>5
  <2> QED BY <2>1
<1>7. FileOK'
  BY <1>1, <1>3, <1>6 DEF FileOK, WithPart
<1>8. [Promise!Write]_(Promise!vars)
  <2>1. CASE new = {}
    <3>1. file' = file
      BY <1>3, <2>1 DEF WithPart
    <3> QED BY <3>1 DEF Promise!vars
  <2>2. CASE new # {}
    <3>1. new \in layout.blocks
      BY <1>2, <2>2, FillsBlock
    <3>2. new \cap DOMAIN file = {}
      <4> SUFFICES ASSUME NEW p, p \in new, p \in Filled PROVE FALSE
        BY <1>3
      <4>1. PICK d \in 1 .. n_calls, j \in Active : p \in Fills(d, j) /\ Done(d, j)
        BY <1>4
      <4>2. c = d /\ k = j
        BY <1>2, <4>1, FillsApart
      <4> QED BY <4>1, <4>2
    <3>3. file' = Promise!Restrict(layout.contents, DOMAIN file \cup new)
      BY DEF Promise!Restrict, WithPart
    <3>4. UNCHANGED <<layout.blocks, layout.contents>>
      OBVIOUS
    <3> HIDE DEF new
    <3>5. Promise!Write
      BY <3>1, <3>2, <3>3, <3>4 DEF Promise!Write
    <3> QED BY <3>5
  <2> QED BY <2>1, <2>2
<1> QED BY <1>7, <1>8

\* Values put in the file where they are to be.
LEMMA PutPart ==
  ASSUME LocalInv, LayoutOK, FileOK, writing,
         NEW c \in 1 .. n_calls, NEW k \in Active, NEW first \in Nat \ {0}, NEW n \in Nat,
         NEW at \in Nat, at = Place(c) + first - 1, Fills(c, k) = at .. at + n - 1
  PROVE  Put(at, Values(c, first, n)) = WithPart(Fills(c, k))
<1> DEFINE vals == Values(c, first, n)  new == Fills(c, k)
<1>1. setup \in Setups /\ run \in {1, 2} /\ Described
  BY DEF LocalInv, RankTyped
<1>2. Place(c) \in Nat
  <2>1. c \in 1 .. n_calls + 1 /\ \A d \in 1 .. n_calls + 1 : Place(d) \in Nat
    BY <1>1, PlacesGrow
  <2> QED BY <2>1
<1>3. at \in Nat /\ new = at .. at + n - 1
  BY <1>2
<1>4. vals = [i \in 1 .. n |-> <<c, first + i - 1>>] /\ Len(vals) = n
  BY DEF Values
<1>5. file = [p \in Filled |-> layout.contents[p]] /\ Filled \subseteq Nat
  <2>1. \A p \in 0 .. Place(n_calls + 1) - 1 : p \in Nat
    OBVIOUS
  <2> QED BY <2>1, FilledType DEF FileOK
<1>6. ASSUME NEW p \in new
      PROVE  /\ p >= at /\ p < at + n /\ p \in Nat
             /\ vals[p - at + 1] = layout.contents[p]
  <2>1. p \in Nat /\ p >= at /\ p < at + n
    BY <1>3
  <2>2. p - at + 1 \in 1 .. n
    <3> HIDE DEF new
    <3> QED BY <1>3, <2>1
  <2>3. first + (p - at + 1) - 1 = p - Place(c) + 1
    BY <1>2, <2>1
  <2>4. vals[p - at + 1] = <<c, first + (p - at + 1) - 1>>
    BY <1>4, <2>2
  <2>5. layout.contents[p] = <<c, p - Place(c) + 1>>
    BY <1>1, FillsInside
  <2> QED BY <2>1, <2>3, <2>4, <2>5
<1>7. ASSUME NEW p \in Filled, p \notin new PROVE ~(p >= at /\ p < at + n)
  BY <1>3, <1>5, <1>7
<1> HIDE DEF vals, new
<1>8. Put(at, vals) = [p \in DOMAIN file \cup new |->
                         IF p >= at /\ p < at + n THEN vals[p - at + 1] ELSE file[p]]
  BY <1>3, <1>4 DEF Put
<1>9. ASSUME NEW p \in DOMAIN file \cup new
      PROVE  (IF p >= at /\ p < at + n THEN vals[p - at + 1] ELSE file[p]) = layout.contents[p]
  <2>1. CASE p \in new
    BY <1>6, <2>1
  <2>2. CASE p \notin new
    BY <1>5, <1>7, <2>2
  <2> QED BY <2>1, <2>2
<1>10. Put(at, vals) = [p \in DOMAIN file \cup new |-> layout.contents[p]]
  BY <1>8, <1>9
<1> QED BY <1>10 DEF vals, new, WithPart

-----------------------------------------------------------------------------
\* A step of a rank leaves the others where they are.
Moves(r) ==
  /\ UNCHANGED <<setup, layout, run>>
  /\ \A q \in Ranks \ {r} : call'[q] = call[q] /\ phase'[q] = phase[q]
  /\ r # 0 => ser' = ser

LEMMA OneMoves ==
  ASSUME LocalInv, NEW r \in Ranks, Advance(r)
  PROVE  Moves(r)
<1>1. call \in [Ranks -> Nat] /\ DOMAIN phase = Ranks
  BY DEF LocalInv, RankTyped
<1>2. ASSUME NEW ph, Goto(r, ph)
      PROVE  \A q \in Ranks \ {r} : call'[q] = call[q] /\ phase'[q] = phase[q]
  BY <1>1, <1>2 DEF Goto
<1>3. ASSUME Return(r)
      PROVE  \A q \in Ranks \ {r} : call'[q] = call[q] /\ phase'[q] = phase[q]
  BY <1>1, <1>3 DEF Return
<1>4. Abort => Moves(r)
  BY DEF Abort, Moves
<1>5. ASSUME Tell(r) PROVE Moves(r)
  BY <1>2, <1>5 DEF Tell, Moves
<1>6. ASSUME Seek(r) PROVE Moves(r)
  BY <1>3, <1>6 DEF Seek, Moves
<1>7. ASSUME WriteGlobal(r) PROVE Moves(r)
  BY <1>3, <1>7 DEF WriteGlobal, Moves
<1>8. ASSUME ReadGlobal(r) PROVE Moves(r)
  BY <1>3, <1>4, <1>8 DEF ReadGlobal, Moves
<1>9. ASSUME InitSerializer(r) PROVE Moves(r)
  <2>1. CASE r # 0
    BY <1>2, <1>9, <2>1 DEF InitSerializer, Deposit, Moves
  <2>2. CASE r = 0
    BY <1>2, <1>9, <2>2 DEF InitSerializer, Moves
  <2> QED BY <2>1, <2>2
<1>10. ASSUME OwnBlock(r) PROVE Moves(r)
  BY <1>10 DEF OwnBlock, Moves
<1>11. ASSUME Request(r) PROVE Moves(r)
  BY <1>2, <1>11 DEF Request, Moves
<1>12. ASSUME Serve(r) PROVE Moves(r)
  BY <1>2, <1>4, <1>12 DEF Serve, Moves
<1>13. ASSUME Collect(r) PROVE Moves(r)
  BY <1>2, <1>13 DEF Collect, Moves
<1>14. ASSUME Scatter(r) PROVE Moves(r)
  BY <1>2, <1>14 DEF Scatter, Moves
<1>15. ASSUME ReadOwn(r) PROVE Moves(r)
  <2>1. CASE r # 0
    BY <1>2, <1>15, <2>1 DEF ReadOwn, Deposit, Moves
  <2>2. CASE r = 0
    BY <1>2, <1>4, <1>15, <2>2 DEF ReadOwn, Moves
  <2> QED BY <2>1, <2>2
<1>16. ASSUME GatherCounts(r) PROVE Moves(r)
  BY <1>2, <1>16 DEF GatherCounts, Moves
<1>17. ASSUME Deal(r) PROVE Moves(r)
  BY <1>2, <1>4, <1>17 DEF Deal, Moves
<1>18. ASSUME Receive(r) PROVE Moves(r)
  BY <1>2, <1>18 DEF Receive, Moves
<1>19. ASSUME Access(r) PROVE Moves(r)
  BY <1>2, <1>4, <1>19 DEF Access, Moves
<1>20. ASSUME EndBlock(r) PROVE Moves(r)
  BY <1>3, <1>20 DEF EndBlock, Moves
<1> QED BY <1>5, <1>6, <1>7, <1>8, <1>9, <1>10, <1>11, <1>12, <1>13, <1>14, <1>15, <1>16,
           <1>17, <1>18, <1>19, <1>20 DEF Advance

\* What others write is written or not as before.
LEMMA DoneElsewhere ==
  ASSUME LocalInv, NEW r \in Ranks, Moves(r), NEW c, NEW k \in Active, Writer(k) # r
  PROVE  Done(c, k)' <=> Done(c, k)
<1>1. Writer(k)' = Writer(k)
  BY FillsFrame DEF Moves
<1>2. PICK w \in Ranks : w = Writer(k) /\ w # r
  BY ConfigOK DEF Writer, LocalInv, RankTyped
<1>3. call'[w] = call[w] /\ phase'[w] = phase[w]
  BY <1>2 DEF Moves
<1>4. CASE w = 0
  <2>1. ser' = ser
    BY <1>2, <1>4 DEF Moves
  <2> QED BY <1>1, <1>2, <1>3, <2>1 DEF Done
<1>5. CASE w # 0
  <2>1. Stage(w)
    BY DEF LocalInv
  <2>2. phase[w] \notin {"advance", "await"}
    BY <1>5, <2>1 DEF Stage, StageIn
  <2> QED BY <1>1, <1>2, <1>3, <2>2 DEF Done
<1> QED BY <1>4, <1>5

\* A step that writes nothing.
Wrote == FileOK' /\ [Promise!Write]_(Promise!vars)

LEMMA NothingWritten ==
  ASSUME LocalInv, LayoutOK, FileOK, NEW r \in Ranks, Moves(r), UNCHANGED file,
         writing => \A c \in 1 .. n_calls : \A k \in Active :
           Writer(k) = r /\ Fills(c, k) # {} => (Done(c, k)' <=> Done(c, k))
  PROVE  Wrote
<1>1. writing => \A c \in 1 .. n_calls : \A k \in Active :
                   Fills(c, k) # {} => (Done(c, k)' <=> Done(c, k))
  BY DoneElsewhere
<1>2. UNCHANGED <<setup, layout, run, file>>
  BY DEF Moves
<1> QED BY <1>1, <1>2, FileKept DEF Wrote

\* Whether the parts of a rank are written, when it goes on in its call or returns.
LEMMA DoneHere ==
  ASSUME LocalInv, NEW r \in Active, Moves(r), NEW c \in 1 .. n_calls, NEW k \in Active,
         Writer(k) = r, call[r] \in 1 .. n_calls
  PROVE  /\ call' = call =>
              /\ c < call[r] => Done(c, k) /\ Done(c, k)'
              /\ c > call[r] => ~Done(c, k) /\ ~Done(c, k)'
         /\ call'[r] = call[r] + 1 /\ phase'[r] = "start" =>
              /\ c < call[r] => Done(c, k) /\ Done(c, k)'
              /\ c > call[r] => ~Done(c, k) /\ ~Done(c, k)'
              /\ c = call[r] => Done(c, k)'
<1>1. Writer(k)' = Writer(k)
  BY FillsFrame DEF Moves
<1>2. call[r] \in Nat /\ c \in Nat
  BY ConfigOK DEF LocalInv, RankTyped
<1>3. /\ c < call[r] => Done(c, k)
      /\ c > call[r] => ~Done(c, k)
  BY <1>2 DEF Done
<1>4. /\ c < call'[r] => Done(c, k)'
      /\ c > call'[r] => ~Done(c, k)' \/ call'[r] \notin Nat
      /\ c = call'[r] /\ phase'[r] = "start" => ~Done(c, k)'
  BY <1>1, <1>2 DEF Done
<1> QED BY <1>2, <1>3, <1>4

\* It is enough to look at the call that the rank is in.
LEMMA NothingWrittenIn ==
  ASSUME LocalInv, LayoutOK, FileOK, NEW r \in Active, Moves(r), UNCHANGED file,
         NEW d \in 1 .. n_calls, d = call[r],
         call' = call \/ (call'[r] = call[r] + 1 /\ phase'[r] = "start"),
         writing => \A k \in Active :
           Writer(k) = r /\ Fills(d, k) # {} => (Done(d, k)' <=> Done(d, k))
  PROVE  Wrote
<1>1. r \in Ranks /\ call[r] \in Nat /\ n_calls \in Nat
  BY ConfigOK DEF LocalInv, RankTyped
<1>2. ASSUME writing, NEW c \in 1 .. n_calls, NEW k \in Active, Writer(k) = r, Fills(c, k) # {}
      PROVE  Done(c, k)' <=> Done(c, k)
  <2>1. c = call[r] \/ c < call[r] \/ c > call[r]
    BY <1>1
  <2>2. CASE c = d
    BY <1>2, <2>2
  <2>3. CASE c # d
    <3>1. /\ call' = call \/ (call'[r] = call[r] + 1 /\ phase'[r] = "start")
          /\ Moves(r) /\ Writer(k) = r /\ call[r] \in 1 .. n_calls
      BY <1>2
    <3>2. /\ c < call[r] => Done(c, k) /\ Done(c, k)'
          /\ c > call[r] => ~Done(c, k) /\ ~Done(c, k)'
      BY <3>1, DoneHere
    <3> QED BY <2>1, <2>3, <3>2
  <2> QED BY <2>2, <2>3
<1> QED BY <1>1, <1>2, NothingWritten

\* The rank that does not write this block, or whose block is empty.
LEMMA NotWriter ==
  ASSUME LocalInv, LayoutOK, NEW r \in Active, r # 0, NEW c \in 1 .. n_calls,
         method = "serial" \/ Kind(c) # "block", NEW k \in Active, Writer(k) = r
  PROVE  Fills(c, k) = {}
<1>1. k = r /\ method # "serial"
  BY DEF Writer
<1> QED BY <1>1 DEF Fills

LEMMA TellWrote ==
  ASSUME LocalInv, LayoutOK, FileOK, NEW r \in Ranks, Tell(r), Moves(r),
         NEW c \in 1 .. n_calls, c = call[r]
  PROVE  Wrote
<1>1. r \in Active /\ call[r] \in 1 .. n_calls /\ phase[r] = "start"
  BY InCall DEF Tell
<1>2. phase'[r] = "pad" /\ call' = call /\ UNCHANGED file
  BY <1>1 DEF Tell, Goto, LocalInv, RankTyped
<1>3. ASSUME NEW k \in Active, Writer(k) = r
      PROVE  Done(c, k)' <=> Done(c, k)
  <2>1. Writer(k)' = r
    BY <1>3, FillsFrame DEF Moves
  <2>2. call'[r] = call[r]
    BY <1>2
  <2> QED BY <1>1, <1>2, <1>3, <2>1, <2>2 DEF Done
<1> QED BY <1>1, <1>2, <1>3, NothingWrittenIn

LEMMA InitSerializerWrote ==
  ASSUME LocalInv, LayoutOK, FileOK, NEW r \in Ranks, InitSerializer(r), Moves(r),
         NEW c \in 1 .. n_calls, c = call[r]
  PROVE  Wrote
<1>1. r \in Active /\ call[r] \in 1 .. n_calls /\ phase[r] = "start" /\ method = "serial"
  BY InCall DEF InitSerializer, Serialized
<1>2. CASE r # 0
  <2>1. call' = call /\ UNCHANGED file
    BY <1>2 DEF InitSerializer, Deposit, Goto
  <2> QED BY <1>1, <1>2, <2>1, NotWriter, NothingWrittenIn
<1>3. CASE r = 0
  <2>1. /\ phase'[r] = "advance" /\ call' = call /\ UNCHANGED file
        /\ ser'.next_rank_id = 0
    BY <1>1, <1>3 DEF InitSerializer, Goto, LocalInv, RankTyped
  <2>2. ASSUME NEW k \in Active, Writer(k) = r
        PROVE  Done(c, k)' <=> Done(c, k)
    <3>1. Writer(k)' = r /\ call'[r] = call[r] /\ call[r] \in Nat
      BY <2>1, <2>2, FillsFrame DEF Moves, LocalInv, RankTyped
    <3>2. k \in Nat /\ ~(k < 0)
      BY ConfigOK DEF LocalInv, RankTyped
    <3> QED BY <1>1, <2>1, <2>2, <3>1, <3>2 DEF Done
  <2> QED BY <1>1, <2>1, <2>2, NothingWrittenIn
<1> QED BY <1>2, <1>3

LEMMA RequestWrote ==
  ASSUME LocalInv, LayoutOK, FileOK, NEW r \in Ranks, Request(r), Moves(r),
         NEW c \in 1 .. n_calls, c = call[r]
  PROVE  Wrote
<1>1. r \in Active /\ call[r] \in 1 .. n_calls /\ phase[r] = "advance"
  BY InCall DEF Request
<1>2. phase'[r] = "await" /\ call' = call /\ UNCHANGED <<file, ser>>
  BY <1>1 DEF Request, Goto, LocalInv, RankTyped
<1>3. ASSUME NEW k \in Active, Writer(k) = r
      PROVE  Done(c, k)' <=> Done(c, k)
  <2>1. Writer(k)' = r
    BY <1>3, FillsFrame DEF Moves
  <2> QED BY <1>1, <1>2, <1>3, <2>1 DEF Done
<1> QED BY <1>1, <1>2, <1>3, NothingWrittenIn

LEMMA ServeWrote ==
  ASSUME LocalInv, LayoutOK, FileOK, NEW r \in Ranks, Serve(r), Moves(r),
         NEW c \in 1 .. n_calls, c = call[r]
  PROVE  Wrote
<1>1. r \in Active /\ call[r] \in 1 .. n_calls /\ phase[r] = "sync" /\ r # 0
  BY InCall DEF Serve
<1>2. call' = call /\ UNCHANGED file
  BY DEF Serve, Goto, Abort
<1>3. method = "serial"
  <2>1. Stage(r)
    BY DEF LocalInv
  <2> QED BY <1>1, <2>1 DEF Stage, StageIn, Serialized
<1> QED BY <1>1, <1>2, <1>3, NotWriter, NothingWrittenIn

LEMMA ScatterWrote ==
  ASSUME LocalInv, LayoutOK, FileOK, NEW r \in Ranks, Scatter(r), Moves(r),
         NEW c \in 1 .. n_calls, c = call[r]
  PROVE  Wrote
<1>1. call' = call /\ UNCHANGED <<file, ser>>
  BY DEF Scatter, Goto
<1>2. CASE r # 0
  <2>1. r \in Active /\ call[r] \in 1 .. n_calls /\ phase[r] = "scatter"
    BY <1>2, InCall DEF Scatter
  <2>2. method = "serial"
    <3>1. Stage(r)
      BY DEF LocalInv
    <3> QED BY <2>1, <3>1 DEF Stage, StageIn, Serialized
  <2> QED BY <1>1, <1>2, <2>1, <2>2, NotWriter, NothingWrittenIn
<1>3. CASE r = 0
  <2>1. /\ r \in Active /\ call[r] \in 1 .. n_calls /\ phase[r] = "advance"
        /\ ser.next_rank_id = n_ranks
    BY <1>3, InCall DEF Scatter
  <2>2. phase'[r] = "end"
    BY <2>1 DEF Scatter, Goto, LocalInv, RankTyped
  <2>3. ASSUME NEW k \in Active, Writer(k) = r
        PROVE  Done(c, k)' <=> Done(c, k)
    <3>1. Writer(k)' = r
      BY <2>3, FillsFrame DEF Moves
    <3>2. k < n_ranks
      BY ConfigOK DEF LocalInv, RankTyped, Active
    <3> QED BY <1>1, <2>1, <2>2, <2>3, <3>1, <3>2 DEF Done
  <2> QED BY <1>1, <2>1, <2>3, NothingWrittenIn
<1> QED BY <1>2, <1>3

LEMMA EndBlockWrote ==
  ASSUME LocalInv, LayoutOK, FileOK, NEW r \in Ranks, EndBlock(r), Moves(r),
         NEW c \in 1 .. n_calls, c = call[r]
  PROVE  Wrote
<1>1. r \in Active /\ call[r] \in 1 .. n_calls /\ phase[r] = "end"
  BY InCall DEF EndBlock
<1>2. phase'[r] = "start" /\ call'[r] = call[r] + 1 /\ UNCHANGED file
  BY <1>1 DEF EndBlock, Return, LocalInv, RankTyped
<1>3. ASSUME NEW k \in Active, Writer(k) = r
      PROVE  Done(c, k)' <=> Done(c, k)
  <2>1. Done(c, k)
    BY <1>1, <1>3 DEF Done
  <2>2. Done(c, k)'
    <3>1. call[r] \in Nat
      BY DEF LocalInv, RankTyped
    <3>2. Writer(k)' = r
      BY <1>3, FillsFrame DEF Moves
    <3>3. c < call'[r]
      BY <1>2, <3>1
    <3> QED BY <3>2, <3>3 DEF Done
  <2> QED BY <2>1, <2>2
<1> QED BY <1>1, <1>2, <1>3, NothingWrittenIn

\* Reading.
LEMMA ReadingWrote ==
  ASSUME LocalInv, LayoutOK, FileOK, NEW r \in Ranks, Moves(r),
         Seek(r) \/ ReadGlobal(r) \/ ReadOwn(r) \/ GatherCounts(r) \/ Deal(r) \/ Receive(r)
  PROVE  Wrote
<1>1. UNCHANGED file
  <2>1. Abort => UNCHANGED file
    BY DEF Abort
  <2>2. \A full, empty : Deposit(r, full, empty) => UNCHANGED file
    BY DEF Deposit
  <2> QED BY <2>1, <2>2 DEF Seek, ReadGlobal, ReadOwn, GatherCounts, Deal, Receive
<1>2. ~writing
  <2>1. ASSUME GatherCounts(r) \/ Deal(r) \/ Receive(r) PROVE ~writing
    <3>1. phase[r] \in {"gather", "deal", "receive"}
      BY <2>1 DEF GatherCounts, Deal, Receive, In
    <3>2. Stage(r)
      BY DEF LocalInv
    <3> QED BY <3>1, <3>2 DEF Stage, StageIn
  <2> QED BY <2>1 DEF Seek, ReadGlobal, ReadOwn
<1> QED BY <1>1, <1>2, NothingWritten

\* Likewise, for a step that writes a part.
LEMMA PartWrittenIn ==
  ASSUME LocalInv, LayoutOK, FileOK, writing, NEW r \in Active, Moves(r),
         NEW c \in 1 .. n_calls, c = call[r],
         call' = call \/ (call'[r] = call[r] + 1 /\ phase'[r] = "start"),
         NEW k \in Active, Writer(k) = r, ~Done(c, k),
         \A j \in Active : Writer(j) = r /\ Fills(c, j) # {} =>
                             (Done(c, j)' <=> Done(c, j) \/ j = k),
         file' = WithPart(Fills(c, k))
  PROVE  Wrote
<1>1. r \in Ranks /\ call[r] \in Nat /\ n_calls \in Nat
  BY ConfigOK DEF LocalInv, RankTyped
<1>2. ASSUME NEW d \in 1 .. n_calls, NEW j \in Active, Fills(d, j) # {}
      PROVE  Done(d, j)' <=> Done(d, j) \/ (d = c /\ j = k)
  <2>1. CASE Writer(j) # r
    <3>1. Done(d, j)' <=> Done(d, j)
      BY <1>1, <2>1, DoneElsewhere
    <3>2. j # k
      BY <2>1
    <3> QED BY <3>1, <3>2
  <2>2. CASE Writer(j) = r /\ d = c
    BY <1>2, <2>2
  <2>3. CASE Writer(j) = r /\ d # c
    <3>1. /\ call' = call \/ (call'[r] = call[r] + 1 /\ phase'[r] = "start")
          /\ Writer(j) = r /\ call[r] \in 1 .. n_calls
      BY <2>3
    <3>2. /\ d < call[r] => Done(d, j) /\ Done(d, j)'
          /\ d > call[r] => ~Done(d, j) /\ ~Done(d, j)'
      BY <1>1, <3>1, DoneHere
    <3>3. d < call[r] \/ d > call[r]
      BY <1>1, <2>3
    <3> QED BY <2>3, <3>2, <3>3
  <2> QED BY <2>1, <2>2, <2>3
<1>3. UNCHANGED <<setup, layout, run>>
  BY DEF Moves
<1> QED BY <1>2, <1>3, PartWritten DEF Wrote

LEMMA WriteGlobalWrote ==
  ASSUME LocalInv, LayoutOK, FileOK, NEW r \in Ranks, WriteGlobal(r), Moves(r),
         NEW c \in 1 .. n_calls, c = call[r]
  PROVE  Wrote
<1> DEFINE n == GlobalSize(r)
<1>1. /\ r \in Active /\ writing /\ Kind(c) # "block" /\ phase[r] \in {"start", "pad"}
      /\ Kind(c) \in {"global", "align"}
      /\ Op(r) = setup.calls[c] /\ Op(r) \in Operations /\ Place(c) \in Nat
      /\ Place(c + 1) = Place(c) + Length(Op(r), Place(c)) /\ offset[r] = Place(c)
  BY InCall DEF WriteGlobal
<1>2. call'[r] = call[r] + 1 /\ phase'[r] = "start"
  BY <1>1 DEF WriteGlobal, Return, LocalInv, RankTyped
<1>3. CASE r # 0
  <2>1. UNCHANGED file
    BY <1>3 DEF WriteGlobal
  <2>2. \A k \in Active : Writer(k) = r => Fills(c, k) = {}
    BY <1>1, <1>3, NotWriter
  <2> QED BY <1>1, <1>2, <2>1, <2>2, NothingWrittenIn
<1>4. ASSUME r = 0 PROVE n \in Nat /\ Place(c + 1) = Place(c) + n
  <2>1. CASE In(r, "global", "start")
    <3>1. Op(r).op = "global"
      BY <2>1 DEF In
    <3>2. n = Op(r).n /\ Op(r).n \in Nat
      BY <1>1, <3>1 DEF GlobalSize, Operations
    <3> QED BY <1>1, <3>1, <3>2 DEF Length
  <2>2. CASE In(r, "align", "pad")
    <3>1. Op(r).op = "align"
      BY <2>2 DEF In
    <3>2. n = Padding(told[r], Op(r).to)
      BY <3>1 DEF GlobalSize
    <3> QED BY <2>2, <3>2, PadAt
  <2> QED BY <2>1, <2>2 DEF WriteGlobal
<1>5. Extent(c) = Place(c) .. Place(c + 1) - 1 /\ Fills(c, 0) = Extent(c)
      /\ \A k : k # 0 => Fills(c, k) = {}
  BY <1>1 DEF Extent, Fills
<1>6. CASE r = 0 /\ n = 0
  <2>1. UNCHANGED file
    BY <1>6 DEF WriteGlobal
  <2>2. \A k \in Active : Fills(c, k) = {}
    BY <1>1, <1>4, <1>5, <1>6
  <2> QED BY <1>1, <1>2, <2>1, <2>2, NothingWrittenIn
<1>7. CASE r = 0 /\ n # 0
  <2>1. 0 \in Active /\ Writer(0) = 0
    BY <1>1, <1>7 DEF Writer
  <2>2. Position = Place(c) + 1 - 1
    <3>1. Position = Place(c)
      <4>1. CASE method = "serial"
        <5>1. Progress = 0
          BY <1>1, <1>7 DEF Progress
        <5> QED BY <1>1, <1>7, <4>1, <5>1 DEF LocalInv, PositionsOK, Position
      <4>2. CASE method # "serial"
        BY <1>1, <1>7, <4>2 DEF Position
      <4> QED BY <4>1, <4>2
    <3> QED BY <1>1, <3>1
  <2>3. Fills(c, 0) = Place(c) + 1 - 1 .. Place(c) + 1 - 1 + n - 1
    BY <1>1, <1>4, <1>5, <1>7
  <2>4. file' = Put(Position, Values(c, 1, n))
    BY <1>7 DEF WriteGlobal
  <2>5. file' = WithPart(Fills(c, 0))
    <3>1. PICK m \in Nat : m = n
      BY <1>4, <1>7
    <3>2. PICK at \in Nat : at = Position /\ at = Place(c)
      BY <1>1, <2>2
    <3>3. 1 \in Nat \ {0} /\ Fills(c, 0) = at .. at + m - 1 /\ at = Place(c) + 1 - 1
      BY <1>1, <2>3, <3>1, <3>2
    <3> HIDE DEF n
    <3>4. Put(at, Values(c, 1, m)) = WithPart(Fills(c, 0))
      BY <1>1, <2>1, <3>3, PutPart
    <3> QED BY <2>4, <3>1, <3>2, <3>4
  <2>6. ~Done(c, 0)
    BY <1>1, <1>7, <2>1 DEF Done, LocalInv, RankTyped
  <2>7. Done(c, 0)'
    <3>1. Done(c, 0)'
      BY <1>1, <1>2, <1>7, <2>1, DoneHere
    <3> QED BY <3>1
  <2>8. \A j \in Active : Writer(j) = r /\ Fills(c, j) # {} =>
                            (Done(c, j)' <=> Done(c, j) \/ j = 0)
    BY <1>5, <2>6, <2>7
  <2>9. Writer(0) = r
    BY <1>7, <2>1
  <2> QED BY <1>1, <1>2, <2>1, <2>5, <2>6, <2>8, <2>9, PartWrittenIn
<1> QED BY <1>3, <1>6, <1>7

LEMMA AccessWrote ==
  ASSUME LocalInv, LayoutOK, FileOK, NEW r \in Ranks, Access(r), Moves(r),
         NEW c \in 1 .. n_calls, c = call[r]
  PROVE  Wrote
<1>1. /\ r \in Active /\ Kind(c) = "block" /\ phase[r] = "start" /\ ~Serialized
      /\ Place(c) \in Nat /\ offset[r] = Place(c)
  BY InCall DEF Access
<1>2. call' = call
  BY DEF Access, Abort, Goto
<1>3. CASE ~writing
  <2>1. UNCHANGED file
    BY <1>3 DEF Access, Abort
  <2> QED BY <1>3, <2>1, NothingWritten
<1>4. CASE writing
  <2>1. /\ file' = Put(IF method = "serial" THEN pos[r] ELSE offset[r] + First(r) - 1, Block(r))
        /\ Goto(r, "end")
    BY <1>4 DEF Access
  <2>2. /\ setup \in Setups /\ run \in {1, 2} /\ n_ranks \in Nat \ {0} /\ Active \subseteq Nat
        /\ method = "mpi" \/ (method = "serial" /\ n_ranks = 1)
        /\ Active = 0 .. n_ranks - 1
    BY <1>1, <1>4, ConfigOK DEF Serialized, LocalInv, RankTyped, Active
  <2>3. \A k \in Active : Writer(k) = r <=> k = r
    BY <1>1, <2>2 DEF Writer
  <2>4. /\ FirstIn(run, r, c) = Upto(c, r) + 1 /\ Upto(c, r) \in Nat /\ Upto(c, 0) = 0
        /\ CountIn(run, r, c) \in Nat /\ Upto(c, r + 1) = Upto(c, r) + CountIn(run, r, c)
    <3>1. r \in 0 .. n_ranks
      BY <1>1, <2>2 DEF Active
    <3> QED BY <1>1, <2>2, <3>1, BlockOK
  <2>5. PICK f \in Nat \ {0}, n \in Nat : f = FirstIn(run, r, c) /\ n = CountIn(run, r, c)
    BY <2>4
  <2>6. Block(r) = Values(c, f, n) /\ First(r) = f
    BY <2>5 DEF Block, First, Count
  <2>7. file' = Put(Place(c) + f - 1, Values(c, f, n))
    <3>1. CASE method = "serial"
      <4>1. r = 0
        BY <1>1, <2>2, <3>1 DEF Active
      <4>2. Progress = 0
        BY <1>1, <4>1 DEF Progress
      <4>3. pos[r] = Place(c) + 0
        BY <3>1, <4>1, <4>2 DEF LocalInv, PositionsOK
      <4>4. Place(c) + 0 = Place(c) + f - 1
        BY <1>1, <2>4, <2>5, <4>1
      <4> QED BY <2>1, <2>6, <3>1, <4>3, <4>4
    <3>2. CASE method # "serial"
      BY <1>1, <2>1, <2>6, <3>2
    <3> QED BY <3>1, <3>2
  <2>8. Fills(c, r) = Place(c) + f - 1 .. Place(c) + f - 1 + n - 1
    <3>1. Fills(c, r) = Place(c) + Upto(c, r) .. Place(c) + Upto(c, r + 1) - 1
      BY <1>1 DEF Fills
    <3> DEFINE x == Upto(c, r)
    <3>2. f = x + 1 /\ x \in Nat /\ Upto(c, r + 1) = x + n /\ n \in Nat
      BY <2>4, <2>5
    <3> HIDE DEF x
    <3>3. x = f - 1 /\ Fills(c, r) = Place(c) + x .. Place(c) + (x + n) - 1
      BY <3>1, <3>2 DEF x
    <3> QED BY <1>1, <3>2, <3>3
  <2>9. file' = WithPart(Fills(c, r))
    <3>1. PICK at \in Nat : at = Place(c) + f - 1
      BY <1>1
    <3>2. Put(at, Values(c, f, n)) = WithPart(Fills(c, r))
      BY <1>1, <1>4, <2>8, <3>1, PutPart
    <3> QED BY <2>7, <3>1, <3>2
  <2>10. ~Done(c, r)
    BY <1>1, <2>3 DEF Done, LocalInv, RankTyped
  <2>11. Done(c, r)'
    <3>1. phase'[r] = "end" /\ c = call'[r]
      BY <1>2, <2>1 DEF Goto, LocalInv, RankTyped
    <3>2. Writer(r)' = r
      BY <1>1, <2>3, FillsFrame DEF Moves
    <3> QED BY <3>1, <3>2 DEF Done
  <2>12. \A j \in Active : Writer(j) = r /\ Fills(c, j) # {} =>
                             (Done(c, j)' <=> Done(c, j) \/ j = r)
    BY <2>3, <2>10, <2>11
  <2>13. Writer(r) = r
    BY <1>1, <2>3
  <2> QED BY <1>1, <1>2, <1>4, <2>9, <2>10, <2>12, <2>13, PartWrittenIn
<1> QED BY <1>3, <1>4

\* The values of a rank in a block.
BlockValues(c, k) == Values(c, FirstIn(run, k, c), CountIn(run, k, c))

LEMMA MovedWrote ==
  ASSUME LocalInv, LayoutOK, FileOK, Moves(0), NEW c \in 1 .. n_calls, c = call[0], call' = call,
         phase'[0] = "advance", NEW ph \in {"advance", "await"}, In(0, "block", ph),
         NEW k \in Active, k = ser.next_rank_id, NEW buf, Moved(buf), buf = BlockValues(c, k)
  PROVE  Wrote
<1>1. /\ 0 \in Active /\ 0 \in Ranks /\ setup \in Setups /\ run \in {1, 2}
      /\ n_ranks \in Nat /\ Active = 0 .. n_ranks - 1
  BY ConfigOK DEF LocalInv, RankTyped, Active
<1>2. Kind(c) = "block" /\ phase[0] = ph /\ Place(c) \in Nat
  BY <1>1, InCall
<1>3. Serialized /\ method = "serial" /\ writing
  <2>1. Stage(0)
    BY <1>1 DEF LocalInv
  <2> QED BY <1>2, <2>1 DEF Stage, StageIn, Serialized
<1>4. ser.count = Counts(c) /\ (ser.dist_rank = k \/ k = n_ranks)
  BY <1>2 DEF LocalInv, SerializerOK
<1>5. k \in 0 .. n_ranks - 1 /\ k \in 0 .. n_ranks /\ k + 1 \in 0 .. n_ranks /\ k # n_ranks
  BY <1>1
<1>6. PICK m \in k + 1 .. n_ranks : m = NextRank(k) /\ Upto(c, m) = Upto(c, k + 1)
  BY <1>1, <1>2, <1>4, <1>5, NextRankOK
<1>7. /\ FirstIn(run, k, c) = Upto(c, k) + 1 /\ Upto(c, k) \in Nat
      /\ CountIn(run, k, c) \in Nat /\ Upto(c, k + 1) = Upto(c, k) + CountIn(run, k, c)
  BY <1>1, <1>2, <1>5, BlockOK
<1>8. PICK f \in Nat \ {0}, n \in Nat : f = FirstIn(run, k, c) /\ n = CountIn(run, k, c)
  BY <1>7
<1>9. ser.count[k] = n
  BY <1>1, <1>4, <1>8 DEF Counts
<1>10. Fills(c, k) = Place(c) + Upto(c, k) .. Place(c) + Upto(c, k + 1) - 1
  BY <1>2 DEF Fills
<1>11. ASSUME NEW j \in Active, Fills(c, j) # {} PROVE j < m <=> j < k \/ j = k
  <2>1. CASE j <= k
    BY <1>1, <1>6, <2>1
  <2>2. CASE j > k
    <3> SUFFICES ASSUME j < m PROVE FALSE
      BY <1>1, <2>2
    <3>1. /\ j \in 0 .. n_ranks /\ j + 1 \in 0 .. n_ranks /\ m \in 0 .. n_ranks
          /\ k + 1 <= j /\ j + 1 <= m
      BY <1>1, <1>6, <2>2
    <3>2. \A x, y \in 0 .. n_ranks : x <= y => Upto(c, x) <= Upto(c, y)
      BY <1>1, <1>2, BlockPlaces DEF LocalInv, RankTyped
    <3>3. Upto(c, k + 1) <= Upto(c, j) /\ Upto(c, j + 1) <= Upto(c, m)
      BY <1>5, <3>1, <3>2
    <3>4. Upto(c, j) \in Nat /\ Upto(c, j + 1) \in Nat
      BY <1>1, <1>2, <3>1, BlockOK
    <3>5. Fills(c, j) = Place(c) + Upto(c, j) .. Place(c) + Upto(c, j + 1) - 1
      BY <1>2 DEF Fills
    <3> DEFINE x == Upto(c, j)  y == Upto(c, j + 1)
    <3>6. x \in Nat /\ y \in Nat /\ y <= x
      BY <1>6, <1>7, <3>3, <3>4
    <3> HIDE DEF x, y
    <3>7. Place(c) + x .. Place(c) + y - 1 = {}
      BY <1>2, <3>6
    <3> QED BY <1>11, <3>5, <3>7 DEF x, y
  <2> QED BY <1>1, <2>1, <2>2
<1>12. ser'.next_rank_id = m
  <2>1. DOMAIN ser = SerializerFields
    BY DEF LocalInv, SerializerOK
  <2> QED BY <1>6, <2>1 DEF Moved, SerializerFields
<1>13. \A j \in Active : Writer(j) = 0 /\ Writer(j)' = 0
  BY <1>3, FillsFrame DEF Writer, Moves
<1>14. /\ \A j \in Active : Done(c, j) <=> j < k
       /\ \A j \in Active : Done(c, j)' <=> j < m
  BY <1>1, <1>2, <1>12, <1>13 DEF Done, LocalInv, RankTyped
<1>15. \A j \in Active : Writer(j) = 0 /\ Fills(c, j) # {} => (Done(c, j)' <=> Done(c, j) \/ j = k)
  BY <1>11, <1>14
<1>16. CASE n = 0
  <2>1. UNCHANGED file
    BY <1>9, <1>16 DEF Moved
  <2>2. Fills(c, k) = {}
    <3> DEFINE x == Upto(c, k)
    <3>1. Fills(c, k) = Place(c) + x .. Place(c) + (x + 0) - 1 /\ x \in Nat
      BY <1>7, <1>8, <1>10, <1>16
    <3> HIDE DEF x
    <3> QED BY <1>2, <3>1
  <2>3. \A j \in Active : Writer(j) = 0 /\ Fills(c, j) # {} => (Done(c, j)' <=> Done(c, j))
    BY <1>15, <2>2
  <2> QED BY <1>1, <2>1, <2>3, NothingWrittenIn
<1>17. CASE n # 0
  <2>1. PICK at \in Nat : at = pos[0] /\ at = Place(c) + f - 1
    <3>1. Progress = Upto(c, k)
      BY <1>2 DEF Progress
    <3>2. pos[0] = Place(c) + Upto(c, k)
      BY <1>3, <3>1 DEF LocalInv, PositionsOK
    <3> QED BY <1>2, <1>7, <1>8, <3>2
  <2>2. Fills(c, k) = at .. at + n - 1
    <3> DEFINE x == Upto(c, k)
    <3>1. Fills(c, k) = Place(c) + x .. Place(c) + (x + n) - 1 /\ x \in Nat /\ f = x + 1
      BY <1>7, <1>8, <1>10
    <3> HIDE DEF x
    <3> QED BY <1>2, <2>1, <3>1
  <2>3. buf = [i \in 1 .. n |-> <<c, f + i - 1>>]
    BY <1>8 DEF BlockValues, Values
  <2>4. SubSeq(buf, 1, n) = Values(c, f, n)
    <3>1. SubSeq(buf, 1, n) = [i \in 1 .. n |-> buf[i]]
      BY <2>3
    <3>2. [i \in 1 .. n |-> buf[i]] = Values(c, f, n)
      BY <2>3 DEF Values
    <3> QED BY <3>1, <3>2
  <2>5. file' = Put(at, SubSeq(buf, 1, n))
    BY <1>4, <1>5, <1>9, <1>17, <2>1 DEF Moved
  <2>6. file' = WithPart(Fills(c, k))
    <3>1. Put(at, Values(c, f, n)) = WithPart(Fills(c, k))
      BY <1>3, <2>1, <2>2, PutPart
    <3> QED BY <2>4, <2>5, <3>1
  <2>7. ~Done(c, k)
    BY <1>1, <1>14
  <2> QED BY <1>1, <1>3, <1>13, <1>15, <2>6, <2>7, PartWrittenIn
<1> QED BY <1>16, <1>17

LEMMA OwnBlockWrote ==
  ASSUME LocalInv, LayoutOK, FileOK, NEW r \in Ranks, OwnBlock(r), Moves(r),
         NEW c \in 1 .. n_calls, c = call[r]
  PROVE  Wrote
<1>1. /\ r = 0 /\ In(0, "block", "advance") /\ ser.next_rank_id = 0 /\ Moved(Block(0))
      /\ call' = call /\ phase' = phase /\ Moves(0)
  BY DEF OwnBlock
<1>2. 0 \in Active /\ phase'[0] = "advance"
  BY <1>1, ConfigOK DEF LocalInv, RankTyped, In
<1>3. PICK buf : buf = Block(0)
  OBVIOUS
<1>4. buf = BlockValues(c, 0) /\ Moved(buf)
  BY <1>1, <1>3 DEF Block, BlockValues, First, Count
<1> QED BY <1>1, <1>2, <1>4, MovedWrote

LEMMA CollectWrote ==
  ASSUME LocalInv, LayoutOK, FileOK, NEW r \in Ranks, Collect(r), Moves(r),
         NEW c \in 1 .. n_calls, c = call[r],
         Head(mail[<<ser.next_rank_id, 0>>]) = BlockValues(c, ser.next_rank_id)
  PROVE  Wrote
<1>1. /\ r = 0 /\ In(0, "block", "await") /\ Goto(0, "advance") /\ Moves(0)
      /\ Moved(Head(mail[<<ser.next_rank_id, 0>>]))
  BY DEF Collect
<1>2. call' = call /\ phase'[0] = "advance" /\ phase[0] = "await"
  BY <1>1 DEF Goto, In, LocalInv, RankTyped
<1>3. PICK k \in Active : k = ser.next_rank_id
  <2>1. ser.next_rank_id \in 1 .. n_ranks - 1
    BY <1>2 DEF LocalInv, SerializerOK
  <2> QED BY <2>1, ConfigOK DEF Active, LocalInv, RankTyped
<1>4. PICK buf : buf = Head(mail[<<ser.next_rank_id, 0>>])
  OBVIOUS
<1>5. Moved(buf) /\ buf = BlockValues(c, k)
  BY <1>1, <1>3, <1>4
<1> QED BY <1>1, <1>2, <1>3, <1>5, MovedWrote

\* The file is complete when it is closed.
LEMMA ReopenWrote ==
  ASSUME LocalInv, LayoutOK, FileOK, Reopen
  PROVE  Wrote
<1>1. /\ writing /\ AllReturned /\ run' = 2 /\ UNCHANGED <<setup, layout, file>>
  BY DEF Reopen
<1>2. setup \in Setups /\ run \in {1, 2} /\ n_calls \in Nat /\ Active \subseteq Ranks /\ 0 \in Active
  BY ConfigOK DEF LocalInv, RankTyped
<1>3. ASSUME NEW c \in 1 .. n_calls, NEW k \in Active PROVE Done(c, k)
  <2>1. PICK w \in Active : w = Writer(k)
    BY <1>2 DEF Writer
  <2>2. call[w] = n_calls + 1
    BY <1>1 DEF AllReturned
  <2>3. c < call[w]
    BY <1>2, <2>2
  <2> QED BY <2>1, <2>3 DEF Done
<1>4. Filled = 0 .. Place(n_calls + 1) - 1
  <2>1. ASSUME NEW p \in 0 .. Place(n_calls + 1) - 1 PROVE p \in Filled
    <3>1. PICK c \in 1 .. n_calls : \E k \in Active : p \in Fills(c, k)
      BY <1>2, FillsAll
    <3> QED BY <1>3, <3>1, FilledType
  <2> QED BY <2>1, FilledType
<1>5. layout.contents = [p \in 0 .. Place(n_calls + 1) - 1 |-> layout.contents[p]]
  BY <1>2, LayoutParts
<1>6. file = [p \in Filled |-> layout.contents[p]]
  BY <1>1 DEF FileOK
<1>7. file = layout.contents
  BY <1>4, <1>5, <1>6
<1>8. FileOK'
  BY <1>1, <1>7 DEF FileOK, writing
<1>9. UNCHANGED Promise!vars
  BY <1>1 DEF Promise!vars
<1> QED BY <1>8, <1>9 DEF Wrote

-----------------------------------------------------------------------------
(***************************************************************************)
(* What is in the messages between rank 0 and another rank: the one that   *)
(* rank 0 asks for its block, or ranks that wait for theirs.               *)
(***************************************************************************)
Asked(q) == q # 0 /\ phase[0] = "await" /\ q = ser.next_rank_id
DealtTo(q, c) ==
  \/ call[0] > c
  \/ call[0] = c /\ (phase[0] = "end" \/ (phase[0] = "deal" /\ ser.dist_rank > q))
Past(q, c) == call[q] > c \/ (call[q] = c /\ phase[q] = "end")

MailWritten == writing => \A q \in Ranks :
  /\ mail[<<0, q>>] # <<>> => /\ Asked(q) /\ mail[<<0, q>>] = <<SyncRange>>
                              /\ mail[<<q, 0>>] = <<>>
  /\ mail[<<q, 0>>] # <<>> => Asked(q) /\ mail[<<q, 0>>] = <<BlockValues(call[0], q)>>
MailRead == ~writing => \A q \in Ranks :
  /\ mail[<<q, 0>>] = <<>>
  /\ mail[<<0, q>>] # <<>> => /\ q # 0 /\ phase[q] = "receive" /\ DealtTo(q, call[q])
                              /\ mail[<<0, q>>] = <<BlockValues(call[q], q)>>
\* A rank is not past a block before it is dealt its values.
DealOK == ~writing => \A q \in Active \ {0}, c \in 1 .. n_calls :
  Kind(c) = "block" /\ Serialized /\ CountIn(run, q, c) # 0 /\ Past(q, c) => DealtTo(q, c)
MailOK == MailWritten /\ MailRead /\ DealOK

LEMMA BlockFrame ==
  ASSUME UNCHANGED <<setup, layout, run>>
  PROVE  \A c, k : BlockValues(c, k)' = BlockValues(c, k)
BY DEF BlockValues, Values, FirstIn, CountIn, Start, End, Step

LEMMA MailKept ==
  ASSUME LocalInv, MailOK, NEW r \in Active, Moves(r), mail' = mail,
         r = 0 => phase[0] # "await",
         r = 0 /\ ~writing =>
           \A q \in Ranks, c \in 1 .. n_calls : DealtTo(q, c) => DealtTo(q, c)',
         r # 0 /\ ~writing =>
           /\ phase[r] # "receive"
           /\ \A c \in 1 .. n_calls :
                Kind(c) = "block" /\ Serialized /\ CountIn(run, r, c) # 0 /\ Past(r, c)'
                => Past(r, c) \/ DealtTo(r, c)
  PROVE  MailOK'
<1>1. /\ 0 \in Ranks /\ r \in Ranks /\ Active \subseteq Ranks /\ n_calls \in Nat
      /\ call \in [Ranks -> Nat]
  BY ConfigOK DEF LocalInv, RankTyped
<1>2. /\ writing' = writing /\ Active' = Active /\ n_calls' = n_calls /\ Serialized' = Serialized
      /\ \A c : Kind(c)' = Kind(c)
      /\ \A c, k : CountIn(run, k, c)' = CountIn(run, k, c)
      /\ \A c, k : BlockValues(c, k)' = BlockValues(c, k)
  BY Frame, BlockFrame DEF Moves
<1>3. ASSUME r # 0 PROVE /\ ser' = ser /\ call'[0] = call[0] /\ phase'[0] = phase[0]
                         /\ \A q, c : DealtTo(q, c)' <=> DealtTo(q, c)
  BY <1>1, <1>3 DEF Moves, DealtTo
<1>4. ASSUME ~writing, NEW q \in Ranks, NEW c \in 1 .. n_calls, DealtTo(q, c)
      PROVE  DealtTo(q, c)'
  BY <1>3, <1>4
<1>5. MailWritten'
  <2> SUFFICES ASSUME writing, NEW q \in Ranks
               PROVE  /\ mail[<<0, q>>] # <<>> => /\ Asked(q)' /\ mail[<<0, q>>] = <<SyncRange'>>
                                                  /\ mail[<<q, 0>>] = <<>>
                      /\ mail[<<q, 0>>] # <<>> =>
                           Asked(q)' /\ mail[<<q, 0>>] = <<BlockValues(call[0], q)>>'
    BY <1>2 DEF MailWritten
  <2>1. CASE r = 0
    BY <2>1 DEF MailOK, MailWritten, Asked
  <2>2. CASE r # 0
    <3>1. SyncRange' = SyncRange /\ (Asked(q)' <=> Asked(q))
      BY <1>3, <2>2 DEF SyncRange, Asked
    <3>2. BlockValues(call[0], q)' = BlockValues(call[0], q)
      <4>1. PICK c : c = call[0]
        OBVIOUS
      <4>2. c = call[0]'
        BY <1>3, <2>2, <4>1
      <4> QED BY <1>2, <4>1, <4>2
    <3> QED BY <3>1, <3>2 DEF MailOK, MailWritten
  <2> QED BY <2>1, <2>2
<1>6. MailRead'
  <2> SUFFICES ASSUME ~writing, NEW q \in Ranks
               PROVE  /\ mail[<<q, 0>>] = <<>>
                      /\ mail[<<0, q>>] # <<>> =>
                           /\ q # 0 /\ phase'[q] = "receive" /\ DealtTo(q, call[q])'
                           /\ mail[<<0, q>>] = <<BlockValues(call[q], q)>>'
    BY <1>2 DEF MailRead
  <2>1. mail[<<q, 0>>] = <<>>
    BY DEF MailOK, MailRead
  <2>2. ASSUME mail[<<0, q>>] # <<>>
        PROVE  /\ q # 0 /\ phase'[q] = "receive" /\ DealtTo(q, call[q])'
               /\ mail[<<0, q>>] = <<BlockValues(call[q], q)>>'
    <3>1. /\ q # 0 /\ phase[q] = "receive" /\ DealtTo(q, call[q])
          /\ mail[<<0, q>>] = <<BlockValues(call[q], q)>>
      BY <2>2 DEF MailOK, MailRead
    <3>2. q # r
      BY <3>1
    <3>3. call'[q] = call[q] /\ phase'[q] = phase[q]
      BY <3>2 DEF Moves
    <3>4. PICK c \in 1 .. n_calls : c = call[q]
      <4>1. Stage(q)
        BY DEF LocalInv
      <4> QED BY <3>1, <4>1 DEF Stage
    <3>5. DealtTo(q, c)'
      BY <1>4, <3>1, <3>4
    <3>6. c = call[q]'
      BY <3>3, <3>4
    <3>7. BlockValues(c, q)' = BlockValues(c, q)
      BY <1>2
    <3> QED BY <3>1, <3>3, <3>4, <3>5, <3>6, <3>7
  <2> QED BY <2>1, <2>2
<1>7. DealOK'
  <2> SUFFICES ASSUME ~writing, NEW q \in Active \ {0}, NEW c \in 1 .. n_calls,
                      Kind(c) = "block", Serialized, CountIn(run, q, c) # 0, Past(q, c)'
               PROVE  DealtTo(q, c)'
    BY <1>2 DEF DealOK
  <2>1. Past(q, c) => DealtTo(q, c)'
    BY <1>1, <1>4 DEF MailOK, DealOK
  <2>2. CASE q = r
    BY <1>3, <2>1, <2>2
  <2>3. CASE q # r
    <3>1. Past(q, c)
      BY <1>1, <2>3 DEF Past, Moves
    <3> QED BY <2>1, <3>1
  <2> QED BY <2>2, <2>3
<1> QED BY <1>5, <1>6, <1>7 DEF MailOK

LEMMA QuietMail ==
  ASSUME LocalInv, MailOK, NEW r \in Active, Moves(r), mail' = mail,
         NEW d \in 1 .. n_calls, d = call[r], phase[r] \notin {"await", "deal", "receive"},
         \/ /\ call' = call /\ phase[r] # "end"
            /\ phase'[r] = "end" => r = 0 \/ writing \/ ~Serialized \/ CountIn(run, r, d) = 0
         \/ /\ call'[r] = call[r] + 1 /\ phase'[r] = "start"
            /\ phase[r] = "end" \/ Kind(d) # "block"
  PROVE  MailOK'
<1>1. d \in Nat /\ n_calls \in Nat
  BY ConfigOK DEF LocalInv, RankTyped
<1>2. ASSUME r = 0, NEW q \in Ranks, NEW c \in 1 .. n_calls, DealtTo(q, c) PROVE DealtTo(q, c)'
  <2>1. c \in Nat
    BY <1>1
  <2> QED BY <1>1, <1>2, <2>1 DEF DealtTo
<1>3. ASSUME ~writing, r # 0, NEW c \in 1 .. n_calls, Kind(c) = "block", Serialized,
             CountIn(run, r, c) # 0, Past(r, c)'
      PROVE  Past(r, c)
  <2>1. c \in Nat
    BY <1>1
  <2>2. CASE call' = call
    BY <1>1, <1>3, <2>1, <2>2 DEF Past
  <2>3. CASE call' # call
    <3>1. c < d + 1 /\ (d = c => phase[r] = "end")
      BY <1>1, <1>3, <2>1, <2>3 DEF Past
    <3> QED BY <1>1, <2>1, <3>1 DEF Past
  <2> QED BY <2>2, <2>3
<1> QED BY <1>2, <1>3, MailKept

LEMMA StillMail ==
  ASSUME LocalInv, MailOK, UNCHANGED <<setup, layout, run, call, phase, ser, mail>>
  PROVE  MailOK'
<1>1. /\ writing' = writing /\ Active' = Active /\ n_calls' = n_calls /\ Serialized' = Serialized
      /\ \A c : Kind(c)' = Kind(c)
      /\ \A c, k : CountIn(run, k, c)' = CountIn(run, k, c)
      /\ \A c, k : BlockValues(c, k)' = BlockValues(c, k)
  BY Frame, BlockFrame
<1>2. \A q : BlockValues(call[0], q)' = BlockValues(call[0], q)
             /\ BlockValues(call[q], q)' = BlockValues(call[q], q)
  <2>1. ASSUME NEW x PROVE BlockValues(call[x], x)' = BlockValues(call[x], x)
                           /\ \A q : BlockValues(call[x], q)' = BlockValues(call[x], q)
    <3>1. PICK c : c = call[x]
      OBVIOUS
    <3>2. c = call[x]'
      BY <3>1
    <3> QED BY <1>1, <3>1, <3>2
  <2> QED BY <2>1
<1>3. SyncRange' = SyncRange /\ \A q : Asked(q)' <=> Asked(q)
  BY DEF SyncRange, Asked
<1>4. MailWritten'
  BY <1>1, <1>2, <1>3 DEF MailOK, MailWritten
<1>5. \A q : DealtTo(q, call[q])' <=> DealtTo(q, call[q])
  BY DEF DealtTo
<1>6. MailRead'
  BY <1>1, <1>2, <1>5 DEF MailOK, MailRead
<1>7. \A q, c : (DealtTo(q, c)' <=> DealtTo(q, c)) /\ (Past(q, c)' <=> Past(q, c))
  BY DEF DealtTo, Past
<1>8. DealOK'
  BY <1>1, <1>7 DEF MailOK, DealOK
<1> QED BY <1>4, <1>6, <1>8 DEF MailOK

LEMMA OtherMail ==
  ASSUME LocalInv, MailOK, NEW r \in Ranks, Moves(r), NEW d \in 1 .. n_calls, d = call[r],
         \/ Tell(r) \/ Seek(r) \/ WriteGlobal(r) \/ ReadGlobal(r) \/ InitSerializer(r)
         \/ OwnBlock(r) \/ Scatter(r) \/ ReadOwn(r) \/ GatherCounts(r) \/ Access(r) \/ EndBlock(r)
  PROVE  MailOK'
<1>1. Abort => MailOK'
  BY StillMail DEF Abort
<1>2. call \in [Ranks -> Nat] /\ DOMAIN phase = Ranks
  BY DEF LocalInv, RankTyped
<1>3. ASSUME NEW ph, Goto(r, ph) PROVE call' = call /\ phase'[r] = ph
  BY <1>2, <1>3 DEF Goto
<1>4. ASSUME Return(r) PROVE call'[r] = call[r] + 1 /\ phase'[r] = "start"
  BY <1>2, <1>4 DEF Return
<1>5. ASSUME NEW op, NEW ph, In(r, op, ph) PROVE r \in Active /\ Kind(d) = op /\ phase[r] = ph
  BY <1>5, InCall
<1>6. ASSUME Tell(r) PROVE MailOK'
  <2>1. mail' = mail /\ In(r, "align", "start") /\ Goto(r, "pad")
    BY <1>6 DEF Tell
  <2>2. r \in Active /\ phase[r] = "start" /\ call' = call /\ phase'[r] = "pad"
    BY <1>3, <1>5, <2>1
  <2> QED BY <2>1, <2>2, QuietMail
<1>7. ASSUME Seek(r) PROVE MailOK'
  <2>1. mail' = mail /\ In(r, "align", "pad") /\ Return(r)
    BY <1>7 DEF Seek
  <2>2. r \in Active /\ phase[r] = "pad" /\ Kind(d) # "block" /\ call'[r] = call[r] + 1 /\ phase'[r] = "start"
    BY <1>4, <1>5, <2>1
  <2> QED BY <2>1, <2>2, QuietMail
<1>8. ASSUME WriteGlobal(r) PROVE MailOK'
  <2>1. mail' = mail /\ (In(r, "global", "start") \/ In(r, "align", "pad")) /\ Return(r)
    BY <1>8 DEF WriteGlobal
  <2>2. /\ r \in Active /\ phase[r] \in {"start", "pad"} /\ Kind(d) # "block"
        /\ call'[r] = call[r] + 1 /\ phase'[r] = "start"
    BY <1>4, <1>5, <2>1
  <2> QED BY <2>1, <2>2, QuietMail
<1>9. ASSUME ReadGlobal(r), ~Abort PROVE MailOK'
  <2>1. mail' = mail /\ In(r, "global", "start") /\ Return(r)
    BY <1>9 DEF ReadGlobal
  <2>2. /\ r \in Active /\ phase[r] = "start" /\ Kind(d) # "block"
        /\ call'[r] = call[r] + 1 /\ phase'[r] = "start"
    BY <1>4, <1>5, <2>1
  <2> QED BY <2>1, <2>2, QuietMail
<1>10. ASSUME InitSerializer(r) PROVE MailOK'
  <2>1. /\ mail' = mail /\ In(r, "block", "start")
        /\ Goto(r, "sync") \/ Goto(r, "scatter") \/ Goto(r, "advance")
    BY <1>10 DEF InitSerializer, Deposit
  <2>2. /\ r \in Active /\ phase[r] = "start" /\ call' = call
        /\ phase'[r] \in {"sync", "scatter", "advance"}
    BY <1>3, <1>5, <2>1
  <2> QED BY <2>1, <2>2, QuietMail
<1>11. ASSUME OwnBlock(r) PROVE MailOK'
  <2>1. mail' = mail /\ In(r, "block", "advance") /\ call' = call /\ phase' = phase
    BY <1>11 DEF OwnBlock
  <2>2. r \in Active /\ phase[r] = "advance" /\ phase'[r] = "advance"
    BY <1>5, <2>1
  <2> QED BY <2>1, <2>2, QuietMail
<1>12. ASSUME Scatter(r) PROVE MailOK'
  <2>1. mail' = mail /\ (In(r, "block", "advance") \/ In(r, "block", "scatter")) /\ Goto(r, "end")
    BY <1>12 DEF Scatter
  <2>2. /\ r \in Active /\ phase[r] \in {"advance", "scatter"} /\ call' = call
        /\ phase'[r] = "end"
    BY <1>3, <1>5, <2>1
  <2>3. writing
    <3>1. Stage(r)
      BY DEF LocalInv
    <3> QED BY <2>2, <3>1 DEF Stage, StageIn
  <2> QED BY <2>1, <2>2, <2>3, QuietMail
<1>13. ASSUME ReadOwn(r), ~Abort PROVE MailOK'
  <2>1. mail' = mail /\ In(r, "block", "start")
    BY <1>13 DEF ReadOwn, Deposit
  <2>2. r \in Active /\ phase[r] = "start"
    BY <1>5, <2>1
  <2>3. CASE r = 0
    <3>1. Goto(r, "gather")
      BY <1>13, <2>3 DEF ReadOwn
    <3>2. call' = call /\ phase'[r] = "gather"
      BY <1>3, <3>1
    <3> QED BY <2>1, <2>2, <3>2, QuietMail
  <2>4. CASE r # 0
    <3>1. Goto(r, IF Count(r) > 0 THEN "receive" ELSE "end")
      BY <1>13, <2>4 DEF ReadOwn, Deposit
    <3>2. Count(r) = CountIn(run, r, d) /\ CountIn(run, r, d) \in Nat
      <4>1. Kind(d) = "block"
        BY <1>5, <2>1
      <4> QED BY <2>2, <4>1, BlockOK DEF Count, LocalInv, RankTyped
    <3>3. call' = call /\ (phase'[r] = "end" => CountIn(run, r, d) = 0)
      BY <1>3, <3>1, <3>2
    <3> QED BY <2>1, <2>2, <3>3, QuietMail
  <2> QED BY <2>3, <2>4
<1>14. ASSUME GatherCounts(r) PROVE MailOK'
  <2>1. mail' = mail /\ In(r, "block", "gather") /\ Goto(r, "deal")
    BY <1>14 DEF GatherCounts
  <2>2. r \in Active /\ phase[r] = "gather" /\ call' = call /\ phase'[r] = "deal"
    BY <1>3, <1>5, <2>1
  <2> QED BY <2>1, <2>2, QuietMail
<1>15. ASSUME Access(r), ~Abort PROVE MailOK'
  <2>1. mail' = mail /\ In(r, "block", "start") /\ Goto(r, "end") /\ ~Serialized
    BY <1>15 DEF Access
  <2>2. r \in Active /\ phase[r] = "start" /\ call' = call /\ phase'[r] = "end"
    BY <1>3, <1>5, <2>1
  <2> QED BY <2>1, <2>2, QuietMail
<1>16. ASSUME EndBlock(r) PROVE MailOK'
  <2>1. mail' = mail /\ In(r, "block", "end") /\ Return(r)
    BY <1>16 DEF EndBlock
  <2>2. r \in Active /\ phase[r] = "end" /\ call'[r] = call[r] + 1 /\ phase'[r] = "start"
    BY <1>4, <1>5, <2>1
  <2> QED BY <2>1, <2>2, QuietMail
<1> QED BY <1>1, <1>6, <1>7, <1>8, <1>9, <1>10, <1>11, <1>12, <1>13, <1>14, <1>15, <1>16

\* Reading values where they are.
LEMMA GetPart ==
  ASSUME LocalInv, LayoutOK, FileOK, ~writing,
         NEW c \in 1 .. n_calls, NEW k \in Active, NEW first \in Nat \ {0}, NEW n \in Nat,
         NEW at \in Nat, at = Place(c) + first - 1, Fills(c, k) = at .. at + n - 1
  PROVE  Get(at, n) = Values(c, first, n) /\ ~Missing(at, n)
<1>1. setup \in Setups /\ run \in {1, 2} /\ file = layout.contents /\ Place(c) \in Nat
  <2>1. setup \in Setups /\ run \in {1, 2} /\ file = layout.contents
    BY DEF LocalInv, RankTyped, FileOK
  <2>2. c \in 1 .. n_calls + 1 /\ \A d \in 1 .. n_calls + 1 : Place(d) \in Nat
    BY <2>1, LayoutParts, PlacesGrow
  <2> QED BY <2>1, <2>2
<1>2. DOMAIN file = 0 .. Place(n_calls + 1) - 1
  <2>1. layout.contents = [p \in 0 .. Place(n_calls + 1) - 1 |-> layout.contents[p]]
    BY <1>1, LayoutParts
  <2> QED BY <1>1, <2>1
<1>3. ASSUME NEW p \in at .. at + n - 1
      PROVE  p \in DOMAIN file /\ file[p] = <<c, p - Place(c) + 1>>
  <2>1. p \in Fills(c, k)
    OBVIOUS
  <2> QED BY <1>1, <1>2, <2>1, FillsInside
<1>4. ASSUME NEW i \in 1 .. n
      PROVE  /\ at + i - 1 \in DOMAIN file
             /\ (IF at + i - 1 \in DOMAIN file THEN file[at + i - 1] ELSE <<>>)
                  = <<c, first + i - 1>>
  <2>1. at + i - 1 \in at .. at + n - 1 /\ (at + i - 1) - Place(c) + 1 = first + i - 1
    BY <1>1
  <2>2. PICK p \in at .. at + n - 1 : p = at + i - 1 /\ p - Place(c) + 1 = first + i - 1
    BY <2>1
  <2> QED BY <1>3, <2>2
<1>5. Get(at, n) = Values(c, first, n)
  BY <1>4 DEF Get, Values
<1>6. ~Missing(at, n)
  BY <1>3 DEF Missing
<1> QED BY <1>5, <1>6

\* The part of a rank in a block.
LEMMA BlockPart ==
  ASSUME LocalInv, LayoutOK, NEW c \in 1 .. n_calls, Kind(c) = "block", NEW k \in Active
  PROVE  \E first \in Nat \ {0}, n \in Nat, at \in Nat :
           /\ first = FirstIn(run, k, c) /\ first = Upto(c, k) + 1 /\ n = CountIn(run, k, c)
           /\ at = Place(c) + first - 1 /\ at = Place(c) + Upto(c, k)
           /\ Fills(c, k) = at .. at + n - 1 /\ BlockValues(c, k) = Values(c, first, n)
<1>1. setup \in Setups /\ run \in {1, 2} /\ Described
  BY DEF LocalInv, RankTyped
<1>2. /\ FirstIn(run, k, c) = Upto(c, k) + 1 /\ CountIn(run, k, c) \in Nat
      /\ Upto(c, k + 1) = Upto(c, k) + CountIn(run, k, c)
  BY <1>1, BlockOK
<1>3. PICK x \in Nat : x = Upto(c, k)
  <2>1. k \in 0 .. n_ranks
    BY <1>1, ConfigOK DEF Active
  <2> QED BY <1>1, <2>1, BlockOK
<1>4. PICK n \in Nat : n = CountIn(run, k, c)
  BY <1>2
<1>5. PICK a \in Nat : a = Place(c)
  <2>1. c \in 1 .. n_calls + 1 /\ \A d \in 1 .. n_calls + 1 : Place(d) \in Nat
    BY <1>1, LayoutParts, PlacesGrow
  <2> QED BY <2>1
<1>6. Fills(c, k) = a + x .. a + (x + n) - 1
  BY <1>2, <1>3, <1>4, <1>5 DEF Fills
<1>7. x + 1 \in Nat \ {0} /\ a + x \in Nat /\ a + x = a + (x + 1) - 1
      /\ Fills(c, k) = a + x .. (a + x) + n - 1
  BY <1>6
<1>8. BlockValues(c, k) = Values(c, x + 1, n)
  BY <1>2, <1>3, <1>4 DEF BlockValues
<1> QED BY <1>2, <1>3, <1>4, <1>5, <1>7, <1>8

\* Rank 0 and the rank that it has asked are in the same call.
LEMMA AskedTogether ==
  ASSUME LocalInv, writing, NEW r \in Active, r # 0, phase[r] = "sync", phase[0] = "await"
  PROVE  call[r] = call[0] /\ call[0] \in 1 .. n_calls /\ Kind(call[0]) = "block" /\ Serialized
<1>1. 0 \in Active /\ Active \subseteq Ranks /\ n_calls \in Nat
  BY ConfigOK DEF LocalInv, RankTyped
<1>2. Stage(0) /\ Stage(r)
  BY <1>1 DEF LocalInv
<1>3. PICK c \in 1 .. n_calls : c = call[0] /\ Kind(c) = "block" /\ Serialized
  BY <1>2 DEF Stage, StageIn
<1>4. PICK d \in 1 .. n_calls : d = call[r] /\ Kind(d) = "block"
  BY <1>2 DEF Stage, StageIn
<1>5. Now(0) = 4 * c + 1 /\ Now(r) = 4 * d + 1
  BY <1>3, <1>4 DEF Now, Level
<1>6. 4 * c \in Due(r, 0) /\ 4 * c + 1 \in Due(0, r)
  <2>1. SentFirst(r, 0, c)
    BY <1>3 DEF SentFirst
  <2>2. SentInside(0, r, c)
    BY <1>3 DEF SentInside
  <2>3. 4 * c \in Due(r, 0)
    BY <1>1, <2>1, DueAt
  <2>4. 4 * c + 1 \in Due(0, r)
    BY <1>1, <2>2, DueAt
  <2> QED BY <2>3, <2>4
<1>7. /\ \A t \in Due(r, 0) : t < Now(0) => t < Now(r)
      /\ \A t \in Due(0, r) : t < Now(r) => t < Now(0)
  <2>1. /\ Carried(r, Due(r, 0), Now(0), Now(r), coll[<<r, 0>>])
        /\ Carried(0, Due(0, r), Now(r), Now(0), coll[<<0, r>>])
    BY <1>1 DEF LocalInv, InTransit
  <2> QED BY <2>1 DEF Carried
<1>8. c = d
  <2>1. c \in Nat /\ d \in Nat
    BY <1>1
  <2>2. 4 * c < 4 * d + 1
    BY <1>5, <1>6, <1>7, <2>1
  <2>3. 4 * c + 1 < 4 * d + 1 => 4 * c + 1 < 4 * c + 1
    BY <1>5, <1>6, <1>7
  <2> QED BY <2>1, <2>2, <2>3
<1> QED BY <1>3, <1>4, <1>8

\* A rank that has values to be dealt waits for them.
LEMMA DealtWaits ==
  ASSUME LocalInv, MailOK, phase[0] = "deal", NEW q \in Active, q = ser.dist_rank,
         NEW c \in 1 .. n_calls, c = call[0], CountIn(run, q, c) # 0
  PROVE  call[q] = c /\ phase[q] = "receive" /\ mail[<<0, q>>] = <<>>
<1>1. 0 \in Active /\ Active \subseteq Ranks /\ n_calls \in Nat /\ call \in [Ranks -> Nat]
  BY ConfigOK DEF LocalInv, RankTyped
<1>2. Stage(0) /\ Stage(q)
  BY <1>1 DEF LocalInv
<1>3. Kind(c) = "block" /\ Serialized /\ ~writing
  BY <1>2 DEF Stage, StageIn
<1>4. q # 0 /\ q \in Nat
  <2>1. ser.dist_rank \in 1 .. n_ranks
    BY DEF LocalInv, SerializerOK
  <2> QED BY <2>1
<1>5. Now(0) = 4 * c + 1
  BY DEF Now, Level
<1>6. 4 * c \in Due(q, 0)
  BY <1>1, <1>3, <1>4, DueAt DEF SentFirst
<1>7. \A t \in Due(q, 0) : t < Now(0) => t < Now(q)
  <2>1. Carried(q, Due(q, 0), Now(0), Now(q), coll[<<q, 0>>])
    BY <1>1 DEF LocalInv, InTransit
  <2> QED BY <2>1 DEF Carried
<1>8. 4 * c < Now(q)
  BY <1>5, <1>6, <1>7
<1>9. ~DealtTo(q, c)
  BY <1>1, <1>4 DEF DealtTo
<1>10. ~Past(q, c)
  BY <1>3, <1>4, <1>9 DEF MailOK, DealOK
<1>11. call[q] <= c /\ call[q] \in Nat
  BY <1>1, <1>10 DEF Past
<1>12. call[q] = c /\ phase[q] # "start"
  BY <1>1, <1>8, <1>11 DEF Now, Level
<1>13. phase[q] = "receive"
  BY <1>2, <1>3, <1>4, <1>10, <1>12 DEF Stage, StageIn, Past
<1>14. mail[<<0, q>>] = <<>>
  BY <1>1, <1>3, <1>9, <1>12 DEF MailOK, MailRead
<1> QED BY <1>12, <1>13, <1>14

\* No synchronization fails: the range that rank 0 asks for is that of the rank.
LEMMA ServeAgrees ==
  ASSUME LocalInv, MailOK, NEW r \in Ranks, Serve(r)
  PROVE  /\ Head(mail[<<0, r>>]) = <<First(r), First(r) + Count(r)>>
         /\ mail[<<0, r>>] = <<Head(mail[<<0, r>>])>> /\ mail[<<r, 0>>] = <<>>
         /\ Asked(r) /\ call[r] = call[0] /\ writing
<1>1. r # 0 /\ r \in Active /\ phase[r] = "sync" /\ mail[<<0, r>>] # <<>>
  BY DEF Serve, In, Free, Arrived
<1>2. writing
  <2>1. Stage(r)
    BY DEF LocalInv
  <2> QED BY <1>1, <2>1 DEF Stage, StageIn
<1>3. Asked(r) /\ mail[<<0, r>>] = <<SyncRange>> /\ mail[<<r, 0>>] = <<>>
  BY <1>1, <1>2 DEF MailOK, MailWritten
<1>4. PICK c \in 1 .. n_calls : c = call[0] /\ c = call[r] /\ Kind(c) = "block"
  BY <1>1, <1>2, <1>3, AskedTogether DEF Asked
<1>5. ser.next_g_num = 1 + Upto(c, r) /\ ser.count = Counts(c) /\ ser.next_rank_id = r
  BY <1>3, <1>4 DEF Asked, LocalInv, SerializerOK
<1>6. /\ FirstIn(run, r, c) = Upto(c, r) + 1 /\ Upto(c, r) \in Nat
  <2>1. r \in 0 .. n_ranks
    BY <1>1, ConfigOK DEF Active, LocalInv, RankTyped
  <2> QED BY <1>1, <1>4, <2>1, BlockOK DEF LocalInv, RankTyped
<1>7. SyncRange = <<First(r), First(r) + Count(r)>>
  <2>1. First(r) = FirstIn(run, r, c) /\ Count(r) = CountIn(run, r, c)
    BY <1>4 DEF First, Count
  <2>2. ser.count[r] = CountIn(run, r, c)
    BY <1>1, <1>5 DEF Counts
  <2>3. ser.next_g_num = FirstIn(run, r, c)
    BY <1>5, <1>6
  <2> QED BY <1>5, <2>1, <2>2, <2>3 DEF SyncRange
<1> QED BY <1>2, <1>3, <1>4, <1>7

\* Messages sent and taken.
LEMMA RequestMail ==
  ASSUME LocalInv, MailOK, NEW r \in Ranks, Request(r), Moves(r)
  PROVE  MailOK'
<1>1. /\ r = 0 /\ In(0, "block", "advance") /\ ser.next_rank_id \in 1 .. n_ranks - 1
      /\ mail' = Posted(mail, 0, ser.next_rank_id, SyncRange) /\ Goto(0, "await") /\ ser' = ser
  BY DEF Request
<1>2. phase[0] = "advance" /\ phase'[0] = "await"
  BY <1>1 DEF Goto, In, LocalInv, RankTyped
<1>3. writing /\ writing'
  <2>1. Stage(0)
    BY <1>1 DEF LocalInv
  <2> QED BY <1>2, <2>1, Frame DEF Stage, StageIn, Moves
<1>4. PICK k \in Ranks \ {0} : k = ser.next_rank_id
  BY <1>1, ConfigOK DEF LocalInv, RankTyped, Active
<1>5. \A q \in Ranks : mail[<<0, q>>] = <<>> /\ mail[<<q, 0>>] = <<>>
  BY <1>2, <1>3 DEF MailOK, MailWritten, Asked
<1>6. PICK m : m = SyncRange
  OBVIOUS
<1>7. mail' = Posted(mail, 0, k, m) /\ DOMAIN mail = Ranks \X Ranks /\ 0 \in Ranks
  BY <1>1, <1>4, <1>6 DEF LocalInv, RankTyped
<1>8. /\ \A q \in Ranks : q # k => mail'[<<0, q>>] = <<>>
      /\ mail'[<<0, k>>] = <<m>> /\ \A q \in Ranks : mail'[<<q, 0>>] = <<>>
  <2>1. \A x, y \in Ranks : x # 0 \/ y # k => mail'[<<x, y>>] = mail[<<x, y>>]
    BY <1>7 DEF Posted
  <2>2. mail'[<<0, k>>] = Append(mail[<<0, k>>], m)
    BY <1>7 DEF Posted
  <2>3. Append(<<>>, m) = <<m>>
    OBVIOUS
  <2>4. k \in Ranks /\ mail[<<0, k>>] = <<>>
    BY <1>5
  <2> QED BY <1>5, <1>7, <2>1, <2>2, <2>3, <2>4
<1>9. SyncRange' = m /\ Asked(k)'
  BY <1>1, <1>2, <1>4, <1>6 DEF SyncRange, Asked
<1>10. MailWritten'
  BY <1>8, <1>9 DEF MailWritten
<1> QED BY <1>3, <1>10 DEF MailOK, MailRead, DealOK

LEMMA ServeMail ==
  ASSUME LocalInv, MailOK, NEW r \in Ranks, Serve(r), Moves(r)
  PROVE  MailOK'
<1>1. /\ Head(mail[<<0, r>>]) = <<First(r), First(r) + Count(r)>>
      /\ mail[<<0, r>>] = <<Head(mail[<<0, r>>])>> /\ mail[<<r, 0>>] = <<>>
      /\ Asked(r) /\ call[r] = call[0] /\ writing
  BY ServeAgrees
<1>2. r # 0 /\ mail' = Posted(Taken(mail, 0, r), r, 0, Block(r)) /\ Goto(r, "scatter") /\ ser' = ser
  BY <1>1 DEF Serve
<1>3. writing' /\ call'[0] = call[0] /\ phase'[0] = phase[0] /\ 0 \in Ranks
  BY <1>1, <1>2, Frame, ConfigOK DEF Moves, LocalInv, RankTyped
<1>4. PICK h : h = Head(mail[<<0, r>>])
  OBVIOUS
<1>5. PICK b : b = Block(r)
  OBVIOUS
<1>6. PICK taken : taken = Taken(mail, 0, r)
  OBVIOUS
<1>7. /\ \A x, y \in Ranks : x # 0 \/ y # r => taken[<<x, y>>] = mail[<<x, y>>]
      /\ taken[<<0, r>>] = <<>> /\ DOMAIN taken = Ranks \X Ranks
  <2>1. DOMAIN mail = Ranks \X Ranks
    BY DEF LocalInv, RankTyped
  <2>2. mail[<<0, r>>] = <<h>>
    BY <1>1, <1>4
  <2>3. /\ \A x, y \in Ranks : x # 0 \/ y # r => taken[<<x, y>>] = mail[<<x, y>>]
        /\ taken[<<0, r>>] = Tail(mail[<<0, r>>]) /\ DOMAIN taken = Ranks \X Ranks
    BY <1>3, <1>6, <2>1 DEF Taken
  <2>4. Tail(<<h>>) = <<>>
    OBVIOUS
  <2> QED BY <2>2, <2>3, <2>4
<1>8. mail' = Posted(taken, r, 0, b)
  BY <1>2, <1>5, <1>6
<1>9. /\ \A x, y \in Ranks : x # r \/ y # 0 => mail'[<<x, y>>] = taken[<<x, y>>]
      /\ taken[<<r, 0>>] = <<>> => mail'[<<r, 0>>] = <<b>>
  <2>1. /\ \A x, y \in Ranks : x # r \/ y # 0 => mail'[<<x, y>>] = taken[<<x, y>>]
        /\ mail'[<<r, 0>>] = Append(taken[<<r, 0>>], b)
    BY <1>3, <1>7, <1>8 DEF Posted
  <2>2. Append(<<>>, b) = <<b>>
    OBVIOUS
  <2> QED BY <2>1, <2>2
<1>10. taken[<<r, 0>>] = <<>>
  BY <1>1, <1>2, <1>3, <1>7
<1>11. \A q \in Ranks : q # r => mail[<<0, q>>] = <<>> /\ mail[<<q, 0>>] = <<>>
  BY <1>1 DEF MailOK, MailWritten, Asked
<1>12. \A q \in Ranks : q # r => mail'[<<0, q>>] = <<>> /\ mail'[<<q, 0>>] = <<>>
  BY <1>2, <1>3, <1>7, <1>9, <1>11
<1>13. mail'[<<0, r>>] = <<>> /\ mail'[<<r, 0>>] = <<b>>
  BY <1>2, <1>3, <1>7, <1>9, <1>10
<1>14. Asked(r)'
  BY <1>1, <1>2, <1>3 DEF Asked
<1>15. b = BlockValues(call[0], r)'
  <2>1. PICK c : c = call[0]
    OBVIOUS
  <2>2. b = BlockValues(c, r)
    BY <1>1, <1>5, <2>1 DEF Block, BlockValues, First, Count
  <2>3. BlockValues(c, r)' = BlockValues(c, r) /\ c = call[0]'
    BY <1>3, <2>1, BlockFrame DEF Moves
  <2> QED BY <2>2, <2>3
<1>16. MailWritten'
  BY <1>12, <1>13, <1>14, <1>15 DEF MailWritten
<1> QED BY <1>3, <1>16 DEF MailOK, MailRead, DealOK

LEMMA CollectMail ==
  ASSUME LocalInv, MailOK, NEW r \in Ranks, Collect(r), Moves(r)
  PROVE  /\ MailOK'
         /\ Head(mail[<<ser.next_rank_id, 0>>]) = BlockValues(call[r], ser.next_rank_id)
<1>1. /\ r = 0 /\ In(0, "block", "await") /\ Arrived(mail, ser.next_rank_id, 0)
      /\ mail' = Taken(mail, ser.next_rank_id, 0) /\ phase[0] = "await"
  BY DEF Collect, In
<1>2. writing /\ writing'
  <2>1. Stage(0)
    BY <1>1 DEF LocalInv
  <2> QED BY <1>1, <2>1, Frame DEF Stage, StageIn, Moves
<1>3. PICK k \in Ranks \ {0} : k = ser.next_rank_id
  <2>1. ser.next_rank_id \in 1 .. n_ranks - 1
    BY <1>1 DEF LocalInv, SerializerOK
  <2> QED BY <2>1, ConfigOK DEF LocalInv, RankTyped, Active
<1>4. mail[<<k, 0>>] # <<>>
  BY <1>1, <1>3 DEF Arrived
<1>5. PICK b : b = BlockValues(call[0], k)
  OBVIOUS
<1>6. mail[<<k, 0>>] = <<b>>
  BY <1>2, <1>4, <1>5 DEF MailOK, MailWritten
<1>7. \A q \in Ranks : mail[<<0, q>>] = <<>>
  BY <1>2, <1>3, <1>4 DEF MailOK, MailWritten, Asked
<1>8. \A q \in Ranks : q # k => mail[<<q, 0>>] = <<>>
  BY <1>2, <1>3 DEF MailOK, MailWritten, Asked
<1>9. mail' = Taken(mail, k, 0) /\ DOMAIN mail = Ranks \X Ranks /\ 0 \in Ranks
  BY <1>1, <1>3 DEF LocalInv, RankTyped
<1>10. /\ \A x, y \in Ranks : x # k \/ y # 0 => mail'[<<x, y>>] = mail[<<x, y>>]
       /\ mail'[<<k, 0>>] = <<>>
  <2>1. /\ \A x, y \in Ranks : x # k \/ y # 0 => mail'[<<x, y>>] = mail[<<x, y>>]
        /\ mail'[<<k, 0>>] = Tail(mail[<<k, 0>>])
    BY <1>9 DEF Taken
  <2>2. Tail(<<b>>) = <<>>
    OBVIOUS
  <2> QED BY <1>6, <2>1, <2>2
<1>11. \A q \in Ranks : mail'[<<0, q>>] = <<>> /\ mail'[<<q, 0>>] = <<>>
  BY <1>7, <1>8, <1>9, <1>10
<1>12. MailOK'
  BY <1>2, <1>11 DEF MailOK, MailWritten, MailRead, DealOK
<1>13. Head(mail[<<k, 0>>]) = b
  BY <1>6
<1> QED BY <1>1, <1>3, <1>5, <1>12, <1>13

\* What rank 0 reads for another rank.
LEMMA DealReads ==
  ASSUME LocalInv, LayoutOK, FileOK, In(0, "block", "deal"), ser.dist_rank # n_ranks,
         NEW c \in 1 .. n_calls, c = call[0]
  PROVE  /\ ser.dist_rank \in Active \ {0} /\ ~writing /\ Serialized /\ Kind(c) = "block"
         /\ ser.count[ser.dist_rank] = CountIn(run, ser.dist_rank, c)
         /\ CountIn(run, ser.dist_rank, c) \in Nat
         /\ Get(pos[0], ser.count[ser.dist_rank]) = BlockValues(c, ser.dist_rank)
         /\ ~Missing(pos[0], ser.count[ser.dist_rank])
<1>1. phase[0] = "deal" /\ 0 \in Ranks
  BY ConfigOK DEF In, LocalInv, RankTyped
<1>2. ~writing /\ Serialized /\ Kind(c) = "block" /\ method = "serial"
  <2>1. Stage(0)
    BY <1>1 DEF LocalInv
  <2> QED BY <1>1, <2>1 DEF Stage, StageIn, Serialized
<1>3. ser.count = Counts(c) /\ ser.dist_rank \in 1 .. n_ranks
  BY <1>1 DEF LocalInv, SerializerOK
<1>4. PICK q \in Active \ {0} : q = ser.dist_rank
  BY <1>3, ConfigOK DEF Active, LocalInv, RankTyped
<1>5. PICK first \in Nat \ {0}, n \in Nat, at \in Nat :
        /\ first = FirstIn(run, q, c) /\ first = Upto(c, q) + 1 /\ n = CountIn(run, q, c)
        /\ at = Place(c) + first - 1 /\ at = Place(c) + Upto(c, q)
        /\ Fills(c, q) = at .. at + n - 1 /\ BlockValues(c, q) = Values(c, first, n)
  BY <1>2, BlockPart
<1>6. ser.count[q] = n
  BY <1>3, <1>5 DEF Counts
<1>7. pos[0] = at
  <2>1. Progress = Upto(c, q)
    BY <1>1, <1>4 DEF Progress
  <2> QED BY <1>2, <1>5, <2>1 DEF LocalInv, PositionsOK
<1>8. Get(at, n) = Values(c, first, n) /\ ~Missing(at, n)
  BY <1>2, <1>5, GetPart
<1> QED BY <1>2, <1>4, <1>5, <1>6, <1>7, <1>8

LEMMA DealMail ==
  ASSUME LocalInv, LayoutOK, FileOK, MailOK, NEW r \in Ranks, Deal(r), Moves(r),
         NEW c \in 1 .. n_calls, c = call[r]
  PROVE  MailOK'
<1>1. r = 0 /\ In(0, "block", "deal") /\ phase[0] = "deal" /\ 0 \in Active /\ 0 \in Ranks
  BY ConfigOK DEF Deal, In, LocalInv, RankTyped
<1>2. Abort => MailOK'
  BY StillMail DEF Abort
<1>3. CASE ser.dist_rank = n_ranks
  <2>1. mail' = mail /\ Goto(0, "end")
    BY <1>1, <1>3 DEF Deal
  <2>2. call' = call /\ phase'[0] = "end"
    BY <1>1, <2>1 DEF Goto, LocalInv, RankTyped
  <2>3. ASSUME NEW q \in Ranks, NEW d \in 1 .. n_calls, DealtTo(q, d) PROVE DealtTo(q, d)'
    BY <1>1, <2>2, <2>3 DEF DealtTo
  <2> QED BY <1>1, <2>1, <2>3, MailKept
<1>4. CASE ser.dist_rank # n_ranks
  <2>1. PICK q \in Active \ {0} : q = ser.dist_rank
    BY <1>1, <1>4, DealReads
  <2>2. PICK m : m = BlockValues(c, q)
    OBVIOUS
  <2>3. PICK n \in Nat : /\ n = ser.count[q] /\ n = CountIn(run, q, c)
                          /\ m = Get(pos[0], n)
    BY <1>1, <1>4, <2>1, <2>2, DealReads
  <2>4. ~writing /\ Kind(c) = "block" /\ Serialized /\ ~Missing(pos[0], n)
    BY <1>1, <1>4, <2>1, <2>2, <2>3, DealReads
  <2>5. /\ ser' = [ser EXCEPT !.dist_rank = @ + 1] /\ call' = call /\ phase' = phase
        /\ mail' = IF n = 0 THEN mail ELSE Posted(mail, 0, q, m)
    BY <1>1, <1>4, <2>1, <2>2, <2>3, <2>4 DEF Deal
  <2>6. ser'.dist_rank = q + 1 /\ q \in Nat
    <3>1. DOMAIN ser = SerializerFields /\ q \in Nat
      BY ConfigOK DEF LocalInv, SerializerOK, RankTyped
    <3> QED BY <2>1, <2>5, <3>1 DEF SerializerFields
  <2>7. ASSUME NEW x \in Ranks, NEW d \in 1 .. n_calls, DealtTo(x, d) PROVE DealtTo(x, d)'
    <3>1. x \in Nat
      BY RanksAssumption
    <3> QED BY <1>1, <2>1, <2>5, <2>6, <2>7, <3>1 DEF DealtTo
  <2>8. CASE n = 0
    BY <1>1, <2>5, <2>7, <2>8, MailKept
  <2>9. CASE n # 0
    <3>1. call[q] = c /\ phase[q] = "receive" /\ mail[<<0, q>>] = <<>>
      BY <1>1, <2>1, <2>2, <2>3, <2>9, DealtWaits
    <3>2. q \in Ranks /\ DOMAIN mail = Ranks \X Ranks
      BY ConfigOK DEF LocalInv, RankTyped
    <3>3. /\ \A x, y \in Ranks : x # 0 \/ y # q => mail'[<<x, y>>] = mail[<<x, y>>]
          /\ mail'[<<0, q>>] = Append(mail[<<0, q>>], m)
      BY <1>1, <2>5, <2>9, <3>2 DEF Posted
    <3>4. Append(<<>>, m) = <<m>>
      OBVIOUS
    <3>5. mail'[<<0, q>>] = <<m>>
      BY <3>1, <3>3, <3>4
    <3>6. ~writing'
      BY <2>4, Frame DEF Moves
    <3>7. ASSUME NEW x \in Ranks
          PROVE  /\ mail'[<<x, 0>>] = <<>>
                 /\ mail'[<<0, x>>] # <<>> =>
                      /\ x # 0 /\ phase'[x] = "receive" /\ DealtTo(x, call[x])'
                      /\ mail'[<<0, x>>] = <<BlockValues(call[x], x)>>'
      <4>1. mail'[<<x, 0>>] = mail[<<x, 0>>] /\ mail[<<x, 0>>] = <<>>
        BY <1>1, <2>1, <2>4, <3>3 DEF MailOK, MailRead
      <4>2. CASE x = q
        <5>1. DealtTo(q, c)'
          BY <1>1, <2>5, <2>6 DEF DealtTo
        <5>2. c = call'[q]
          BY <2>5, <3>1
        <5>3. BlockValues(c, q)' = BlockValues(c, q)
          BY BlockFrame DEF Moves
        <5> QED BY <2>1, <2>2, <2>3, <2>5, <3>1, <3>5, <4>1, <4>2, <5>1, <5>2, <5>3
      <4>3. CASE x # q
        <5>1. mail'[<<0, x>>] = mail[<<0, x>>]
          BY <1>1, <3>3, <4>3
        <5>2. ASSUME mail[<<0, x>>] # <<>>
              PROVE  /\ x # 0 /\ phase'[x] = "receive" /\ DealtTo(x, call[x])'
                     /\ mail[<<0, x>>] = <<BlockValues(call[x], x)>>'
          <6>1. /\ x # 0 /\ phase[x] = "receive" /\ DealtTo(x, call[x])
                /\ mail[<<0, x>>] = <<BlockValues(call[x], x)>>
            BY <2>4, <5>2 DEF MailOK, MailRead
          <6>2. PICK d \in 1 .. n_calls : d = call[x]
            <7>1. Stage(x)
              BY DEF LocalInv
            <7> QED BY <6>1, <7>1 DEF Stage
          <6>3. d = call'[x] /\ DealtTo(x, d)' /\ BlockValues(d, x)' = BlockValues(d, x)
            BY <2>5, <2>7, <6>1, <6>2, BlockFrame DEF Moves
          <6> QED BY <2>5, <6>1, <6>2, <6>3
        <5> QED BY <4>1, <5>1, <5>2
      <4> QED BY <4>2, <4>3
    <3>8. MailRead'
      BY <3>7 DEF MailRead
    <3>9. DealOK'
      <4>1. /\ Active' = Active /\ n_calls' = n_calls /\ Serialized' = Serialized
            /\ Active \subseteq Ranks
            /\ \A d : Kind(d)' = Kind(d)
            /\ \A d, k : CountIn(run, k, d)' = CountIn(run, k, d)
        BY Frame, ConfigOK DEF Moves, LocalInv, RankTyped
      <4>2. \A x, d : Past(x, d)' <=> Past(x, d)
        BY <2>5 DEF Past
      <4> QED BY <2>4, <2>7, <4>1, <4>2 DEF MailOK, DealOK
    <3> QED BY <3>6, <3>8, <3>9 DEF MailOK, MailWritten
  <2> QED BY <2>8, <2>9
<1> QED BY <1>3, <1>4

LEMMA ReceiveMail ==
  ASSUME LocalInv, MailOK, NEW r \in Ranks, Receive(r), Moves(r),
         NEW c \in 1 .. n_calls, c = call[r]
  PROVE  /\ MailOK'
         /\ Head(mail[<<0, r>>]) = BlockValues(c, r) /\ ~writing
<1>1. /\ r # 0 /\ In(r, "block", "receive") /\ mail[<<0, r>>] # <<>> /\ phase[r] = "receive"
      /\ mail' = Taken(mail, 0, r) /\ Goto(r, "end")
  BY DEF Receive, In, Arrived
<1>2. ~writing /\ ~writing'
  <2>1. Stage(r)
    BY DEF LocalInv
  <2> QED BY <1>1, <2>1, Frame DEF Stage, StageIn, Moves
<1>3. DealtTo(r, c) /\ mail[<<0, r>>] = <<BlockValues(c, r)>>
  BY <1>1, <1>2 DEF MailOK, MailRead
<1>4. /\ 0 \in Ranks /\ Active \subseteq Ranks /\ DOMAIN mail = Ranks \X Ranks
      /\ ser' = ser /\ call' = call /\ phase'[0] = phase[0]
  BY <1>1, ConfigOK DEF LocalInv, RankTyped, Moves, Goto
<1>5. PICK b : b = BlockValues(c, r)
  OBVIOUS
<1>6. /\ \A x, y \in Ranks : x # 0 \/ y # r => mail'[<<x, y>>] = mail[<<x, y>>]
      /\ mail'[<<0, r>>] = Tail(mail[<<0, r>>])
  BY <1>1, <1>4 DEF Taken
<1>7. Tail(<<b>>) = <<>> /\ Head(<<b>>) = b
  OBVIOUS
<1>8. mail'[<<0, r>>] = <<>> /\ Head(mail[<<0, r>>]) = b
  BY <1>3, <1>5, <1>6, <1>7
<1>9. \A q, d : DealtTo(q, d)' <=> DealtTo(q, d)
  BY <1>4 DEF DealtTo
<1>10. ASSUME NEW x \in Ranks
       PROVE  /\ mail'[<<x, 0>>] = <<>>
              /\ mail'[<<0, x>>] # <<>> =>
                   /\ x # 0 /\ phase'[x] = "receive" /\ DealtTo(x, call[x])'
                   /\ mail'[<<0, x>>] = <<BlockValues(call[x], x)>>'
  <2>1. mail'[<<x, 0>>] = <<>>
    BY <1>1, <1>2, <1>4, <1>6 DEF MailOK, MailRead
  <2>2. CASE x = r
    BY <1>8, <2>1, <2>2
  <2>3. CASE x # r
    <3>1. mail'[<<0, x>>] = mail[<<0, x>>] /\ phase'[x] = phase[x]
      BY <1>4, <1>6, <2>3 DEF Moves
    <3>2. PICK d : d = call[x]
      OBVIOUS
    <3>3. d = call'[x] /\ (DealtTo(x, d)' <=> DealtTo(x, d)) /\ BlockValues(d, x)' = BlockValues(d, x)
      BY <1>4, <1>9, <3>2, BlockFrame DEF Moves
    <3>4. mail[<<0, x>>] # <<>> =>
            /\ x # 0 /\ phase[x] = "receive" /\ DealtTo(x, d) /\ mail[<<0, x>>] = <<BlockValues(d, x)>>
      BY <1>2, <3>2 DEF MailOK, MailRead
    <3> QED BY <2>1, <3>1, <3>3, <3>4
  <2> QED BY <2>2, <2>3
<1>11. MailRead'
  BY <1>10 DEF MailRead
<1>12. DealOK'
  <2>1. /\ Active' = Active /\ n_calls' = n_calls /\ Serialized' = Serialized
        /\ \A d : Kind(d)' = Kind(d)
        /\ \A d, k : CountIn(run, k, d)' = CountIn(run, k, d)
    BY Frame DEF Moves
  <2> SUFFICES ASSUME NEW q \in Active \ {0}, NEW d \in 1 .. n_calls, Kind(d) = "block",
                      Serialized, CountIn(run, q, d) # 0, Past(q, d)'
               PROVE  DealtTo(q, d)
    BY <1>9, <2>1 DEF DealOK
  <2>2. CASE q = r /\ d = c
    BY <1>3, <2>2
  <2>3. CASE ~(q = r /\ d = c)
    <3>1. Past(q, d)
      BY <1>4, <2>3 DEF Past, Moves
    <3> QED BY <1>2, <3>1 DEF MailOK, DealOK
  <2> QED BY <2>2, <2>3
<1> QED BY <1>2, <1>5, <1>8, <1>11, <1>12 DEF MailOK, MailWritten

-----------------------------------------------------------------------------
(***************************************************************************)
(* What each rank has read: its parts of the calls that it is back from,   *)
(* and of the block that it is in once it has read or received its values. *)
(***************************************************************************)
Has(r, c) == /\ ~writing /\ r \in Active
             /\ \/ c < call[r]
                \/ c = call[r] /\ phase[r] \in {"gather", "deal", "end"}
Value(r, c) == IF Has(r, c) THEN Part(r, c) ELSE <<>>
GotOK == got = [r \in Ranks |-> [c \in 1 .. n_calls |-> Value(r, c)]]

LEMMA PartIs ==
  ASSUME LocalInv, NEW c \in 1 .. n_calls, NEW r \in Active
  PROVE  /\ Kind(c) = "global" => Part(r, c) = Values(c, 1, setup.calls[c].n)
         /\ Kind(c) = "block" /\ ~writing => Part(r, c) = BlockValues(c, r)
         /\ Kind(c) = "align" => Part(r, c) = <<>>
<1>1. ~writing => run = 2
  BY DEF LocalInv, RankTyped, writing
<1> QED BY <1>1 DEF Part, Kind, BlockValues

LEMMA PartFrame ==
  ASSUME UNCHANGED setup
  PROVE  \A r, c : Part(r, c)' = Part(r, c)
BY DEF Part, Values, FirstIn, CountIn, Start, End, Step

LEMMA NoValues == \A c, first : Values(c, first, 0) = <<>>
BY DEF Values

WithValue(r, c, v) == [got EXCEPT ![r][c] = v]

\* The values of a rank after a step: those of other calls, and of other ranks, remain.
LEMMA GotNext ==
  ASSUME LocalInv, GotOK, NEW r \in Active, Moves(r), NEW c \in 1 .. n_calls, c = call[r],
         call' = call \/ (call'[r] = call[r] + 1 /\ phase'[r] = "start"),
         NEW v, v = Value(r, c)',
         (got' = got /\ Value(r, c) = v) \/ got' = WithValue(r, c, v)
  PROVE  GotOK'
<1>1. /\ writing' = writing /\ Active' = Active /\ n_calls' = n_calls
      /\ n_calls \in Nat /\ Active \subseteq Ranks /\ call \in [Ranks -> Nat]
      /\ \A q, d : Part(q, d)' = Part(q, d)
  BY Frame, PartFrame, ConfigOK DEF Moves, LocalInv, RankTyped
<1>2. ASSUME NEW d \in 1 .. n_calls, d # c PROVE Value(r, d)' = Value(r, d)
  <2>1. c \in Nat /\ d \in Nat
    BY <1>1
  <2>2. Has(r, d)' <=> Has(r, d)
    BY <1>1, <1>2, <2>1 DEF Has
  <2> QED BY <1>1, <2>2 DEF Value
<1>3. ASSUME NEW q \in Ranks \ {r}, NEW d \in 1 .. n_calls PROVE Value(q, d)' = Value(q, d)
  <2>1. call'[q] = call[q] /\ phase'[q] = phase[q]
    BY DEF Moves
  <2>2. Has(q, d)' <=> Has(q, d)
    BY <1>1, <2>1 DEF Has
  <2> QED BY <1>1, <2>2 DEF Value
<1>4. /\ DOMAIN got = Ranks
      /\ \A q \in Ranks : DOMAIN got[q] = 1 .. n_calls
      /\ \A q \in Ranks : got[q] = [d \in 1 .. n_calls |-> got[q][d]]
      /\ \A q \in Ranks, d \in 1 .. n_calls : got[q][d] = Value(q, d)
  BY DEF GotOK
<1>5. ASSUME NEW q \in Ranks
      PROVE  got'[q] = [d \in 1 .. n_calls |-> Value(q, d)']
  <2>1. CASE q # r
    <3>1. got'[q] = got[q]
      BY <1>4, <2>1 DEF WithValue
    <3> QED BY <1>3, <1>4, <2>1, <3>1
  <2>2. CASE q = r
    <3>1. ASSUME NEW d \in 1 .. n_calls PROVE got'[r][d] = Value(r, d)'
      BY <1>1, <1>2, <1>4 DEF WithValue
    <3>2. got'[r] = [d \in 1 .. n_calls |-> got'[r][d]]
      BY <1>1, <1>4 DEF WithValue
    <3> QED BY <2>2, <3>1, <3>2
  <2> QED BY <2>1, <2>2
<1>6. got' = [q \in Ranks |-> got'[q]]
  <2>1. got = [q \in Ranks |-> got[q]]
    BY DEF GotOK
  <2>2. got' = got \/ \E w : got' = [got EXCEPT ![r] = w]
    BY DEF WithValue
  <2> QED BY <2>1, <2>2
<1>7. ASSUME NEW q \in Ranks
      PROVE  got'[q] = [d \in 1 .. n_calls' |-> Value(q, d)']
  BY <1>1, <1>5
<1>8. got' = [q \in Ranks |-> [d \in 1 .. n_calls' |-> Value(q, d)']]
  BY <1>6, <1>7
<1> QED BY <1>8 DEF GotOK

\* A step of the writing run reads nothing.
LEMMA WritingGot ==
  ASSUME LocalInv, GotOK, writing, NEW r \in Ranks, Moves(r), got' = got
  PROVE  GotOK'
<1>1. writing' = writing /\ n_calls' = n_calls
  BY Frame DEF Moves
<1>2. \A q, c : Value(q, c) = <<>> /\ Value(q, c)' = <<>>
  BY <1>1 DEF Value, Has
<1> QED BY <1>1, <1>2 DEF GotOK

\* What a rank has in the call that it is in.
LEMMA ValueHere ==
  ASSUME LocalInv, NEW r \in Active, NEW c \in 1 .. n_calls, c = call[r], Moves(r), ~writing
  PROVE  /\ phase[r] \notin {"gather", "deal", "end"} => Value(r, c) = <<>>
         /\ phase[r] \in {"gather", "deal", "end"} => Value(r, c) = Part(r, c)
         /\ call' = call /\ phase'[r] \in {"gather", "deal", "end"} => Value(r, c)' = Part(r, c)
         /\ call' = call /\ phase'[r] \notin {"gather", "deal", "end"} => Value(r, c)' = <<>>
         /\ call'[r] = call[r] + 1 => Value(r, c)' = Part(r, c)
<1>1. /\ writing' = writing /\ Active' = Active /\ c \in Nat
      /\ Part(r, c)' = Part(r, c)
  BY Frame, PartFrame, ConfigOK DEF Moves, LocalInv, RankTyped
<1> QED BY <1>1 DEF Value, Has

\* A step that reads nothing, and goes on in a call or returns from it.
LEMMA SameGot ==
  ASSUME LocalInv, GotOK, NEW r \in Active, Moves(r), NEW c \in 1 .. n_calls, c = call[r],
         got' = got, ~writing,
         \/ /\ call' = call
            /\ phase'[r] \in {"gather", "deal", "end"} =>
                 phase[r] \in {"gather", "deal", "end"} \/ Part(r, c) = <<>>
            /\ phase[r] \in {"gather", "deal", "end"} => phase'[r] \in {"gather", "deal", "end"}
         \/ /\ call'[r] = call[r] + 1 /\ phase'[r] = "start"
            /\ phase[r] \in {"gather", "deal", "end"} \/ Part(r, c) = <<>>
  PROVE  GotOK'
<1>1. Value(r, c)' = Value(r, c)
  BY ValueHere
<1> QED BY <1>1, GotNext

\* A step that reads the part of a rank, and goes on or returns.
LEMMA PartGot ==
  ASSUME LocalInv, GotOK, NEW r \in Active, Moves(r), NEW c \in 1 .. n_calls, c = call[r],
         ~writing, got' = [got EXCEPT ![r][c] = Part(r, c)],
         \/ call' = call /\ phase'[r] \in {"gather", "deal", "end"}
         \/ call'[r] = call[r] + 1 /\ phase'[r] = "start"
  PROVE  GotOK'
<1>1. Value(r, c)' = Part(r, c)
  BY ValueHere
<1>2. PICK v : v = Part(r, c)
  OBVIOUS
<1>3. v = Value(r, c)' /\ got' = WithValue(r, c, v)
  BY <1>1, <1>2 DEF WithValue
<1>4. call' = call \/ (call'[r] = call[r] + 1 /\ phase'[r] = "start")
  OBVIOUS
<1> QED BY <1>3, <1>4, GotNext

-----------------------------------------------------------------------------
\* What the reading run reads, action by action; and no call is an error.
LEMMA TellGot ==
  ASSUME LocalInv, GotOK, NEW r \in Ranks, Tell(r), Moves(r), NEW c \in 1 .. n_calls, c = call[r]
  PROVE  GotOK' /\ aborted' = aborted
<1>1. /\ r \in Active /\ phase[r] = "start" /\ Goto(r, "pad") /\ got' = got
      /\ aborted' = aborted
  BY DEF Tell, In, Free
<1>2. call' = call /\ phase'[r] = "pad"
  BY <1>1 DEF Goto, LocalInv, RankTyped
<1> QED BY <1>1, <1>2, SameGot, WritingGot

LEMMA SeekGot ==
  ASSUME LocalInv, GotOK, NEW r \in Ranks, Seek(r), Moves(r), NEW c \in 1 .. n_calls, c = call[r]
  PROVE  GotOK' /\ aborted' = aborted
<1>1. /\ r \in Active /\ Kind(c) = "align" /\ Return(r) /\ got' = got /\ ~writing
      /\ aborted' = aborted
  BY DEF Seek, In, Free, Kind, Op
<1>2. call'[r] = call[r] + 1 /\ phase'[r] = "start"
  BY <1>1 DEF Return, LocalInv, RankTyped
<1>3. Part(r, c) = <<>>
  BY <1>1, PartIs
<1> QED BY <1>1, <1>2, <1>3, SameGot

LEMMA ReadGlobalGets ==
  ASSUME LocalInv, LayoutOK, FileOK, ReadGlobal(0)
  PROVE  /\ Get(offset[0], Op(0).n) = Values(call[0], 1, Op(0).n)
         /\ ~Missing(offset[0], Op(0).n)
<1>1. 0 \in Ranks /\ ~writing /\ In(0, "global", "start") /\ 0 \in Active
  BY ConfigOK DEF ReadGlobal, LocalInv, RankTyped
<1>2. /\ call[0] \in 1 .. n_calls /\ Kind(call[0]) = "global" /\ Op(0) = setup.calls[call[0]]
      /\ Op(0) \in Operations /\ offset[0] = Place(call[0]) /\ Place(call[0]) \in Nat
      /\ Place(call[0] + 1) = Place(call[0]) + Length(Op(0), Place(call[0]))
  BY <1>1, InCall
<1>3. PICK c \in 1 .. n_calls : c = call[0]
  BY <1>2
<1>4. PICK n \in Nat : n = Op(0).n /\ Place(c + 1) = Place(c) + n
  BY <1>2, <1>3 DEF Operations, Length, Kind
<1>5. PICK at \in Nat : at = Place(c)
  BY <1>2, <1>3
<1>6. Fills(c, 0) = at .. at + n - 1
  <2>1. Kind(c) # "block" /\ Place(c + 1) = at + n
    BY <1>2, <1>3, <1>4, <1>5
  <2> QED BY <1>5, <2>1 DEF Fills, Extent
<1>7. 1 \in Nat \ {0} /\ at = Place(c) + 1 - 1
  BY <1>5
<1>8. Get(at, n) = Values(c, 1, n) /\ ~Missing(at, n)
  BY <1>1, <1>6, <1>7, GetPart
<1> QED BY <1>2, <1>3, <1>4, <1>5, <1>8

LEMMA ReadGlobalGot ==
  ASSUME LocalInv, LayoutOK, FileOK, GotOK, NEW r \in Ranks, ReadGlobal(r), Moves(r),
         NEW c \in 1 .. n_calls, c = call[r]
  PROVE  GotOK' /\ aborted' = aborted
<1>1. ~writing /\ In(r, "global", "start") /\ (r # 0 => Arrived(coll, 0, r))
  BY DEF ReadGlobal
<1>2. /\ r \in Active /\ Kind(c) = "global" /\ Op(r) = setup.calls[c] /\ Now(r) = 4 * c
      /\ setup \in Setups /\ run \in {1, 2} /\ 0 \in Active /\ Active \subseteq Ranks
  <2>1. /\ setup \in Setups /\ run \in {1, 2} /\ 0 \in Active /\ Active \subseteq Ranks
        /\ c \in Nat
    BY ConfigOK DEF LocalInv, RankTyped
  <2>2. /\ r \in Active /\ Kind(c) = "global" /\ Op(r) = setup.calls[c]
        /\ Now(r) = 4 * c + Level("start")
    BY <1>1, InCall
  <2>3. Level("start") = 0
    BY DEF Level
  <2> QED BY <2>1, <2>2, <2>3
<1>3. Part(r, c) = Values(c, 1, Op(r).n)
  BY <1>2, PartIs
<1>4. CASE r = 0
  <2>1. /\ Get(offset[0], Op(0).n) = Values(call[0], 1, Op(0).n)
        /\ ~Missing(offset[0], Op(0).n)
    BY <1>4, ReadGlobalGets
  <2>2. /\ got' = [got EXCEPT ![r][call[r]] = Get(offset[r], Op(r).n)] /\ Return(r)
        /\ aborted' = aborted
    BY <1>4, <2>1 DEF ReadGlobal
  <2>3. call'[r] = call[r] + 1 /\ phase'[r] = "start"
    BY <2>2 DEF Return, LocalInv, RankTyped
  <2>4. got' = [got EXCEPT ![r][c] = Part(r, c)]
    BY <1>3, <1>4, <2>1, <2>2
  <2> QED BY <1>1, <1>2, <2>2, <2>3, <2>4, PartGot
<1>5. CASE r # 0
  <2>1. /\ got' = [got EXCEPT ![r][call[r]] = Head(coll[<<0, r>>])] /\ Return(r)
        /\ aborted' = aborted
    BY <1>5 DEF ReadGlobal
  <2>2. call'[r] = call[r] + 1 /\ phase'[r] = "start"
    BY <2>1 DEF Return, LocalInv, RankTyped
  <2>3. 4 * c \in Due(0, r)
    BY <1>1, <1>2, <1>5, FirstBroadcast
  <2>4. Says(0, 4 * c, Head(coll[<<0, r>>]))
    <3>1. \A q \in Ranks : Now(q) \in Nat
      BY NowType DEF LocalInv
    <3>2. Says(0, Now(r), Head(coll[<<0, r>>]))
      BY <1>1, <1>2, <1>5, <2>3, <3>1, TakenSays DEF LocalInv
    <3> QED BY <1>2, <3>2
  <2>5. Head(coll[<<0, r>>]) = Values(c, 1, setup.calls[c].n)
    BY <1>1, <1>2, <2>4, SaysAt
  <2>6. got' = [got EXCEPT ![r][c] = Part(r, c)]
    BY <1>2, <1>3, <2>1, <2>5
  <2> QED BY <1>1, <1>2, <2>1, <2>2, <2>6, PartGot
<1> QED BY <1>4, <1>5

\* The part of a rank that has no value in a block.
LEMMA EmptyPart ==
  ASSUME LocalInv, NEW r \in Active, NEW c \in 1 .. n_calls, Kind(c) = "block", ~writing,
         CountIn(run, r, c) = 0
  PROVE  Part(r, c) = <<>>
BY PartIs, NoValues DEF BlockValues

\* What a rank reads when it reads its own block, at the place of this one.
LEMMA BlockReads ==
  ASSUME LocalInv, LayoutOK, FileOK, ~writing, NEW r \in Active, NEW c \in 1 .. n_calls,
         c = call[r], Kind(c) = "block", NEW at, at = Place(c) + Upto(c, r)
  PROVE  Get(at, Count(r)) = Part(r, c) /\ ~Missing(at, Count(r))
<1>1. PICK first \in Nat \ {0}, n \in Nat, a \in Nat :
        /\ first = FirstIn(run, r, c) /\ first = Upto(c, r) + 1 /\ n = CountIn(run, r, c)
        /\ a = Place(c) + first - 1 /\ a = Place(c) + Upto(c, r)
        /\ Fills(c, r) = a .. a + n - 1 /\ BlockValues(c, r) = Values(c, first, n)
  BY BlockPart
<1>2. Get(a, n) = Values(c, first, n) /\ ~Missing(a, n)
  BY <1>1, GetPart
<1>3. Count(r) = n /\ Part(r, c) = Values(c, first, n) /\ a = at
  BY <1>1, PartIs DEF Count
<1> QED BY <1>2, <1>3

LEMMA ReadOwnGot ==
  ASSUME LocalInv, LayoutOK, FileOK, GotOK, NEW r \in Ranks, ReadOwn(r), Moves(r),
         NEW c \in 1 .. n_calls, c = call[r]
  PROVE  GotOK' /\ aborted' = aborted
<1>1. ~writing /\ Serialized /\ r \in Active /\ phase[r] = "start" /\ Kind(c) = "block"
  BY DEF ReadOwn, In, Free, Kind, Op
<1>2. DOMAIN phase = Ranks /\ setup \in Setups /\ run \in {1, 2}
  BY DEF LocalInv, RankTyped
<1>3. CASE r # 0
  <2>1. /\ Goto(r, IF Count(r) > 0 THEN "receive" ELSE "end") /\ got' = got
        /\ aborted' = aborted
    BY <1>3 DEF ReadOwn, Deposit
  <2>2. call' = call /\ phase'[r] = IF Count(r) > 0 THEN "receive" ELSE "end"
    BY <1>2, <2>1 DEF Goto
  <2>3. CountIn(run, r, c) \in Nat
    BY <1>1, <1>2, BlockOK
  <2>4. phase'[r] = "end" => Part(r, c) = <<>>
    BY <1>1, <2>2, <2>3, EmptyPart DEF Count
  <2> QED BY <1>1, <2>1, <2>2, <2>4, SameGot
<1>4. CASE r = 0
  <2>1. pos[0] = Place(c) + Upto(c, 0)
    <3>1. Progress = 0
      BY <1>1, <1>4 DEF Progress
    <3>2. Upto(c, 0) = 0
      BY <1>1, <1>2, BlockOK
    <3> QED BY <1>1, <1>4, <3>1, <3>2 DEF LocalInv, PositionsOK, Serialized
  <2>2. PICK at : at = pos[0] /\ at = Place(c) + Upto(c, r)
    BY <1>4, <2>1
  <2>3. Get(pos[r], Count(r)) = Part(r, c) /\ ~Missing(pos[r], Count(r))
    BY <1>1, <1>4, <2>2, BlockReads
  <2>4. /\ got' = [got EXCEPT ![r][call[r]] = Get(pos[r], Count(r))] /\ Goto(r, "gather")
        /\ aborted' = aborted
    BY <1>4, <2>3 DEF ReadOwn
  <2>5. call' = call /\ phase'[r] = "gather"
    BY <1>2, <2>4 DEF Goto
  <2>6. got' = [got EXCEPT ![r][c] = Part(r, c)]
    BY <2>3, <2>4
  <2> QED BY <1>1, <2>4, <2>5, <2>6, PartGot
<1> QED BY <1>3, <1>4

LEMMA GatherCountsGot ==
  ASSUME LocalInv, GotOK, NEW r \in Ranks, GatherCounts(r), Moves(r),
         NEW c \in 1 .. n_calls, c = call[r]
  PROVE  GotOK' /\ aborted' = aborted
<1>1. /\ r \in Active /\ phase[r] = "gather" /\ Goto(r, "deal") /\ got' = got
      /\ aborted' = aborted
  BY DEF GatherCounts, In, Free
<1>2. ~writing
  <2>1. Stage(r)
    BY DEF LocalInv
  <2> QED BY <1>1, <2>1 DEF Stage, StageIn
<1>3. call' = call /\ phase'[r] = "deal"
  BY <1>1 DEF Goto, LocalInv, RankTyped
<1> QED BY <1>1, <1>2, <1>3, SameGot

LEMMA DealGot ==
  ASSUME LocalInv, LayoutOK, FileOK, GotOK, NEW r \in Ranks, Deal(r), Moves(r),
         NEW c \in 1 .. n_calls, c = call[r]
  PROVE  GotOK' /\ aborted' = aborted
<1>1. r = 0 /\ r \in Active /\ phase[r] = "deal" /\ In(0, "block", "deal")
  BY DEF Deal, In, Free
<1>2. ~writing
  <2>1. Stage(r)
    BY DEF LocalInv
  <2> QED BY <1>1, <2>1 DEF Stage, StageIn
<1>3. CASE ser.dist_rank = n_ranks
  <2>1. Goto(r, "end") /\ got' = got /\ aborted' = aborted
    BY <1>3 DEF Deal
  <2>2. call' = call /\ phase'[r] = "end"
    BY <2>1 DEF Goto, LocalInv, RankTyped
  <2> QED BY <1>1, <1>2, <2>1, <2>2, SameGot
<1>4. CASE ser.dist_rank # n_ranks
  <2>1. ~Missing(pos[0], ser.count[ser.dist_rank])
    BY <1>1, <1>4, DealReads
  <2>2. call' = call /\ phase' = phase /\ got' = got /\ aborted' = aborted
    BY <1>1, <1>4, <2>1 DEF Deal
  <2> QED BY <1>1, <1>2, <2>2, SameGot
<1> QED BY <1>3, <1>4

LEMMA ReceiveGot ==
  ASSUME LocalInv, GotOK, MailOK, NEW r \in Ranks, Receive(r), Moves(r),
         NEW c \in 1 .. n_calls, c = call[r]
  PROVE  GotOK' /\ aborted' = aborted
<1>1. /\ r \in Active /\ Kind(c) = "block" /\ Goto(r, "end") /\ aborted' = aborted
      /\ got' = [got EXCEPT ![r][call[r]] = Head(mail[<<0, r>>])]
  BY DEF Receive, In, Free, Kind, Op
<1>2. Head(mail[<<0, r>>]) = BlockValues(c, r) /\ ~writing
  BY ReceiveMail
<1>3. got' = [got EXCEPT ![r][c] = Part(r, c)]
  BY <1>1, <1>2, PartIs
<1>4. call' = call /\ phase'[r] = "end"
  BY <1>1 DEF Goto, LocalInv, RankTyped
<1> QED BY <1>1, <1>2, <1>3, <1>4, PartGot

LEMMA AccessGot ==
  ASSUME LocalInv, LayoutOK, FileOK, GotOK, NEW r \in Ranks, Access(r), Moves(r),
         NEW c \in 1 .. n_calls, c = call[r]
  PROVE  GotOK' /\ aborted' = aborted
<1> DEFINE at == IF method = "serial" THEN pos[r] ELSE offset[r] + First(r) - 1
<1>1. /\ ~Serialized /\ r \in Active /\ phase[r] = "start" /\ Kind(c) = "block"
      /\ setup \in Setups /\ run \in {1, 2} /\ DOMAIN phase = Ranks
  BY DEF Access, In, Free, Kind, Op, LocalInv, RankTyped
<1>2. CASE writing
  BY <1>2, WritingGot DEF Access
<1>3. CASE ~writing
  <2>1. PICK first \in Nat \ {0}, n \in Nat, a \in Nat :
          /\ first = FirstIn(run, r, c) /\ first = Upto(c, r) + 1 /\ n = CountIn(run, r, c)
          /\ a = Place(c) + first - 1 /\ a = Place(c) + Upto(c, r)
          /\ Fills(c, r) = a .. a + n - 1 /\ BlockValues(c, r) = Values(c, first, n)
    BY <1>1, BlockPart
  <2>2. at = a
    <3>1. CASE method = "serial"
      <4>1. r = 0
        BY <1>1, <3>1, ConfigOK DEF Serialized, Active
      <4>2. Progress = 0
        BY <1>1, <4>1 DEF Progress
      <4>3. Upto(c, 0) = 0
        BY <1>1, BlockOK
      <4> QED BY <2>1, <3>1, <4>1, <4>2, <4>3 DEF LocalInv, PositionsOK
    <3>2. CASE method # "serial"
      <4>1. offset[r] = Place(c) /\ First(r) = first
        BY <1>1, <2>1 DEF LocalInv, PositionsOK, First
      <4> QED BY <2>1, <3>2, <4>1
    <3> QED BY <3>1, <3>2
  <2>3. Get(at, Count(r)) = Part(r, c) /\ ~Missing(at, Count(r))
    <3> HIDE DEF at
    <3> QED BY <1>1, <1>3, <2>1, <2>2, BlockReads
  <2>4. got' = [got EXCEPT ![r][call[r]] = Get(at, Count(r))] /\ Goto(r, "end") /\ aborted' = aborted
    BY <1>3, <2>3 DEF Access
  <2> HIDE DEF at
  <2>5. call' = call /\ phase'[r] = "end"
    BY <1>1, <2>4 DEF Goto
  <2>6. got' = [got EXCEPT ![r][c] = Part(r, c)]
    BY <2>3, <2>4
  <2> QED BY <1>1, <1>3, <2>4, <2>5, <2>6, PartGot
<1> QED BY <1>2, <1>3

LEMMA EndBlockGot ==
  ASSUME LocalInv, GotOK, NEW r \in Ranks, EndBlock(r), Moves(r),
         NEW c \in 1 .. n_calls, c = call[r]
  PROVE  GotOK' /\ aborted' = aborted
<1>1. /\ r \in Active /\ phase[r] = "end" /\ Return(r) /\ got' = got /\ aborted' = aborted
  BY DEF EndBlock, In, Free
<1>2. call'[r] = call[r] + 1 /\ phase'[r] = "start"
  BY <1>1 DEF Return, LocalInv, RankTyped
<1> QED BY <1>1, <1>2, SameGot, WritingGot

\* The writing run reads nothing, and its synchronizations agree.
LEMMA WritingOnly ==
  ASSUME LocalInv, GotOK, MailOK, NEW r \in Ranks, Moves(r),
         \/ WriteGlobal(r) \/ InitSerializer(r) \/ OwnBlock(r) \/ Request(r) \/ Serve(r)
         \/ Collect(r) \/ Scatter(r)
  PROVE  GotOK' /\ aborted' = aborted
<1>1. ASSUME NEW ph, In(r, "block", ph), ph \in {"advance", "await", "scatter", "sync"}
      PROVE  writing
  <2>1. Stage(r)
    BY DEF LocalInv
  <2> QED BY <1>1, <2>1 DEF Stage, StageIn, In
<1>2. ASSUME WriteGlobal(r) PROVE writing /\ got' = got /\ aborted' = aborted
  BY <1>2 DEF WriteGlobal
<1>3. ASSUME InitSerializer(r) PROVE writing /\ got' = got /\ aborted' = aborted
  BY <1>3 DEF InitSerializer, Deposit
<1>4. ASSUME OwnBlock(r) PROVE writing /\ got' = got /\ aborted' = aborted
  BY <1>1, <1>4 DEF OwnBlock
<1>5. ASSUME Request(r) PROVE writing /\ got' = got /\ aborted' = aborted
  BY <1>1, <1>5 DEF Request
<1>6. ASSUME Serve(r) PROVE writing /\ got' = got /\ aborted' = aborted
  <2>1. Head(mail[<<0, r>>]) = <<First(r), First(r) + Count(r)>> /\ writing
    BY <1>6, ServeAgrees
  <2> QED BY <1>6, <2>1 DEF Serve
<1>7. ASSUME Collect(r) PROVE writing /\ got' = got /\ aborted' = aborted
  BY <1>1, <1>7 DEF Collect
<1>8. ASSUME Scatter(r) PROVE writing /\ got' = got /\ aborted' = aborted
  BY <1>1, <1>8 DEF Scatter
<1>9. writing /\ got' = got /\ aborted' = aborted
  BY <1>2, <1>3, <1>4, <1>5, <1>6, <1>7, <1>8
<1> QED BY <1>9, WritingGot

-----------------------------------------------------------------------------
(***************************************************************************)
(* The invariant as a whole: where the ranks are and what is between them, *)
(* the file, the messages, and what was read; no call was an error.        *)
(***************************************************************************)
Inv == LocalInv /\ LayoutOK /\ FileOK /\ MailOK /\ GotOK /\ aborted = FALSE

LEMMA LayoutKept ==
  ASSUME LayoutOK, UNCHANGED <<setup, layout>>
  PROVE  LayoutOK'
<1>1. \A r, c : FirstIn(1, r, c)' = FirstIn(1, r, c) /\ CountIn(1, r, c)' = CountIn(1, r, c)
  BY DEF FirstIn, CountIn, Start, End, Step
<1>2. ASSUME NEW s PROVE Layout(s)' = Layout(s)
  <2> DEFINE calls == s.calls  n == Len(calls)
             chosen == CHOOSE Places : Places =
                         [c \in 1 .. Len(calls) + 1 |->
                            IF c = 1 THEN 0
                            ELSE LET before == Places[c - 1]
                                 IN  before + Length(calls[c - 1], before)]
             E(c) == chosen[c] .. chosen[c + 1] - 1
             Of(c, r) == {chosen[c] + FirstIn(1, r, c) + i - 2 : i \in 1 .. CountIn(1, r, c)}
             P(c) == IF calls[c].op # "block" THEN {E(c)}
                     ELSE {Of(c, r) : r \in 0 .. s.n_ranks[1] - 1}
             Chosen(p) == CHOOSE c \in 1 .. n : p \in E(c)
             places == [c \in 1 .. n + 1 |-> chosen[c]]
             contents == [p \in 0 .. chosen[n + 1] - 1 |->
                            <<Chosen(p), p - chosen[Chosen(p)] + 1>>]
             blocks == (UNION {P(c) : c \in 1 .. n}) \ {{}}
  <2>1. Layout(s) = [places |-> places, blocks |-> blocks, contents |-> contents]
    BY DEF Layout, Length
  <2>2. Layout(s)' = [places |-> places, blocks |-> blocks', contents |-> contents]
    BY DEF Layout, Length
  <2>3. ASSUME NEW c PROVE P(c)' = P(c)
    <3>1. ASSUME NEW r PROVE Of(c, r)' = Of(c, r)
      <4>1. PICK first, count : first = FirstIn(1, r, c) /\ count = CountIn(1, r, c)
        OBVIOUS
      <4>2. first = FirstIn(1, r, c)' /\ count = CountIn(1, r, c)'
        BY <1>1, <4>1
      <4> QED BY <4>1, <4>2
    <3> HIDE DEF Of
    <3> QED BY <3>1
  <2>4. blocks' = blocks
    <3> HIDE DEF P
    <3>1. {P(c) : c \in 1 .. n}' = {P(c) : c \in 1 .. n}
      BY <2>3
    <3> QED BY <3>1
  <2> HIDE DEF places, contents, blocks
  <2> QED BY <2>1, <2>2, <2>4
<1>3. PICK s : s = setup
  OBVIOUS
<1>4. s = setup' /\ layout = Layout(s)
  BY <1>3 DEF LayoutOK
<1> QED BY <1>2, <1>3, <1>4 DEF LayoutOK

LEMMA AdvanceWrote ==
  ASSUME LocalInv, LayoutOK, FileOK, MailOK, NEW r \in Ranks, Advance(r), Moves(r),
         NEW c \in 1 .. n_calls, c = call[r]
  PROVE  Wrote
<1>1. ASSUME Collect(r) PROVE Wrote
  <2>1. Head(mail[<<ser.next_rank_id, 0>>]) = BlockValues(c, ser.next_rank_id)
    BY <1>1, CollectMail
  <2> QED BY <1>1, <2>1, CollectWrote
<1> QED BY <1>1, TellWrote, InitSerializerWrote, RequestWrote, ServeWrote, ScatterWrote,
           EndBlockWrote, ReadingWrote, WriteGlobalWrote, AccessWrote, OwnBlockWrote DEF Advance

LEMMA AdvanceMail ==
  ASSUME LocalInv, LayoutOK, FileOK, MailOK, NEW r \in Ranks, Advance(r), Moves(r),
         NEW c \in 1 .. n_calls, c = call[r]
  PROVE  MailOK'
BY OtherMail, RequestMail, ServeMail, CollectMail, DealMail, ReceiveMail DEF Advance

LEMMA AdvanceGot ==
  ASSUME LocalInv, LayoutOK, FileOK, MailOK, GotOK, NEW r \in Ranks, Advance(r), Moves(r),
         NEW c \in 1 .. n_calls, c = call[r]
  PROVE  GotOK' /\ aborted' = aborted
BY TellGot, SeekGot, ReadGlobalGot, ReadOwnGot, GatherCountsGot, DealGot, ReceiveGot, AccessGot,
   EndBlockGot, WritingOnly DEF Advance

LEMMA AdvanceKeeps ==
  ASSUME Inv, NEW r \in Ranks, Advance(r)
  PROVE  Inv' /\ [Promise!Write]_(Promise!vars)
<1>1. LocalInv /\ LayoutOK /\ FileOK /\ MailOK /\ GotOK /\ ~aborted
  BY DEF Inv
<1>2. Moves(r)
  BY <1>1, OneMoves
<1>3. PICK c \in 1 .. n_calls : c = call[r]
  <2>1. Free(r)
    BY DEF Advance, Tell, Seek, WriteGlobal, ReadGlobal, InitSerializer, OwnBlock, Request,
           Serve, Collect, Scatter, ReadOwn, GatherCounts, Deal, Receive, Access, EndBlock, In
  <2>2. call[r] \in 1 .. n_calls + 1 /\ n_calls \in Nat
    BY <1>1, ConfigOK DEF LocalInv, RankTyped
  <2>3. call[r] \in 1 .. n_calls
    BY <2>1, <2>2 DEF Free
  <2> QED BY <2>3
<1>4. LocalInv'
  <2>1. [Next]_vars
    BY DEF Next
  <2>2. ReadGlobal(0) => Get(offset[0], Op(0).n) = Values(call[0], 1, Op(0).n)
    BY <1>1, ReadGlobalGets
  <2> QED BY <1>1, <2>1, <2>2, NextLocal
<1>5. LayoutOK'
  BY <1>1, <1>2, LayoutKept DEF Moves
<1>6. Wrote
  BY <1>1, <1>2, <1>3, AdvanceWrote
<1>7. MailOK'
  BY <1>1, <1>2, <1>3, AdvanceMail
<1>8. GotOK' /\ aborted' = aborted
  BY <1>1, <1>2, <1>3, AdvanceGot
<1> QED BY <1>1, <1>4, <1>5, <1>6, <1>7, <1>8 DEF Inv, Wrote

LEMMA ActiveRanksOK == LocalInv => Active \subseteq Ranks
BY ConfigOK DEF LocalInv, RankTyped

LEMMA ActiveNext == LocalInv' => (Active \subseteq Ranks)'
BY ActiveRanksOK, PTL

\* All ranks are back from the last call of the writing run.
LEMMA ReopenInv ==
  ASSUME Inv, Reopen
  PROVE  Inv' /\ [Promise!Write]_(Promise!vars)
<1>1. LocalInv /\ LayoutOK /\ FileOK /\ MailOK /\ GotOK /\ ~aborted
  BY DEF Inv
<1>2. /\ writing /\ AllReturned /\ run' = 2 /\ ~writing' /\ call' = [r \in Ranks |-> 1]
      /\ UNCHANGED <<setup, layout, phase, mail, got, aborted>> /\ n_calls' = n_calls
  BY DEF Reopen, writing, n_calls
<1>3. LocalInv' /\ Wrote /\ LayoutOK'
  BY <1>1, <1>2, ReopenKeeps, ReopenWrote, LayoutKept
<1>4. \A r \in Ranks : phase[r] = "start"
  <2> SUFFICES ASSUME NEW r \in Ranks PROVE phase[r] = "start"
    OBVIOUS
  <2>1. Stage(r) /\ n_calls \in Nat
    BY <1>1, ConfigOK DEF LocalInv, RankTyped
  <2>2. r \in Active => call[r] = n_calls + 1
    BY <1>2 DEF AllReturned
  <2> QED BY <2>1, <2>2 DEF Stage
<1>5. 0 \in Ranks /\ Active' \subseteq Ranks /\ n_calls \in Nat
  <2>1. 0 \in Ranks /\ n_calls \in Nat
    BY <1>1, ConfigOK DEF LocalInv, RankTyped
  <2> QED BY <1>3, <2>1, ActiveNext
<1>6. MailOK'
  <2>1. \A q \in Ranks : mail[<<0, q>>] = <<>> /\ mail[<<q, 0>>] = <<>>
    BY <1>1, <1>2, <1>4, <1>5 DEF MailOK, MailWritten, Asked
  <2>2. ASSUME NEW q \in Ranks, NEW c \in 1 .. n_calls PROVE ~Past(q, c)'
    BY <1>2, <1>4 DEF Past
  <2>3. MailWritten' /\ MailRead'
    BY <1>2, <2>1 DEF MailWritten, MailRead
  <2>4. DealOK'
    BY <1>2, <1>5, <2>2 DEF DealOK
  <2> QED BY <2>3, <2>4 DEF MailOK
<1>7. GotOK'
  <2>1. ASSUME NEW q \in Ranks, NEW c \in 1 .. n_calls
        PROVE  Value(q, c)' = <<>> /\ Value(q, c) = <<>>
    BY <1>2, <1>4 DEF Value, Has
  <2>2. got = [q \in Ranks |-> [c \in 1 .. n_calls |-> Value(q, c)]]
    BY <1>1 DEF GotOK
  <2>3. ASSUME NEW q \in Ranks PROVE got'[q] = [c \in 1 .. n_calls' |-> Value(q, c)']
    BY <1>2, <2>1, <2>2
  <2>4. got' = [q \in Ranks |-> got'[q]]
    BY <1>2, <2>2
  <2>5. got' = [q \in Ranks |-> [c \in 1 .. n_calls' |-> Value(q, c)']]
    BY <2>3, <2>4
  <2> QED BY <2>5 DEF GotOK
<1> QED BY <1>1, <1>2, <1>3, <1>6, <1>7 DEF Inv, Wrote

LEMMA InitInv == Init => Inv /\ Promise!Init
<1> SUFFICES ASSUME Init PROVE Inv /\ Promise!Init
  OBVIOUS
<1>1. LocalInv /\ LayoutOK /\ ~aborted /\ Promise!Init
  BY InitLocal DEF Init, LayoutOK, Promise!Init
<1>2. /\ writing /\ call = [r \in Ranks |-> 1] /\ (\A r \in Ranks : phase[r] = "start")
      /\ 0 \in Ranks /\ Active \subseteq Ranks
  BY <1>1, ConfigOK DEF Init, writing, LocalInv, RankTyped
<1>3. FileOK
  <2>1. ASSUME NEW c \in 1 .. n_calls, NEW k \in Active PROVE ~Done(c, k)
    <3>1. PICK w \in Ranks : w = Writer(k)
      BY <1>2 DEF Writer
    <3>2. call[w] = 1 /\ phase[w] = "start"
      BY <1>2
    <3> QED BY <3>1, <3>2 DEF Done
  <2>2. Filled = {}
    BY <2>1 DEF Filled
  <2>3. file = <<>>
    BY DEF Init
  <2> QED BY <1>2, <2>2, <2>3 DEF FileOK
<1>4. MailOK
  <2>1. \A p, q \in Ranks : mail[<<p, q>>] = <<>>
    BY DEF Init, NoMessage
  <2> QED BY <1>2, <2>1 DEF MailOK, MailWritten, MailRead, DealOK
<1>5. GotOK
  <2>1. \A q, c : Value(q, c) = <<>>
    BY <1>2 DEF Value, Has
  <2> QED BY <2>1 DEF Init, GotOK, n_calls
<1> QED BY <1>1, <1>3, <1>4, <1>5 DEF Inv

LEMMA StutterInv ==
  ASSUME Inv, UNCHANGED vars
  PROVE  Inv' /\ [Promise!Write]_(Promise!vars)
<1>1. UNCHANGED <<setup, layout, run, call, phase, ser, mail, got, aborted, file>>
  BY DEF vars
<1>2. LocalInv'
  BY NothingMoves DEF Inv, vars
<1>3. FileOK' /\ UNCHANGED Promise!vars
  <2>1. \A c, k : Done(c, k)' <=> Done(c, k)
    BY <1>1, FillsFrame DEF Done
  <2> QED BY <1>1, <2>1, FileKept DEF Inv
<1>4. MailOK'
  BY <1>1, StillMail DEF Inv
<1>5. GotOK' /\ LayoutOK' /\ ~aborted'
  <2>1. \A q, c : Value(q, c)' = Value(q, c)
    BY <1>1, Frame, PartFrame DEF Value, Has
  <2>2. n_calls' = n_calls
    BY <1>1 DEF n_calls
  <2> QED BY <1>1, <2>1, <2>2, LayoutKept DEF Inv, GotOK
<1> QED BY <1>2, <1>3, <1>4, <1>5 DEF Inv

LEMMA NextInv ==
  ASSUME Inv, [Next]_vars
  PROVE  Inv' /\ [Promise!Write]_(Promise!vars)
BY AdvanceKeeps, ReopenInv, StutterInv DEF Next

LEMMA InvAlways == Spec => []Inv
BY InitInv, NextInv, PTL DEF Spec

-----------------------------------------------------------------------------
(***************************************************************************)
(* Types: what is in the file, and the ranks of the serializer.            *)
(***************************************************************************)
SerTyped ==
  /\ DOMAIN ser.count \subseteq Ranks /\ ser.next_rank_id \in 0 .. Cardinality(Ranks)
  /\ ser.dist_rank \in 0 .. Cardinality(Ranks) /\ ser.next_g_num \in Nat

LEMMA EnoughRanks ==
  ASSUME setup \in Setups, run \in {1, 2}
  PROVE  /\ n_ranks \in Nat /\ Cardinality(Ranks) \in Nat /\ n_ranks <= Cardinality(Ranks)
         /\ \A k \in 0 .. n_ranks : k \in 0 .. Cardinality(Ranks)
<1>1. n_ranks \in Nat \ {0} /\ Active \subseteq Ranks /\ IsFiniteSet(Ranks)
  BY ConfigOK, RanksAssumption
<1>2. Cardinality(Active) <= Cardinality(Ranks) /\ Cardinality(Ranks) \in Nat
  BY <1>1, FS_Subset, FS_CardinalityType
<1>3. Cardinality(Active) = n_ranks
  <2>1. 0 \in Int /\ n_ranks - 1 \in Int /\ ~(0 > n_ranks - 1)
    BY <1>1
  <2>2. Cardinality(0 .. n_ranks - 1) = (n_ranks - 1) - 0 + 1
    BY <2>1, FS_Interval
  <2> QED BY <1>1, <2>2 DEF Active
<1> QED BY <1>1, <1>2, <1>3

LEMMA MovedSer ==
  ASSUME LocalInv, SerTyped, NEW ph \in {"advance", "await"}, In(0, "block", ph),
         ser.next_rank_id \in 0 .. n_ranks - 1, NEW buf, Moved(buf), UNCHANGED <<setup, layout, run>>
  PROVE  SerTyped'
<1>1. /\ 0 \in Ranks /\ setup \in Setups /\ run \in {1, 2} /\ DOMAIN ser = SerializerFields
      /\ phase[0] = ph
  BY ConfigOK DEF LocalInv, RankTyped, SerializerOK, In
<1>2. PICK c \in 1 .. n_calls : c = call[0] /\ Kind(c) = "block"
  BY <1>1, InCall
<1>3. PICK k \in 0 .. n_ranks - 1 : k = ser.next_rank_id
  OBVIOUS
<1>4. ser.count = Counts(c)
  BY <1>1, <1>2 DEF LocalInv, SerializerOK
<1>5. ser.count[k] \in Nat
  <2>1. k \in Active /\ CountIn(run, k, c) \in Nat
    BY <1>1, <1>2, BlockOK DEF Active
  <2> QED BY <1>4, <2>1 DEF Counts
<1>6. PICK next \in 0 .. n_ranks : next = NextRank(k)
  <2>1. NextRank(k) \in k + 1 .. n_ranks
    BY <1>1, <1>2, <1>4, NextRankOK
  <2>2. n_ranks \in Nat
    BY <1>1, EnoughRanks
  <2> QED BY <2>1, <2>2
<1>7. next \in 0 .. Cardinality(Ranks)
  BY <1>1, EnoughRanks
<1>8. ser' = [ser EXCEPT !.next_rank_id = next, !.next_g_num = @ + ser.count[k],
                         !.dist_rank = IF ser.count[k] = 0 THEN @ ELSE next]
  BY <1>3, <1>6 DEF Moved
<1>9. /\ ser'.count = ser.count /\ ser'.next_rank_id = next
      /\ ser'.next_g_num = ser.next_g_num + ser.count[k]
      /\ ser'.dist_rank \in {ser.dist_rank, next}
  BY <1>1, <1>8 DEF SerializerFields
<1>10. ser'.next_g_num \in Nat
  BY <1>5, <1>9 DEF SerTyped
<1> QED BY <1>7, <1>9, <1>10 DEF SerTyped

LEMMA AdvanceSer ==
  ASSUME Inv, SerTyped, NEW r \in Ranks, Advance(r)
  PROVE  SerTyped'
<1>1. /\ LocalInv /\ LayoutOK /\ FileOK /\ 0 \in Active /\ 0 \in Ranks /\ Active \subseteq Ranks
      /\ setup \in Setups /\ run \in {1, 2} /\ DOMAIN ser = SerializerFields
  BY ConfigOK DEF Inv, LocalInv, RankTyped, SerializerOK
<1>2. Moves(r)
  BY <1>1, OneMoves
<1>3. ser' = ser => SerTyped'
  BY DEF SerTyped
<1>4. CASE r # 0
  BY <1>2, <1>3, <1>4 DEF Moves
<1>5. CASE r = 0
  <2>1. DOMAIN Gathered = Active
    BY DEF Gathered
  <2>2. ASSUME InitSerializer(0) PROVE SerTyped'
    <3>1. /\ ser' = [count |-> Gathered, next_rank_id |-> 0, next_g_num |-> First(0),
                     dist_rank |-> 0]
          /\ In(0, "block", "start")
      BY <2>2 DEF InitSerializer
    <3>2. PICK c \in 1 .. n_calls : c = call[0] /\ Kind(c) = "block"
      BY <1>1, <3>1, InCall
    <3>3. First(0) \in Nat
      <4>1. FirstIn(run, 0, c) = Upto(c, 0) + 1 /\ Upto(c, 0) = 0
        BY <1>1, <3>2, BlockOK
      <4> QED BY <3>2, <4>1 DEF First
    <3>4. 0 \in 0 .. Cardinality(Ranks)
      BY <1>1, EnoughRanks
    <3> QED BY <1>1, <2>1, <3>1, <3>3, <3>4 DEF SerTyped
  <2>3. ASSUME OwnBlock(0) PROVE SerTyped'
    <3>1. In(0, "block", "advance") /\ ser.next_rank_id = 0 /\ Moved(Block(0))
      BY <2>3 DEF OwnBlock
    <3>2. ser.next_rank_id \in 0 .. n_ranks - 1
      BY <1>1, <3>1 DEF Active
    <3> QED BY <1>1, <1>2, <3>1, <3>2, MovedSer DEF Moves
  <2>4. ASSUME Collect(0) PROVE SerTyped'
    <3>1. In(0, "block", "await") /\ Moved(Head(mail[<<ser.next_rank_id, 0>>]))
      BY <2>4 DEF Collect
    <3>2. ser.next_rank_id \in 1 .. n_ranks - 1
      BY <1>1, <3>1 DEF In, LocalInv, SerializerOK
    <3>3. ser.next_rank_id \in 0 .. n_ranks - 1
      BY <1>1, <3>2, EnoughRanks
    <3> QED BY <1>1, <1>2, <3>1, <3>3, MovedSer DEF Moves
  <2>5. ASSUME GatherCounts(0) PROVE SerTyped'
    <3>1. ser' = [ser EXCEPT !.count = Gathered, !.dist_rank = 1]
      BY <2>5 DEF GatherCounts
    <3>2. /\ ser'.count = Gathered /\ ser'.dist_rank = 1
          /\ ser'.next_rank_id = ser.next_rank_id /\ ser'.next_g_num = ser.next_g_num
      BY <1>1, <3>1 DEF SerializerFields
    <3>3. 1 \in 0 .. Cardinality(Ranks)
      <4>1. 1 \in 0 .. n_ranks
        BY <1>1, ConfigOK
      <4> QED BY <1>1, <4>1, EnoughRanks
    <3> QED BY <1>1, <2>1, <3>2, <3>3 DEF SerTyped
  <2>6. ASSUME Deal(0) PROVE SerTyped'
    <3>1. ser' = ser \/ (ser.dist_rank # n_ranks /\ ser' = [ser EXCEPT !.dist_rank = @ + 1])
      BY <2>6 DEF Deal, Abort
    <3>2. CASE ser.dist_rank # n_ranks /\ ser' = [ser EXCEPT !.dist_rank = @ + 1]
      <4>1. In(0, "block", "deal")
        BY <2>6 DEF Deal
      <4>2. PICK c \in 1 .. n_calls : c = call[0]
        BY <1>1, <4>1, InCall
      <4>3. PICK q \in Active \ {0} : q = ser.dist_rank
        BY <1>1, <3>2, <4>1, <4>2, DealReads
      <4>4. q + 1 \in 0 .. Cardinality(Ranks)
        <5>1. q + 1 \in 0 .. n_ranks
          BY <1>1, EnoughRanks DEF Active
        <5> QED BY <1>1, <5>1, EnoughRanks
      <4>5. /\ ser'.count = ser.count /\ ser'.dist_rank = q + 1
            /\ ser'.next_rank_id = ser.next_rank_id /\ ser'.next_g_num = ser.next_g_num
        BY <1>1, <3>2, <4>3 DEF SerializerFields
      <4> QED BY <4>4, <4>5 DEF SerTyped
    <3> QED BY <1>3, <3>1, <3>2
  <2>7. ASSUME ~InitSerializer(0), ~OwnBlock(0), ~Collect(0), ~GatherCounts(0), ~Deal(0)
        PROVE  ser' = ser
    BY <1>5, <2>7 DEF Advance, Abort, Tell, Seek, WriteGlobal, ReadGlobal, Request, Serve, Scatter,
           ReadOwn, Deposit, Receive, Access, EndBlock
  <2> QED BY <1>3, <2>2, <2>3, <2>4, <2>5, <2>6, <2>7
<1> QED BY <1>4, <1>5

LEMMA SerTypedAlways == Spec => [](Inv /\ SerTyped)
<1>1. Init => Inv /\ SerTyped
  <2> SUFFICES ASSUME Init PROVE Inv /\ SerTyped
    OBVIOUS
  <2>1. Inv
    BY InitInv
  <2>2. 0 \in 0 .. Cardinality(Ranks)
    BY <2>1, EnoughRanks DEF Inv, LocalInv, RankTyped
  <2>3. /\ ser.count = <<>> /\ ser.next_rank_id = 0 /\ ser.next_g_num = 1 /\ ser.dist_rank = 0
    BY DEF Init
  <2>4. DOMAIN ser.count \subseteq Ranks
    BY <2>3
  <2> QED BY <2>1, <2>2, <2>3, <2>4 DEF SerTyped
<1>2. Inv /\ SerTyped /\ [Next]_vars => (Inv /\ SerTyped)'
  <2> SUFFICES ASSUME Inv, SerTyped, [Next]_vars PROVE SerTyped'
    BY NextInv
  <2>1. CASE UNCHANGED vars
    BY <2>1 DEF SerTyped, vars
  <2>2. CASE Reopen
    BY <2>2 DEF SerTyped, Reopen
  <2> QED BY <2>1, <2>2, AdvanceSer DEF Next
<1> QED BY <1>1, <1>2, PTL DEF Spec

-----------------------------------------------------------------------------
\* The offsets of the ranks agree with the place of their calls in the file, and the stream
\* of rank 0 with its offset, for every setup (cs_file_write_block_buffer, cs_file_seek and
\* cs_file_tell of cs_file.c).
THEOREM OffsetsAlwaysAgree == Spec => []OffsetsAgree
<1>1. Inv => OffsetsAgree
  <2> SUFFICES ASSUME LocalInv, NEW r \in Active
               PROVE  /\ phase[r] = "start" => offset[r] = layout.places[call[r]]
                      /\ phase[r] = "pad" => told[r] = layout.places[call[r]]
                      /\ r = 0 /\ phase[r] = "start" /\ method = "serial" => pos[r] = offset[r]
    BY DEF OffsetsAgree, Inv
  <2>1. /\ offset[r] = Place(call[r]) /\ (phase[r] = "pad" => told[r] = Place(call[r]))
        /\ r \in Ranks /\ offset[r] \in Nat
    BY ConfigOK DEF LocalInv, PositionsOK, RankTyped
  <2>2. r = 0 /\ phase[r] = "start" => Progress = 0
    BY DEF Progress
  <2> QED BY <2>1, <2>2 DEF LocalInv, PositionsOK, Place
<1> QED BY <1>1, InvAlways, PTL

\* Whatever the method and the order in which the ranks get there, each step leaves the
\* file alone or writes one block, which no step had written, entirely and at its place
\* (_file_write_block_s, _file_write_block_p and cs_file_write_global of cs_file.c).
THEOREM BlocksWrittenOnce == Spec => RefinesPlacedBlocks
<1>1. Init => Inv /\ Promise!Init
  BY InitInv
<1>2. Inv /\ [Next]_vars => Inv' /\ [Promise!Write]_(Promise!vars)
  BY NextInv
<1> QED BY <1>1, <1>2, PTL DEF Spec, RefinesPlacedBlocks, Promise!Spec

\* No call is an error: the synchronizations of the serializer agree, and no rank reads past
\* the end of the file; and a rank that is back from a call of the reading run has the part
\* that it asked for, whatever the ranks and the method of the run that wrote it
\* (cs_file_read_global, cs_file_read_block and cs_file_serializer_advance of cs_file.c).
THEOREM PartsAlwaysRead == Spec => []ReadsParts
<1>1. Inv => ReadsParts
  <2> SUFFICES ASSUME Inv PROVE ReadsParts
    OBVIOUS
  <2>1. ~aborted /\ Active \subseteq Ranks /\ n_calls \in Nat
    BY ConfigOK DEF Inv, LocalInv, RankTyped
  <2>2. ASSUME ~writing, NEW r \in Active, NEW c \in 1 .. call[r] - 1 PROVE got[r][c] = Part(r, c)
    <3>1. call[r] \in 1 .. n_calls + 1
      BY <2>1 DEF Inv, LocalInv, RankTyped
    <3>2. c \in 1 .. n_calls /\ c < call[r]
      BY <2>1, <3>1
    <3>3. Value(r, c) = Part(r, c)
      BY <2>2, <3>2 DEF Value, Has
    <3>4. got[r][c] = Value(r, c)
      BY <2>1, <3>2 DEF Inv, GotOK
    <3> QED BY <3>3, <3>4
  <2> QED BY <2>1, <2>2 DEF ReadsParts
<1> QED BY <1>1, InvAlways, PTL

\* The type invariant: what is in the file is a value of a call, the serializer names ranks,
\* and each variable is a function of what it is indexed by (cs_file_t and
\* cs_file_serializer_t of cs_file.c).
THEOREM FilesTyped == Spec => []TypeOK
<1>1. Inv /\ SerTyped => TypeOK
  <2> SUFFICES ASSUME Inv, SerTyped PROVE TypeOK
    OBVIOUS
  <2>1. /\ LocalInv /\ LayoutOK /\ FileOK /\ GotOK /\ aborted = FALSE
        /\ setup \in Setups /\ run \in {1, 2} /\ Described /\ n_calls \in Nat
    BY ConfigOK DEF Inv, LocalInv, RankTyped
  <2>2. ASSUME NEW p \in DOMAIN file PROVE p \in Nat /\ file[p] \in (1 .. n_calls) \X Nat
    <3>1. layout.contents = [x \in 0 .. Place(n_calls + 1) - 1 |-> layout.contents[x]]
      BY <2>1, LayoutParts
    <3>2. p \in 0 .. Place(n_calls + 1) - 1 /\ file[p] = layout.contents[p]
      <4>1. Filled \subseteq 0 .. Place(n_calls + 1) - 1
        BY <2>1, FilledType
      <4> QED BY <2>1, <3>1, <4>1 DEF FileOK
    <3>3. PICK c \in 1 .. n_calls : \E k \in Active : p \in Fills(c, k)
      BY <2>1, <3>2, FillsAll
    <3>4. p \in Extent(c) /\ file[p] = <<c, p - Place(c) + 1>>
      BY <2>1, <3>2, <3>3, FillsInside
    <3>5. Place(c) \in Nat
      <4>1. c \in 1 .. n_calls + 1
        BY <2>1
      <4> QED BY <2>1, <4>1, PlacesGrow
    <3>6. p \in Nat /\ p - Place(c) + 1 \in Nat
      BY <3>4, <3>5 DEF Extent
    <3> QED BY <3>4, <3>6
  <2>3. ASSUME NEW r \in Ranks
        PROVE  /\ call[r] \in 1 .. n_calls + 1
               /\ phase[r] \in {"start", "pad", "sync", "scatter", "advance", "await",
                                "receive", "gather", "deal", "end"}
               /\ offset[r] \in Nat /\ told[r] \in Nat /\ pos[r] \in Nat \cup {-1}
               /\ DOMAIN got[r] = 1 .. n_calls
    <3>1. Stage(r)
      BY <2>1 DEF LocalInv
    <3>2. phase[r] \in {"start", "pad", "sync", "scatter", "advance", "await",
                        "receive", "gather", "deal", "end"}
      BY <3>1 DEF Stage, StageIn
    <3>3. DOMAIN got[r] = 1 .. n_calls
      BY <2>1 DEF GotOK
    <3> QED BY <2>1, <3>2, <3>3 DEF LocalInv, RankTyped
  <2>4. DOMAIN mail = Ranks \X Ranks /\ DOMAIN coll = Ranks \X Ranks /\ run \in 1 .. 2
    BY <2>1 DEF LocalInv, RankTyped
  <2> QED BY <2>1, <2>2, <2>3, <2>4 DEF TypeOK, SerTyped
<1> QED BY <1>1, SerTypedAlways, PTL
===============================================================================
