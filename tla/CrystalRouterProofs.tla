-------------------------- MODULE CrystalRouterProofs --------------------------
(***************************************************************************)
(* Theorems about the crystal router, for any number of ranks, any global  *)
(* numbers and blocks, and any interleaving: groups and partners, room in  *)
(* the buffers, the exchange that it implements, and its agreement with    *)
(* the default algorithm.                                                  *)
(***************************************************************************)
EXTENDS CrystalRouter, FiniteSetTheorems, SequenceTheorems, WellFoundedInduction, TLAPS

\* Setups have at least two ranks.
LEMMA SizeType ==
  ASSUME setup \in Setups
  PROVE  N \in Nat /\ N > 1
  BY SetupAssumption DEF N

\* What a half of a group is made of: rank r is in it, and it lies within the group.
LEMMA HalfOK ==
  ASSUME NEW r \in Ranks, N \in Nat, GroupsOK
  PROVE  /\ NextLow(r) \in Nat /\ NextSize(r) \in Nat
         /\ NextLow(r) <= r /\ r < NextLow(r) + NextSize(r)
         /\ NextLow(r) + NextSize(r) <= N
<1> DEFINE n == n_sub[r]  h == n \div 2  b == b_low[r]
<1>1. n \in Nat /\ b \in Nat /\ b <= r /\ r < b + n /\ b + n <= N /\ r \in Int
  BY DEF GroupsOK, Ranks
<1>2. h \in Nat /\ h <= n
  BY <1>1
<1> HIDE DEF h
<1>3. CASE IsLow(r)
  <2>1. r < b + h
    BY <1>3 DEF IsLow, b_high, n_low, h
  <2>2. NextLow(r) = b /\ NextSize(r) = h
    BY <1>3 DEF NextLow, NextSize, n_low, h
  <2> QED BY <1>1, <1>2, <2>1, <2>2
<1>4. CASE ~IsLow(r)
  <2>1. r >= b + h
    BY <1>1, <1>2, <1>4 DEF IsLow, b_high, n_low, h
  <2>2. NextLow(r) = b + h /\ NextSize(r) = n - h
    BY <1>4 DEF NextLow, NextSize, b_high, n_low, h
  <2> QED BY <1>1, <1>2, <2>1, <2>2
<1> QED BY <1>3, <1>4

\* Initially the group of every rank is the whole communicator.
LEMMA InitGroups == Init => setup \in Setups /\ GroupsOK
<1> SUFFICES ASSUME Init PROVE setup \in Setups /\ GroupsOK
  OBVIOUS
<1>1. setup \in Setups /\ b_low = [r \in Ranks |-> 0] /\ n_sub = [r \in Ranks |-> N]
  BY DEF Init
<1>2. N \in Nat /\ N > 1
  BY <1>1, SizeType
<1> QED BY <1>1, <1>2 DEF GroupsOK, Ranks

\* A rank enters an exchange with the whole communicator, and ends a stage in its half;
\* nothing else changes its group.
LEMMA NextGroups ==
  ASSUME setup \in Setups, GroupsOK, [Next]_vars
  PROVE  (setup \in Setups)' /\ GroupsOK'
<1>1. N \in Nat /\ N > 1
  BY SizeType
<1>2. setup' = setup
  BY DEF Next, Step, vars, Enter, Partition, Receive, SendData, EndStage, Edit, Sort
<1>3. N' = N /\ Ranks' = Ranks
  BY <1>2 DEF N, Ranks
<1>4. CASE UNCHANGED group
  BY <1>2, <1>3, <1>4 DEF group, GroupsOK
<1>5. ASSUME NEW r \in Ranks, Enter(r) PROVE GroupsOK'
  <2>1. b_low' = [b_low EXCEPT ![r] = 0] /\ n_sub' = [n_sub EXCEPT ![r] = N]
    BY <1>5 DEF Enter
  <2>2. b_low' \in [Ranks -> Nat] /\ n_sub' \in [Ranks -> Nat]
    BY <1>1, <2>1 DEF GroupsOK
  <2>3. ASSUME NEW q \in Ranks
        PROVE  b_low'[q] <= q /\ q < b_low'[q] + n_sub'[q] /\ b_low'[q] + n_sub'[q] <= N
    <3>1. CASE q = r
      BY <1>1, <2>1, <3>1 DEF GroupsOK, Ranks
    <3>2. CASE q # r
      BY <2>1, <3>2 DEF GroupsOK
    <3> QED BY <3>1, <3>2
  <2> QED BY <1>3, <2>2, <2>3 DEF GroupsOK
<1>6. ASSUME NEW r \in Ranks, EndStage(r) PROVE GroupsOK'
  <2>1. b_low' = [b_low EXCEPT ![r] = NextLow(r)] /\ n_sub' = [n_sub EXCEPT ![r] = NextSize(r)]
    BY <1>6 DEF EndStage
  <2>2. /\ NextLow(r) \in Nat /\ NextSize(r) \in Nat
        /\ NextLow(r) <= r /\ r < NextLow(r) + NextSize(r)
        /\ NextLow(r) + NextSize(r) <= N
    BY <1>1, HalfOK
  <2> QED BY <1>3, <2>1, <2>2 DEF GroupsOK
<1>7. ASSUME NEW r \in Ranks, Partition(r) \/ Receive(r) \/ SendData(r) \/ Edit(r) \/ Sort(r)
      PROVE  UNCHANGED group
  BY <1>7 DEF Partition, Receive, SendData, Edit, Sort
<1>8. CASE UNCHANGED vars
  BY <1>4, <1>8 DEF vars
<1>9. GroupsOK'
  BY <1>4, <1>5, <1>6, <1>7, <1>8 DEF Next, Step
<1> QED BY <1>2, <1>9

\* In a group, to be the target of a rank is to wait for it.
LEMMA GroupsPair ==
  ASSUME GroupsOK, N \in Nat
  PROVE  Pairing
<1> SUFFICES ASSUME NEW r \in Ranks, NEW q \in Ranks,
                    b_low[q] = b_low[r], n_sub[q] = n_sub[r], n_sub[r] > 1
             PROVE  target(q) = r <=> q \in Sources(r)
  BY DEF Pairing
<1> DEFINE n == n_sub[r]  h == n_sub[r] \div 2  b == b_low[r]
<1>1. /\ n \in Nat /\ b \in Nat /\ n > 1 /\ r \in Int /\ q \in Int
      /\ b <= r /\ r < b + n /\ b <= q /\ q < b + n
  BY DEF GroupsOK, Ranks
<1>2. /\ h \in Nat /\ h > 0
      /\ n % 2 \in {0, 1} /\ n = 2 * h + (n % 2)
  BY <1>1
<1> DEFINE odd == n % 2 = 1
<1>3. target(q) = IF q < b + h THEN q + h ELSE IF q - h = b + h THEN b + h - 1 ELSE q - h
  BY <1>1, <1>2 DEF target, IsLow, IsLast, b_high, n_low
<1>4. target(r) = IF r < b + h THEN r + h ELSE IF r - h = b + h THEN b + h - 1 ELSE r - h
  BY <1>1, <1>2 DEF target, IsLow, IsLast, b_high, n_low
<1>5. n_recv(r) = IF r < b + h /\ odd /\ r = b + h - 1 THEN 2
                  ELSE IF ~(r < b + h) /\ r - h = b + h THEN 0 ELSE 1
  BY <1>1, <1>2 DEF n_recv, IsLow, IsLast, b_high, n_low
<1>6. q \in Sources(r) <=> target(r) <= q /\ q <= target(r) + n_recv(r) - 1
  <2>1. target(r) \in Int /\ n_recv(r) \in Int
    BY <1>1, <1>2, <1>4, <1>5
  <2> QED BY <1>1, <2>1 DEF Sources
<1> HIDE DEF n, h, b
<1>7. odd <=> n = 2 * h + 1
  BY <1>1, <1>2
<1> HIDE DEF odd
<1>8. ~odd => n = 2 * h
  BY <1>1, <1>2 DEF odd
<1>9. CASE r < b + h /\ q < b + h
  BY <1>1, <1>2, <1>3, <1>4, <1>5, <1>6, <1>7, <1>8, <1>9
<1>10. CASE r < b + h /\ ~(q < b + h)
  <2>1. CASE r = b + h - 1
    BY <1>1, <1>2, <1>3, <1>4, <1>5, <1>6, <1>7, <1>8, <1>10, <2>1
  <2>2. CASE r # b + h - 1
    BY <1>1, <1>2, <1>3, <1>4, <1>5, <1>6, <1>7, <1>8, <1>10, <2>2
  <2> QED BY <2>1, <2>2
<1>11. CASE ~(r < b + h) /\ q < b + h
  BY <1>1, <1>2, <1>3, <1>4, <1>5, <1>6, <1>7, <1>8, <1>11
<1>12. CASE ~(r < b + h) /\ ~(q < b + h)
  BY <1>1, <1>2, <1>3, <1>4, <1>5, <1>6, <1>7, <1>8, <1>12
<1> QED BY <1>9, <1>10, <1>11, <1>12

\* A rank is always within its group, whatever the number of ranks.
THEOREM GroupsKept == Spec => []GroupsOK
<1>1. Init => setup \in Setups /\ GroupsOK
  BY InitGroups
<1>2. (setup \in Setups /\ GroupsOK) /\ [Next]_vars => (setup \in Setups /\ GroupsOK)'
  BY NextGroups
<1> QED BY <1>1, <1>2, PTL DEF Spec

\* At every stage, for any number of ranks, the messages that are waited for are those
\* that are sent.
THEOREM RanksPaired == Spec => []Pairing
<1>1. Init => setup \in Setups /\ GroupsOK
  BY InitGroups
<1>2. (setup \in Setups /\ GroupsOK) /\ [Next]_vars => (setup \in Setups /\ GroupsOK)'
  BY NextGroups
<1>3. setup \in Setups /\ GroupsOK => Pairing
  BY SizeType, GroupsPair
<1> QED BY <1>1, <1>2, <1>3, PTL DEF Spec

-------------------------------------------------------------------------------
(* Sequences: what selection and concatenation give, for every sequence.     *)
\* A non-empty set of naturals has a least element: among the intervals 0 .. n
\* for n in the set, one is minimal for inclusion.
LEMMA LeastExists ==
  ASSUME NEW S, S \subseteq Nat, S # {}
  PROVE  \E m \in S : \A n \in S : m <= n
<1> DEFINE T == {0 .. n : n \in S}
<1>1. T \subseteq FiniteSubsetsOf(Nat) /\ T # {}
  <2>1. ASSUME NEW n \in S PROVE 0 .. n \in FiniteSubsetsOf(Nat)
    <3>1. n \in Nat
      OBVIOUS
    <3>2. IsFiniteSet(0 .. n)
      BY <3>1, FS_Interval
    <3>3. QED
      BY <3>1, <3>2 DEF FiniteSubsetsOf
  <2>2. QED
    BY <2>1
<1>2. IsWellFoundedOn(StrictSubsetOrdering(Nat), FiniteSubsetsOf(Nat))
  BY FS_StrictSubsetOrderingWellFounded
<1>3. PICK x \in T : \A y \in T : ~(<<y, x>> \in StrictSubsetOrdering(Nat))
  BY <1>1, <1>2, WFMin
<1>4. PICK m \in S : x = 0 .. m
  OBVIOUS
<1>5. ASSUME NEW n \in S, ~(m <= n) PROVE FALSE
  <2>1. m \in Nat /\ n \in Nat /\ n < m
    BY <1>5
  <2>2. /\ 0 .. n \subseteq 0 .. m /\ 0 .. n # 0 .. m
        /\ 0 .. n \in SUBSET Nat /\ 0 .. m \in SUBSET Nat
    BY <2>1
  <2>3. <<0 .. n, 0 .. m>> \in StrictSubsetOrdering(Nat)
    BY <2>2 DEF StrictSubsetOrdering
  <2>4. QED
    BY <2>3, <1>3, <1>4
<1>6. QED
  BY <1>5

\* Induction: a set of naturals that holds 0 and the successor of each natural it holds.
LEMMA Induction ==
  ASSUME NEW S, 0 \in S, \A n \in Nat : n \in S => n + 1 \in S
  PROVE  Nat \subseteq S
<1> SUFFICES ASSUME Nat \ S # {} PROVE FALSE
  OBVIOUS
<1>1. PICK m \in Nat \ S : \A n \in Nat \ S : m <= n
  BY LeastExists
<1>2. m - 1 \in Nat /\ ~(m <= m - 1)
  BY <1>1
<1>3. m - 1 \in S
  BY <1>1, <1>2
<1>4. (m - 1) + 1 = m
  BY <1>1
<1> QED BY <1>1, <1>2, <1>3, <1>4

-------------------------------------------------------------------------------
(***************************************************************************)
(* What Select and FlattenSeq return.                                      *)
(***************************************************************************)
\* f holds what is selected in the first elements of s.
Selecting(f, s, S) ==
  f = [i \in 0 .. Len(s) |->
         IF i = 0 THEN <<>>
         ELSE IF s[i] \in S THEN Append(f[i - 1], s[i]) ELSE f[i - 1]]

\* f starts with x, and is built one step after the other.
Iteration(f, x, step, n) == f[0] = x /\ \A k \in 0 .. n - 1 : f[k + 1] = step[<<k, f[k]>>]

\* There is such a function.
LEMMA Iterates ==
  ASSUME NEW X, NEW x \in X, NEW step \in [Nat \X X -> X], NEW n \in Nat
  PROVE  \E f \in [0 .. n -> X] : Iteration(f, x, step, n)
<1> DEFINE P(m) == \E f \in [0 .. m -> X] : f[0] = x /\ \A k \in 0 .. m - 1 : f[k + 1] = step[<<k, f[k]>>]
           S == {m \in Nat : P(m)}
<1>1. 0 \in S
  <2>1. [k \in 0 .. 0 |-> x] \in [0 .. 0 -> X] /\ [k \in 0 .. 0 |-> x][0] = x
    OBVIOUS
  <2>2. 0 .. 0 - 1 = {}
    OBVIOUS
  <2> QED BY <2>1, <2>2
<1>2. ASSUME NEW m \in Nat, m \in S PROVE m + 1 \in S
  <2>1. PICK f \in [0 .. m -> X] : f[0] = x /\ \A k \in 0 .. m - 1 : f[k + 1] = step[<<k, f[k]>>]
    BY <1>2
  <2> DEFINE g == [k \in 0 .. m + 1 |-> IF k = m + 1 THEN step[<<m, f[m]>>] ELSE f[k]]
  <2>2. g \in [0 .. m + 1 -> X] /\ g[0] = x
    BY <2>1
  <2>3. ASSUME NEW k \in 0 .. (m + 1) - 1 PROVE g[k + 1] = step[<<k, g[k]>>]
    <3>1. CASE k = m
      <4>1. m + 1 \in 0 .. m + 1 /\ m \in 0 .. m + 1 /\ m # m + 1
        OBVIOUS
      <4>2. g[m + 1] = step[<<m, f[m]>>] /\ g[m] = f[m]
        BY <4>1
      <4> HIDE DEF g
      <4> QED BY <3>1, <4>2
    <3>2. CASE k # m
      <4>1. k \in 0 .. m - 1 /\ k + 1 \in 0 .. m + 1 /\ k + 1 # m + 1 /\ k # m + 1 /\ k \in 0 .. m + 1
        BY <3>2
      <4> QED BY <2>1, <4>1
    <3> QED BY <3>1, <3>2
  <2>4. P(m + 1)
    <3> HIDE DEF g
    <3> QED BY <2>2, <2>3
  <2> QED BY <2>4
<1> HIDE DEF P
<1>3. n \in S
  BY <1>1, <1>2, Induction
<1>4. P(n)
  BY <1>3
<1> QED BY <1>4 DEF P, Iteration

\* Select is well defined: there is such a function,
LEMMA SelectingExists ==
  ASSUME NEW E, NEW s \in Seq(E), NEW S
  PROVE  \E f : Selecting(f, s, S)
<1> DEFINE n == Len(s)
           step == [p \in Nat \X Seq(E) |->
                      IF p[1] + 1 \in 1 .. n /\ s[p[1] + 1] \in S THEN Append(p[2], s[p[1] + 1]) ELSE p[2]]
<1>1. n \in Nat /\ \A i \in 1 .. n : s[i] \in E
  OBVIOUS
<1>2. step \in [Nat \X Seq(E) -> Seq(E)]
  BY <1>1, AppendProperties
<1>3. <<>> \in Seq(E)
  OBVIOUS
<1>4. PICK f \in [0 .. n -> Seq(E)] :
        f[0] = <<>> /\ \A k \in 0 .. n - 1 : f[k + 1] = step[<<k, f[k]>>]
  <2> DEFINE X == Seq(E)  x == <<>>
  <2>1. n \in Nat /\ x \in X /\ step \in [Nat \X X -> X]
    BY <1>1, <1>2, <1>3
  <2>2. \E f \in [0 .. n -> X] : Iteration(f, x, step, n)
    <3> HIDE DEF step, n, X, x
    <3> QED BY <2>1, Iterates
  <2> QED BY <2>2 DEF Iteration
<1>5. ASSUME NEW i \in 0 .. n
      PROVE  f[i] = IF i = 0 THEN <<>> ELSE IF s[i] \in S THEN Append(f[i - 1], s[i]) ELSE f[i - 1]
  <2>1. CASE i = 0
    BY <1>4, <2>1
  <2>2. CASE i # 0
    <3>1. i - 1 \in 0 .. n - 1 /\ (i - 1) + 1 = i /\ i \in 1 .. n /\ i - 1 \in Nat /\ i - 1 \in 0 .. n
      BY <1>1, <2>2
    <3>2. f[i] = step[<<i - 1, f[i - 1]>>]
      BY <1>4, <3>1
    <3>3. <<i - 1, f[i - 1]>> \in Nat \X Seq(E)
      BY <3>1
    <3> QED BY <2>2, <3>1, <3>2, <3>3
  <2> QED BY <2>1, <2>2
<1>6. Selecting(f, s, S)
  <2> HIDE DEF step
  <2> QED BY <1>4, <1>5 DEF Selecting
<1> QED BY <1>6

\* Select returns the last of them.
LEMMA SelectSelecting ==
  ASSUME NEW E, NEW s \in Seq(E), NEW S
  PROVE  \E f : Selecting(f, s, S) /\ Select(s, S) = f[Len(s)]
<1> DEFINE f == CHOOSE selected : selected =
                  [i \in 0 .. Len(s) |->
                     IF i = 0 THEN <<>>
                     ELSE IF s[i] \in S THEN Append(selected[i - 1], s[i]) ELSE selected[i - 1]]
<1>1. Selecting(f, s, S)
  <2>1. \E g : Selecting(g, s, S)
    BY SelectingExists
  <2> QED BY <2>1 DEF Selecting
<1>2. Select(s, S) = f[Len(s)]
  BY DEF Select
<1> HIDE DEF f
<1> QED BY <1>1, <1>2

\* There is nothing to select in the empty sequence; the last element is selected or not.
LEMMA SelectEmpty ==
  ASSUME NEW S
  PROVE  Select(<<>>, S) = <<>>
<1>1. <<>> \in Seq({}) /\ Len(<<>>) = 0
  OBVIOUS
<1>2. PICK f : Selecting(f, <<>>, S) /\ Select(<<>>, S) = f[0]
  BY <1>1, SelectSelecting
<1> QED BY <1>1, <1>2 DEF Selecting

\* An element appended is selected, or not.
LEMMA SelectAppend ==
  ASSUME NEW E, NEW s \in Seq(E), NEW e \in E, NEW S
  PROVE  Select(Append(s, e), S) = IF e \in S THEN Append(Select(s, S), e) ELSE Select(s, S)
<1> DEFINE t == Append(s, e)  n == Len(s)
<1>1. /\ t \in Seq(E) /\ Len(t) = n + 1 /\ n \in Nat /\ t[n + 1] = e
      /\ \A i \in 1 .. n : t[i] = s[i]
  BY AppendProperties
<1> HIDE DEF t
<1>2. PICK f : Selecting(f, s, S) /\ Select(s, S) = f[n]
  BY SelectSelecting
<1>3. PICK g : Selecting(g, t, S) /\ Select(t, S) = g[n + 1]
  BY <1>1, SelectSelecting
<1> HIDE DEF n
<1> DEFINE J == {i \in Nat : i <= n => f[i] = g[i]}
<1>4. \A i \in 0 .. n : f[i] = IF i = 0 THEN <<>> ELSE IF s[i] \in S THEN Append(f[i - 1], s[i]) ELSE f[i - 1]
  BY <1>2 DEF Selecting, n
<1>5. \A i \in 0 .. n + 1 : g[i] = IF i = 0 THEN <<>> ELSE IF t[i] \in S THEN Append(g[i - 1], t[i]) ELSE g[i - 1]
  BY <1>1, <1>3 DEF Selecting
<1>6. 0 \in J
  BY <1>1, <1>4, <1>5
<1>7. ASSUME NEW i \in Nat, i \in J PROVE i + 1 \in J
  <2>1. CASE i + 1 <= n
    <3>1. i + 1 \in 0 .. n /\ i + 1 \in 0 .. n + 1 /\ i + 1 # 0 /\ (i + 1) - 1 = i /\ i <= n /\ i + 1 \in 1 .. n
      BY <1>1, <2>1
    <3> QED BY <1>1, <1>4, <1>5, <1>7, <3>1
  <2>2. CASE ~(i + 1 <= n)
    BY <2>2
  <2> QED BY <2>1, <2>2
<1>8. n \in J
  <2> HIDE DEF J
  <2> QED BY <1>1, <1>6, <1>7, Induction
<1>9. g[n + 1] = IF e \in S THEN Append(g[n], e) ELSE g[n]
  BY <1>1, <1>5
<1> QED BY <1>2, <1>3, <1>8, <1>9 DEF t

\* Induction on sequences.
LEMMA SeqInduction ==
  ASSUME NEW E, NEW G, <<>> \in G, \A s \in Seq(E), e \in E : s \in G => Append(s, e) \in G
  PROVE  Seq(E) \subseteq G
<1> DEFINE L == {n \in Nat : \A s \in Seq(E) : Len(s) = n => s \in G}
<1>1. 0 \in L
  OBVIOUS
<1>2. ASSUME NEW n \in Nat, n \in L PROVE n + 1 \in L
  <2>1. ASSUME NEW s \in Seq(E), Len(s) = n + 1 PROVE s \in G
    <3>1. s # <<>>
      BY <2>1
    <3>2. PICK t \in Seq(E), e \in E : s = Append(t, e)
      BY <3>1, SequenceEmptyOrAppend
    <3>3. Len(s) = Len(t) + 1 /\ Len(t) \in Nat
      BY <3>2, AppendProperties
    <3>4. Len(t) = n
      BY <2>1, <3>3
    <3>5. t \in G
      BY <1>2, <3>4
    <3> QED BY <3>2, <3>5
  <2> QED BY <2>1
<1>3. ASSUME NEW s \in Seq(E) PROVE s \in G
  <2>1. Len(s) \in Nat
    OBVIOUS
  <2>2. Len(s) \in L
    <3> HIDE DEF L
    <3> QED BY <1>1, <1>2, <2>1, Induction
  <2> QED BY <2>2
<1> QED BY <1>3

\* What is selected is in the set, and not longer.
LEMMA SelectTyped ==
  ASSUME NEW E, NEW s \in Seq(E), NEW S
  PROVE  Select(s, S) \in Seq(E \cap S) /\ Select(s, S) \in Seq(E) /\ Len(Select(s, S)) <= Len(s)
<1> DEFINE G == {t \in Seq(E) : Select(t, S) \in Seq(E \cap S) /\ Len(Select(t, S)) <= Len(t)}
<1>1. <<>> \in G
  <2>1. Select(<<>>, S) = <<>>
    BY SelectEmpty
  <2>2. <<>> \in Seq(E) /\ <<>> \in Seq(E \cap S) /\ Len(<<>>) <= Len(<<>>)
    OBVIOUS
  <2> QED BY <2>1, <2>2
<1>2. ASSUME NEW t \in Seq(E), NEW e \in E, t \in G PROVE Append(t, e) \in G
  <2>1. Append(t, e) \in Seq(E) /\ Len(Append(t, e)) = Len(t) + 1 /\ Len(t) \in Nat
    BY AppendProperties
  <2>2. Select(t, S) \in Seq(E \cap S) /\ Len(Select(t, S)) <= Len(t) /\ Len(Select(t, S)) \in Nat
    BY <1>2
  <2>3. Select(Append(t, e), S) = IF e \in S THEN Append(Select(t, S), e) ELSE Select(t, S)
    BY SelectAppend
  <2>4. CASE e \in S
    <3>1. Append(Select(t, S), e) \in Seq(E \cap S) /\ Len(Append(Select(t, S), e)) = Len(Select(t, S)) + 1
      BY <2>2, <2>4, AppendProperties
    <3> QED BY <2>1, <2>2, <2>3, <2>4, <3>1
  <2>5. CASE e \notin S
    BY <2>1, <2>2, <2>3, <2>5
  <2> QED BY <2>4, <2>5
<1>3. s \in G
  <2> HIDE DEF G
  <2> QED BY <1>1, <1>2, SeqInduction
<1>4. Select(s, S) \in Seq(E)
  BY <1>3, SeqMonotonic
<1> QED BY <1>3, <1>4

\* It depends on which elements are in the set.
LEMMA SelectSame ==
  ASSUME NEW E, NEW s \in Seq(E), NEW A, NEW B, \A e \in E : e \in A <=> e \in B
  PROVE  Select(s, A) = Select(s, B)
<1> DEFINE G == {t \in Seq(E) : Select(t, A) = Select(t, B)}
<1>1. <<>> \in G
  BY SelectEmpty
<1>2. ASSUME NEW t \in Seq(E), NEW e \in E, t \in G PROVE Append(t, e) \in G
  <2>1. Append(t, e) \in Seq(E)
    BY AppendProperties
  <2>2. /\ Select(Append(t, e), A) = IF e \in A THEN Append(Select(t, A), e) ELSE Select(t, A)
        /\ Select(Append(t, e), B) = IF e \in B THEN Append(Select(t, B), e) ELSE Select(t, B)
    BY SelectAppend
  <2>3. Select(t, A) = Select(t, B)
    BY <1>2
  <2>4. Select(Append(t, e), A) = Select(Append(t, e), B)
    BY <2>2, <2>3
  <2> QED BY <2>1, <2>4
<1>3. s \in G
  <2> HIDE DEF G
  <2> QED BY <1>1, <1>2, SeqInduction
<1> QED BY <1>3

\* All is selected, or nothing.
LEMMA SelectAll ==
  ASSUME NEW E, NEW s \in Seq(E), NEW A, E \subseteq A
  PROVE  Select(s, A) = s
<1> DEFINE G == {t \in Seq(E) : Select(t, A) = t}
<1>1. <<>> \in G
  BY SelectEmpty
<1>2. ASSUME NEW t \in Seq(E), NEW e \in E, t \in G PROVE Append(t, e) \in G
  <2>1. Append(t, e) \in Seq(E)
    BY AppendProperties
  <2>2. Select(Append(t, e), A) = IF e \in A THEN Append(Select(t, A), e) ELSE Select(t, A)
    BY SelectAppend
  <2> QED BY <1>2, <2>1, <2>2
<1>3. s \in G
  <2> HIDE DEF G
  <2> QED BY <1>1, <1>2, SeqInduction
<1> QED BY <1>3

\* No element is selected from a sequence that has none of the set.
LEMMA SelectNone ==
  ASSUME NEW E, NEW s \in Seq(E), NEW A, E \cap A = {}
  PROVE  Select(s, A) = <<>>
<1>1. Select(s, A) \in Seq(E \cap A)
  BY SelectTyped
<1>2. ASSUME NEW t \in Seq({}) PROVE t = <<>>
  <2>1. Len(t) \in Nat /\ \A i \in 1 .. Len(t) : t[i] \in {}
    OBVIOUS
  <2>2. Len(t) = 0
    BY <2>1
  <2> QED BY <2>2
<1> QED BY <1>1, <1>2

\* Concatenation, as an operator whose definition is not expanded in what follows.
Cat(s, t) == s \o t
App(s, e) == Append(s, e)

\* Concatenation.
LEMMA CatTyped ==
  ASSUME NEW E, NEW s \in Seq(E), NEW t \in Seq(E)
  PROVE  Cat(s, t) \in Seq(E) /\ Len(Cat(s, t)) = Len(s) + Len(t)
         /\ Cat(s, <<>>) = s /\ Cat(<<>>, s) = s
  BY ConcatProperties, ConcatEmptySeq DEF Cat

\* The type of a sequence with one more element.
LEMMA AppTyped ==
  ASSUME NEW E, NEW s \in Seq(E), NEW e \in E
  PROVE  App(s, e) \in Seq(E)
  BY AppendProperties DEF App

\* An element may be appended before or after a concatenation.
LEMMA CatApp ==
  ASSUME NEW E, NEW s \in Seq(E), NEW t \in Seq(E), NEW e \in E
  PROVE  App(Cat(s, t), e) = Cat(s, App(t, e))
<1>1. <<e>> \in Seq(E) /\ s \o t \in Seq(E)
  BY ConcatProperties
<1>2. Append(s \o t, e) = (s \o t) \o <<e>> /\ Append(t, e) = t \o <<e>>
  BY <1>1, AppendIsConcat
<1>3. (s \o t) \o <<e>> = s \o (t \o <<e>>)
  BY <1>1, ConcatAssociative
<1> QED BY <1>2, <1>3 DEF App, Cat

\* Selections follow concatenation, and compose.
LEMMA SelectApp ==
  ASSUME NEW E, NEW s \in Seq(E), NEW e \in E, NEW S
  PROVE  Select(App(s, e), S) = IF e \in S THEN App(Select(s, S), e) ELSE Select(s, S)
  BY SelectAppend DEF App

\* Selection in a concatenation.
LEMMA SelectCat ==
  ASSUME NEW E, NEW s \in Seq(E), NEW t \in Seq(E), NEW S
  PROVE  Select(Cat(s, t), S) = Cat(Select(s, S), Select(t, S))
<1> DEFINE G == {u \in Seq(E) : Select(Cat(s, u), S) = Cat(Select(s, S), Select(u, S))}
<1>1. <<>> \in G
  <2>1. Select(s, S) \in Seq(E) /\ Select(<<>>, S) = <<>>
    BY SelectTyped, SelectEmpty
  <2>2. Cat(s, <<>>) = s /\ Cat(Select(s, S), <<>>) = Select(s, S)
    BY <2>1, CatTyped
  <2>3. <<>> \in Seq(E)
    OBVIOUS
  <2> QED BY <2>1, <2>2, <2>3
<1>2. ASSUME NEW u \in Seq(E), NEW e \in E, u \in G PROVE Append(u, e) \in G
  <2>1. /\ Select(s, S) \in Seq(E) /\ Select(u, S) \in Seq(E)
        /\ Cat(s, u) \in Seq(E) /\ App(u, e) \in Seq(E)
    BY SelectTyped, CatTyped, AppTyped
  <2>2. /\ Select(App(Cat(s, u), e), S) =
             IF e \in S THEN App(Select(Cat(s, u), S), e) ELSE Select(Cat(s, u), S)
        /\ Select(App(u, e), S) = IF e \in S THEN App(Select(u, S), e) ELSE Select(u, S)
    BY <2>1, SelectApp
  <2>3. Select(Cat(s, u), S) = Cat(Select(s, S), Select(u, S))
    BY <1>2
  <2>4. /\ App(Cat(s, u), e) = Cat(s, App(u, e))
        /\ App(Cat(Select(s, S), Select(u, S)), e) = Cat(Select(s, S), App(Select(u, S), e))
    BY <2>1, CatApp
  <2>5. Select(Cat(s, App(u, e)), S) = Cat(Select(s, S), Select(App(u, e), S))
    BY <2>2, <2>3, <2>4
  <2>6. App(u, e) \in G
    BY <2>1, <2>5
  <2> HIDE DEF G
  <2> QED BY <2>6 DEF App
<1>3. t \in G
  <2> HIDE DEF G
  <2> QED BY <1>1, <1>2, SeqInduction
<1> QED BY <1>3

\* Two selections one after the other.
LEMMA SelectTwice ==
  ASSUME NEW E, NEW s \in Seq(E), NEW A, NEW B
  PROVE  Select(Select(s, A), B) = Select(s, A \cap B)
<1> DEFINE G == {t \in Seq(E) : Select(Select(t, A), B) = Select(t, A \cap B)}
<1>1. <<>> \in G
  BY SelectEmpty
<1>2. ASSUME NEW t \in Seq(E), NEW e \in E, t \in G PROVE Append(t, e) \in G
  <2>1. Append(t, e) \in Seq(E) /\ Select(t, A) \in Seq(E)
    BY AppendProperties, SelectTyped
  <2>2. /\ Select(Append(t, e), A) = IF e \in A THEN Append(Select(t, A), e) ELSE Select(t, A)
        /\ Select(Append(t, e), A \cap B) =
             IF e \in A \cap B THEN Append(Select(t, A \cap B), e) ELSE Select(t, A \cap B)
        /\ Select(Append(Select(t, A), e), B) =
             IF e \in B THEN Append(Select(Select(t, A), B), e) ELSE Select(Select(t, A), B)
    BY <2>1, SelectAppend
  <2>3. Select(Select(t, A), B) = Select(t, A \cap B)
    BY <1>2
  <2>4. CASE e \in A
    <3>1. e \in A \cap B <=> e \in B
      BY <2>4
    <3> HIDE DEF G
    <3>2. Select(Select(Append(t, e), A), B) = Select(Append(t, e), A \cap B)
      BY <2>2, <2>3, <2>4, <3>1
    <3> QED BY <2>1, <3>2 DEF G
  <2>5. CASE e \notin A
    <3>1. e \notin A \cap B
      BY <2>5
    <3> HIDE DEF G
    <3>2. Select(Select(Append(t, e), A), B) = Select(Append(t, e), A \cap B)
      BY <2>2, <2>3, <2>5, <3>1
    <3> QED BY <2>1, <3>2 DEF G
  <2> QED BY <2>4, <2>5
<1>3. s \in G
  <2> HIDE DEF G
  <2> QED BY <1>1, <1>2, SeqInduction
<1> QED BY <1>3

\* Two disjoint selections have together as many elements as one of both.
LEMMA SelectSplit ==
  ASSUME NEW E, NEW s \in Seq(E), NEW A, NEW B, A \cap B = {}
  PROVE  Len(Select(s, A \cup B)) = Len(Select(s, A)) + Len(Select(s, B))
<1> DEFINE G == {t \in Seq(E) : Len(Select(t, A \cup B)) = Len(Select(t, A)) + Len(Select(t, B))}
<1>1. <<>> \in G
  BY SelectEmpty
<1>2. ASSUME NEW t \in Seq(E), NEW e \in E, t \in G PROVE Append(t, e) \in G
  <2> DEFINE a == Select(t, A)  b == Select(t, B)  c == Select(t, A \cup B)
  <2>1. /\ Append(t, e) \in Seq(E) /\ a \in Seq(E) /\ b \in Seq(E) /\ c \in Seq(E)
    BY AppendProperties, SelectTyped
  <2>2. /\ Select(Append(t, e), A) = IF e \in A THEN Append(a, e) ELSE a
        /\ Select(Append(t, e), B) = IF e \in B THEN Append(b, e) ELSE b
        /\ Select(Append(t, e), A \cup B) = IF e \in A \cup B THEN Append(c, e) ELSE c
    BY SelectAppend
  <2>3. Len(c) = Len(a) + Len(b)
    BY <1>2
  <2> HIDE DEF a, b, c
  <2>4. /\ Len(a) \in Nat /\ Len(b) \in Nat /\ Len(Append(a, e)) = Len(a) + 1
        /\ Len(Append(b, e)) = Len(b) + 1 /\ Len(Append(c, e)) = Len(c) + 1
    BY <2>1, AppendProperties
  <2>5. Len(Select(Append(t, e), A \cup B)) = Len(Select(Append(t, e), A)) + Len(Select(Append(t, e), B))
    <3>1. CASE e \in A
      <4>1. e \notin B /\ e \in A \cup B
        BY <3>1
      <4> QED BY <2>2, <2>3, <2>4, <3>1, <4>1
    <3>2. CASE e \in B
      <4>1. e \notin A /\ e \in A \cup B
        BY <3>2
      <4> QED BY <2>2, <2>3, <2>4, <3>2, <4>1
    <3>3. CASE e \notin A \cup B
      <4>1. e \notin A /\ e \notin B
        BY <3>3
      <4> QED BY <2>2, <2>3, <2>4, <3>3, <4>1
    <3> QED BY <3>1, <3>2, <3>3
  <2> QED BY <2>1, <2>5
<1>3. s \in G
  <2> HIDE DEF G
  <2> QED BY <1>1, <1>2, SeqInduction
<1> QED BY <1>3

\* f holds the first sequences of ss, one after the other.
Flattening(f, ss) ==
  f = [i \in 1 .. Len(ss) |-> IF i = 1 THEN ss[i] ELSE f[i - 1] \o ss[i]]

\* There is such a function,
LEMMA FlatteningExists ==
  ASSUME NEW E, NEW ss \in Seq(Seq(E)), ss # <<>>
  PROVE  \E f : Flattening(f, ss) /\ \A i \in 1 .. Len(ss) : f[i] \in Seq(E)
<1> DEFINE n == Len(ss)
           step == [p \in Nat \X Seq(E) |-> IF p[1] + 2 \in 1 .. n THEN Cat(p[2], ss[p[1] + 2]) ELSE p[2]]
<1>1. n \in Nat /\ n > 0 /\ \A i \in 1 .. n : ss[i] \in Seq(E)
  OBVIOUS
<1>2. step \in [Nat \X Seq(E) -> Seq(E)]
  BY <1>1, CatTyped
<1>3. ss[1] \in Seq(E) /\ n - 1 \in Nat
  BY <1>1
<1>4. PICK h \in [0 .. n - 1 -> Seq(E)] : Iteration(h, ss[1], step, n - 1)
  <2> HIDE DEF step, n
  <2> QED BY <1>2, <1>3, Iterates
<1> DEFINE f == [i \in 1 .. n |-> h[i - 1]]
<1>5. \A i \in 1 .. n : i - 1 \in 0 .. n - 1
  BY <1>1
<1>6. \A i \in 1 .. n : f[i] = h[i - 1] /\ f[i] \in Seq(E)
  BY <1>4, <1>5
<1>7. ASSUME NEW i \in 1 .. n
      PROVE  f[i] = IF i = 1 THEN ss[i] ELSE f[i - 1] \o ss[i]
  <2>1. CASE i = 1
    <3>1. h[0] = ss[1] /\ 1 - 1 = 0
      BY <1>4 DEF Iteration
    <3> HIDE DEF f
    <3> QED BY <1>6, <2>1, <3>1
  <2>2. CASE i # 1
    <3>1. /\ i - 2 \in 0 .. (n - 1) - 1 /\ (i - 2) + 1 = i - 1 /\ i - 1 \in 1 .. n
          /\ (i - 1) - 1 = i - 2 /\ i - 2 \in Nat /\ (i - 2) + 2 = i /\ i - 2 \in 0 .. n - 1
      BY <1>1, <2>2
    <3>2. h[i - 1] = step[<<i - 2, h[i - 2]>>]
      BY <1>4, <3>1 DEF Iteration
    <3>3. h[i - 2] \in Seq(E)
      BY <1>4, <3>1
    <3>4. <<i - 2, h[i - 2]>> \in Nat \X Seq(E)
      BY <3>1, <3>3
    <3>5. h[i - 1] = Cat(h[i - 2], ss[i])
      BY <3>1, <3>2, <3>4
    <3>6. f[i] = h[i - 1] /\ f[i - 1] = h[i - 2]
      BY <1>6, <3>1
    <3> HIDE DEF f, step
    <3> QED BY <2>2, <3>5, <3>6 DEF Cat
  <2> QED BY <2>1, <2>2
<1>8. f = [i \in 1 .. n |-> f[i]]
  OBVIOUS
<1>9. Flattening(f, ss)
  <2> HIDE DEF f
  <2> QED BY <1>7, <1>8 DEF Flattening
<1> QED BY <1>6, <1>9

\* which FlattenSeq uses,
LEMMA FlattenFlattening ==
  ASSUME NEW E, NEW ss \in Seq(Seq(E)), ss # <<>>
  PROVE  \E f : Flattening(f, ss) /\ FlattenSeq(ss) = f[Len(ss)]
<1> DEFINE f == CHOOSE flatten : flatten =
                  [i \in 1 .. Len(ss) |-> IF i = 1 THEN ss[i] ELSE flatten[i - 1] \o ss[i]]
<1>1. \E g : Flattening(g, ss)
  BY FlatteningExists
<1>2. Flattening(f, ss)
  BY <1>1 DEF Flattening
<1>3. Len(ss) # 0
  OBVIOUS
<1>4. FlattenSeq(ss) = f[Len(ss)]
  BY <1>3 DEF FlattenSeq
<1> HIDE DEF f
<1> QED BY <1>2, <1>4

\* but for no sequence at all.
LEMMA FlattenEmpty == FlattenSeq(<<>>) = <<>>
  BY DEF FlattenSeq

\* The last sequence comes after the others.
LEMMA FlattenApp ==
  ASSUME NEW E, NEW ss \in Seq(Seq(E)), NEW t \in Seq(E)
  PROVE  FlattenSeq(App(ss, t)) = Cat(FlattenSeq(ss), t) /\ FlattenSeq(ss) \in Seq(E)
<1> DEFINE tt == App(ss, t)  n == Len(ss)
<1>1. /\ tt \in Seq(Seq(E)) /\ Len(tt) = n + 1 /\ n \in Nat /\ tt[n + 1] = t /\ tt # <<>>
      /\ \A i \in 1 .. n : tt[i] = ss[i] /\ ss[i] \in Seq(E)
  BY AppendProperties DEF App
<1> HIDE DEF tt
<1>2. PICK g : Flattening(g, tt) /\ FlattenSeq(tt) = g[n + 1]
  BY <1>1, FlattenFlattening
<1>3. \A i \in 1 .. n + 1 : g[i] = IF i = 1 THEN tt[i] ELSE g[i - 1] \o tt[i]
  BY <1>1, <1>2 DEF Flattening
<1>4. CASE ss = <<>>
  <2>1. n = 0 /\ 1 \in 1 .. n + 1
    BY <1>1, <1>4
  <2>2. FlattenSeq(tt) = t
    BY <1>1, <1>2, <1>3, <2>1
  <2>3. Cat(<<>>, t) = t /\ FlattenSeq(ss) = <<>> /\ <<>> \in Seq(E)
    BY <1>4, FlattenEmpty, CatTyped
  <2> QED BY <2>2, <2>3 DEF tt
<1>5. CASE ss # <<>>
  <2>1. PICK f : Flattening(f, ss) /\ FlattenSeq(ss) = f[n]
    BY <1>5, FlattenFlattening
  <2>2. n > 0
    BY <1>1, <1>5
  <2> HIDE DEF n
  <2>3. \A i \in 1 .. n : f[i] = IF i = 1 THEN ss[i] ELSE f[i - 1] \o ss[i]
    BY <2>1 DEF Flattening, n
  <2> DEFINE J == {i \in Nat : i + 1 <= n => f[i + 1] = g[i + 1] /\ f[i + 1] \in Seq(E)}
  <2>4. 0 \in J
    <3>1. f[1] = g[1] /\ f[1] \in Seq(E)
      BY <1>1, <1>3, <2>2, <2>3
    <3> QED BY <3>1
  <2>5. ASSUME NEW i \in Nat, i \in J PROVE i + 1 \in J
    <3> SUFFICES ASSUME (i + 1) + 1 <= n
                 PROVE  f[(i + 1) + 1] = g[(i + 1) + 1] /\ f[(i + 1) + 1] \in Seq(E)
      OBVIOUS
    <3>1. /\ i + 2 \in 1 .. n /\ i + 2 \in 1 .. n + 1 /\ i + 2 # 1 /\ (i + 2) - 1 = i + 1 /\ i + 1 <= n
          /\ (i + 1) + 1 = i + 2
      BY <1>1
    <3>2. f[i + 2] = f[i + 1] \o ss[i + 2] /\ g[i + 2] = g[i + 1] \o tt[i + 2]
      BY <1>3, <2>3, <3>1
    <3>3. f[i + 1] = g[i + 1] /\ f[i + 1] \in Seq(E) /\ tt[i + 2] = ss[i + 2] /\ ss[i + 2] \in Seq(E)
      BY <1>1, <2>5, <3>1
    <3>4. f[i + 2] = Cat(f[i + 1], ss[i + 2]) /\ g[i + 2] = f[i + 2]
      BY <3>2, <3>3 DEF Cat
    <3>5. Cat(f[i + 1], ss[i + 2]) \in Seq(E)
      BY <3>3, CatTyped
    <3> QED BY <3>1, <3>4, <3>5
  <2>6. n - 1 \in J
    <3>1. n - 1 \in Nat
      BY <1>1, <2>2
    <3> HIDE DEF J
    <3> QED BY <2>4, <2>5, <3>1, Induction
  <2>7. f[n] = g[n] /\ f[n] \in Seq(E)
    BY <1>1, <2>2, <2>6
  <2>8. n + 1 \in 1 .. n + 1 /\ n + 1 # 1 /\ (n + 1) - 1 = n
    BY <1>1, <2>2
  <2>9. g[n + 1] = g[n] \o t
    BY <1>1, <1>3, <2>8
  <2>10. FlattenSeq(tt) = Cat(FlattenSeq(ss), t)
    BY <1>2, <2>1, <2>7, <2>9 DEF Cat
  <2> QED BY <2>1, <2>7, <2>10 DEF tt
<1> QED BY <1>4, <1>5

\* What App adds is the last element.
LEMMA AppElements ==
  ASSUME NEW E, NEW s \in Seq(E), NEW e \in E
  PROVE  /\ App(s, e) \in Seq(E) /\ Len(App(s, e)) = Len(s) + 1 /\ Len(s) \in Nat
         /\ App(s, e)[Len(s) + 1] = e /\ \A i \in 1 .. Len(s) : App(s, e)[i] = s[i]
  BY AppendProperties DEF App

\* A sequence that starts with s and has e as last element.
LEMMA AppIs ==
  ASSUME NEW E, NEW s \in Seq(E), NEW e \in E, NEW t \in Seq(E), Len(t) = Len(s) + 1,
         t[Len(s) + 1] = e, \A i \in 1 .. Len(s) : t[i] = s[i]
  PROVE  t = App(s, e)
<1>1. /\ App(s, e) \in Seq(E) /\ Len(App(s, e)) = Len(s) + 1 /\ Len(s) \in Nat
      /\ App(s, e)[Len(s) + 1] = e /\ \A i \in 1 .. Len(s) : App(s, e)[i] = s[i]
  BY AppElements
<1>2. ASSUME NEW i \in 1 .. Len(t) PROVE t[i] = App(s, e)[i]
  <2>1. i = Len(s) + 1 \/ i \in 1 .. Len(s)
    BY <1>1
  <2> QED BY <1>1, <2>1
<1> QED BY <1>1, <1>2, SeqEqual

\* The same for a sequence of sequences.
LEMMA AppNested ==
  ASSUME NEW E, NEW tt \in Seq(Seq(E)), NEW t \in Seq(E)
  PROVE  /\ App(tt, t) \in Seq(Seq(E)) /\ Len(App(tt, t)) = Len(tt) + 1 /\ Len(tt) \in Nat
         /\ App(tt, t)[Len(tt) + 1] = t /\ \A i \in 1 .. Len(tt) : App(tt, t)[i] = tt[i]
<1>1. PICK X : X = Seq(E)
  OBVIOUS
<1>2. tt \in Seq(X) /\ t \in X
  BY <1>1
<1>3. /\ App(tt, t) \in Seq(X) /\ Len(App(tt, t)) = Len(tt) + 1 /\ Len(tt) \in Nat
      /\ App(tt, t)[Len(tt) + 1] = t /\ \A i \in 1 .. Len(tt) : App(tt, t)[i] = tt[i]
  BY <1>2, AppElements
<1> QED BY <1>1, <1>3

\* Induction on sequences, with App.
LEMMA AppInduction ==
  ASSUME NEW E, NEW G, <<>> \in G, \A s \in Seq(E), e \in E : s \in G => App(s, e) \in G
  PROVE  Seq(E) \subseteq G
  BY SeqInduction DEF App

\* The type of sequences put together.
LEMMA FlattenTyped ==
  ASSUME NEW E, NEW ss \in Seq(Seq(E))
  PROVE  FlattenSeq(ss) \in Seq(E)
<1>1. <<>> \in Seq(E)
  OBVIOUS
<1> QED BY <1>1, FlattenApp

\* Empty sequences add nothing.
LEMMA FlattenNone ==
  ASSUME NEW E, NEW ss \in Seq(Seq(E)), \A i \in 1 .. Len(ss) : ss[i] = <<>>
  PROVE  FlattenSeq(ss) = <<>>
<1> DEFINE G == {tt \in Seq(Seq(E)) : (\A i \in 1 .. Len(tt) : tt[i] = <<>>) => FlattenSeq(tt) = <<>>}
<1>1. <<>> \in G
  BY FlattenEmpty
<1>2. ASSUME NEW tt \in Seq(Seq(E)), NEW t \in Seq(E), tt \in G PROVE App(tt, t) \in G
  <2>1. /\ App(tt, t) \in Seq(Seq(E)) /\ Len(App(tt, t)) = Len(tt) + 1 /\ Len(tt) \in Nat
        /\ App(tt, t)[Len(tt) + 1] = t /\ \A i \in 1 .. Len(tt) : App(tt, t)[i] = tt[i]
    BY AppNested
  <2>2. ASSUME \A i \in 1 .. Len(App(tt, t)) : App(tt, t)[i] = <<>>
        PROVE  FlattenSeq(App(tt, t)) = <<>>
    <3>1. t = <<>> /\ \A i \in 1 .. Len(tt) : tt[i] = <<>>
      BY <2>1, <2>2
    <3>2. FlattenSeq(tt) = <<>>
      BY <1>2, <3>1
    <3>3. FlattenSeq(App(tt, t)) = Cat(<<>>, <<>>) /\ <<>> \in Seq(E)
      BY <3>1, <3>2, FlattenApp
    <3>4. Cat(<<>>, <<>>) = <<>>
      BY <3>3, CatTyped
    <3> QED BY <3>3, <3>4
  <2> QED BY <2>1, <2>2
<1>3. ss \in G
  <2> HIDE DEF G
  <2> QED BY <1>1, <1>2, AppInduction
<1> QED BY <1>3

\* They make the k-th one if the others are empty.
LEMMA FlattenOne ==
  ASSUME NEW E, NEW ss \in Seq(Seq(E)), NEW k \in 1 .. Len(ss),
         \A i \in 1 .. Len(ss) : i # k => ss[i] = <<>>
  PROVE  FlattenSeq(ss) = ss[k]
<1> DEFINE Only(tt, j) == \A i \in 1 .. Len(tt) : i # j => tt[i] = <<>>
           G == {tt \in Seq(Seq(E)) : \A j \in 1 .. Len(tt) : Only(tt, j) => FlattenSeq(tt) = tt[j]}
<1>1. <<>> \in G
  OBVIOUS
<1>2. ASSUME NEW tt \in Seq(Seq(E)), NEW t \in Seq(E), tt \in G PROVE App(tt, t) \in G
  <2>1. /\ App(tt, t) \in Seq(Seq(E)) /\ Len(App(tt, t)) = Len(tt) + 1 /\ Len(tt) \in Nat
        /\ App(tt, t)[Len(tt) + 1] = t /\ \A i \in 1 .. Len(tt) : App(tt, t)[i] = tt[i]
    BY AppNested
  <2>2. FlattenSeq(App(tt, t)) = Cat(FlattenSeq(tt), t) /\ FlattenSeq(tt) \in Seq(E)
    BY FlattenApp
  <2>3. ASSUME NEW j \in 1 .. Len(App(tt, t)), Only(App(tt, t), j)
        PROVE  FlattenSeq(App(tt, t)) = App(tt, t)[j]
    <3>1. CASE j = Len(tt) + 1
      <4>1. \A i \in 1 .. Len(tt) : tt[i] = <<>>
        BY <2>1, <2>3, <3>1
      <4>2. FlattenSeq(tt) = <<>>
        BY <4>1, FlattenNone
      <4>3. Cat(<<>>, t) = t
        BY CatTyped
      <4> QED BY <2>1, <2>2, <3>1, <4>2, <4>3
    <3>2. CASE j # Len(tt) + 1
      <4>1. j \in 1 .. Len(tt)
        BY <2>1, <2>3, <3>2
      <4>2. t = <<>> /\ Only(tt, j)
        <5>1. Len(tt) + 1 \in 1 .. Len(App(tt, t)) /\ \A i \in 1 .. Len(tt) : i \in 1 .. Len(App(tt, t))
          BY <2>1
        <5>2. App(tt, t)[Len(tt) + 1] = <<>>
          BY <2>3, <3>2, <5>1
        <5>3. \A i \in 1 .. Len(tt) : i # j => App(tt, t)[i] = <<>>
          BY <2>3, <5>1
        <5> QED BY <2>1, <5>2, <5>3
      <4>3. FlattenSeq(tt) = tt[j]
        BY <1>2, <4>1, <4>2
      <4>4. Cat(FlattenSeq(tt), <<>>) = FlattenSeq(tt)
        BY <2>2, CatTyped
      <4> QED BY <2>1, <2>2, <4>1, <4>2, <4>3, <4>4
    <3> QED BY <3>1, <3>2
  <2> QED BY <2>1, <2>3
<1>3. ss \in G
  <2> HIDE DEF G
  <2> QED BY <1>1, <1>2, AppInduction
<1> QED BY <1>3

\* Selection in each of the sequences.
LEMMA SelectFlatten ==
  ASSUME NEW E, NEW ss \in Seq(Seq(E)), NEW S
  PROVE  /\ Select(FlattenSeq(ss), S) = FlattenSeq([i \in 1 .. Len(ss) |-> Select(ss[i], S)])
         /\ [i \in 1 .. Len(ss) |-> Select(ss[i], S)] \in Seq(Seq(E))
<1> DEFINE Sel(tt) == [i \in 1 .. Len(tt) |-> Select(tt[i], S)]
           G == {tt \in Seq(Seq(E)) : Select(FlattenSeq(tt), S) = FlattenSeq(Sel(tt))}
<1>1. <<>> \in G
  <2>1. Sel(<<>>) = <<>> /\ <<>> \in Seq(Seq(E))
    OBVIOUS
  <2>2. FlattenSeq(<<>>) = <<>> /\ Select(<<>>, S) = <<>>
    BY FlattenEmpty, SelectEmpty
  <2> HIDE DEF Sel
  <2> QED BY <2>1, <2>2
<1>2. ASSUME NEW tt \in Seq(Seq(E)) PROVE Sel(tt) \in Seq(Seq(E)) /\ Len(Sel(tt)) = Len(tt)
  <2>1. Len(tt) \in Nat /\ \A i \in 1 .. Len(tt) : tt[i] \in Seq(E)
    OBVIOUS
  <2>2. \A i \in 1 .. Len(tt) : Select(tt[i], S) \in Seq(E)
    BY <2>1, SelectTyped
  <2> QED BY <2>1, <2>2
<1>3. ASSUME NEW tt \in Seq(Seq(E)), NEW t \in Seq(E), tt \in G PROVE App(tt, t) \in G
  <2>1. /\ App(tt, t) \in Seq(Seq(E)) /\ Len(App(tt, t)) = Len(tt) + 1 /\ Len(tt) \in Nat
        /\ App(tt, t)[Len(tt) + 1] = t /\ \A i \in 1 .. Len(tt) : App(tt, t)[i] = tt[i]
    BY AppNested
  <2>2. Select(t, S) \in Seq(E) /\ FlattenSeq(tt) \in Seq(E)
    BY SelectTyped, FlattenTyped
  <2>3. Sel(App(tt, t)) = App(Sel(tt), Select(t, S))
    <3>1. PICK u \in Seq(Seq(E)) : u = Sel(tt) /\ Len(u) = Len(tt)
      BY <1>2
    <3>2. PICK v \in Seq(E) : v = Select(t, S)
      BY <2>2
    <3>3. PICK w \in Seq(Seq(E)) : w = Sel(App(tt, t)) /\ Len(w) = Len(tt) + 1
      BY <1>2, <2>1
    <3>4. w[Len(u) + 1] = v
      BY <2>1, <3>1, <3>2, <3>3
    <3>5. ASSUME NEW i \in 1 .. Len(u) PROVE w[i] = u[i]
      <4>1. i \in 1 .. Len(tt) /\ i \in 1 .. Len(App(tt, t)) /\ App(tt, t)[i] = tt[i]
        BY <2>1, <3>1
      <4> QED BY <3>1, <3>3, <4>1
    <3>6. w = App(u, v)
      <4>1. PICK X : X = Seq(E)
        OBVIOUS
      <4>2. u \in Seq(X) /\ v \in X /\ w \in Seq(X) /\ Len(w) = Len(u) + 1
        BY <3>1, <3>3, <4>1
      <4> HIDE DEF Sel, G
      <4> QED BY <3>4, <3>5, <4>2, AppIs
    <3> QED BY <3>1, <3>2, <3>3, <3>6
  <2>4. Select(Cat(FlattenSeq(tt), t), S) = Cat(Select(FlattenSeq(tt), S), Select(t, S))
    BY <2>2, SelectCat
  <2>5. FlattenSeq(App(tt, t)) = Cat(FlattenSeq(tt), t)
    BY FlattenApp
  <2>6. Sel(tt) \in Seq(Seq(E))
    BY <1>2
  <2>7. Select(FlattenSeq(tt), S) = FlattenSeq(Sel(tt))
    BY <1>3
  <2> HIDE DEF Sel
  <2>8. FlattenSeq(App(Sel(tt), Select(t, S))) = Cat(FlattenSeq(Sel(tt)), Select(t, S))
    BY <2>2, <2>6, FlattenApp
  <2> QED BY <2>1, <2>3, <2>4, <2>5, <2>7, <2>8
<1>4. ss \in G
  <2> HIDE DEF G
  <2> QED BY <1>1, <1>3, AppInduction
<1> QED BY <1>2, <1>4

\* The last of n + 1 sequences comes after the n first.
LEMMA FlattenStep ==
  ASSUME NEW E, NEW n \in Nat, NEW f, \A i \in 1 .. n + 1 : f[i] \in Seq(E)
  PROVE  /\ FlattenSeq([i \in 1 .. n + 1 |-> f[i]]) = Cat(FlattenSeq([i \in 1 .. n |-> f[i]]), f[n + 1])
         /\ FlattenSeq([i \in 1 .. n |-> f[i]]) \in Seq(E) /\ f[n + 1] \in Seq(E)
         /\ FlattenSeq([i \in 1 .. n + 1 |-> f[i]]) \in Seq(E)
<1>1. PICK X : X = Seq(E)
  OBVIOUS
<1>2. \A i \in 1 .. n : i \in 1 .. n + 1
  OBVIOUS
<1>3. PICK u \in Seq(X) : u = [i \in 1 .. n |-> f[i]] /\ Len(u) = n /\ \A i \in 1 .. n : u[i] = f[i]
  <2>1. [i \in 1 .. n |-> f[i]] \in Seq(X) /\ Len([i \in 1 .. n |-> f[i]]) = n
    BY <1>1, <1>2
  <2> QED BY <2>1
<1>4. PICK w \in Seq(X) : w = [i \in 1 .. n + 1 |-> f[i]] /\ Len(w) = n + 1 /\ \A i \in 1 .. n + 1 : w[i] = f[i]
  <2>1. [i \in 1 .. n + 1 |-> f[i]] \in Seq(X) /\ Len([i \in 1 .. n + 1 |-> f[i]]) = n + 1
    BY <1>1
  <2> QED BY <2>1
<1>5. n + 1 \in 1 .. n + 1 /\ f[n + 1] \in X
  BY <1>1
<1>6. w = App(u, f[n + 1])
  <2>1. PICK v \in X : v = f[n + 1]
    BY <1>5
  <2>2. w[Len(u) + 1] = v /\ Len(w) = Len(u) + 1 /\ \A i \in 1 .. Len(u) : w[i] = u[i]
    BY <1>2, <1>3, <1>4, <1>5, <2>1
  <2>3. w = App(u, v)
    BY <2>2, AppIs
  <2> QED BY <2>1, <2>3
<1>7. u \in Seq(Seq(E)) /\ w \in Seq(Seq(E)) /\ f[n + 1] \in Seq(E)
  BY <1>1, <1>5
<1>8. FlattenSeq(App(u, f[n + 1])) = Cat(FlattenSeq(u), f[n + 1]) /\ FlattenSeq(u) \in Seq(E)
  BY <1>7, FlattenApp
<1>9. FlattenSeq(w) \in Seq(E)
  BY <1>7, FlattenTyped
<1> QED BY <1>3, <1>4, <1>6, <1>7, <1>8, <1>9

\* Disjoint selections, one after the other, have as many elements as one of them all.
AllOf(A, n) == UNION {A[i] : i \in 1 .. n}
Selections(s, A, n) == [i \in 1 .. n |-> Select(s, A[i])]

\* Selections of disjoint sets have together as many elements as that of their union.
LEMMA FlattenLen ==
  ASSUME NEW E, NEW s \in Seq(E), NEW n \in Nat, NEW A,
         \A i, j \in 1 .. n : i # j => A[i] \cap A[j] = {}
  PROVE  Len(FlattenSeq(Selections(s, A, n))) = Len(Select(s, AllOf(A, n)))
<1> DEFINE F(m) == FlattenSeq([i \in 1 .. m |-> Select(s, A[i])])
           U(m) == UNION {A[i] : i \in 1 .. m}
           J == {m \in Nat : m <= n => Len(F(m)) = Len(Select(s, U(m)))}
<1>1. 0 \in J
  <2>1. [i \in 1 .. 0 |-> Select(s, A[i])] = <<>>
    OBVIOUS
  <2>2. F(0) = <<>>
    BY <2>1, FlattenEmpty
  <2>3. E \cap U(0) = {}
    OBVIOUS
  <2>4. Select(s, U(0)) = <<>>
    <3> HIDE DEF U
    <3> QED BY <2>3, SelectNone
  <2> HIDE DEF F, U
  <2> QED BY <2>2, <2>4
<1>2. ASSUME NEW m \in Nat, m \in J PROVE m + 1 \in J
  <2> SUFFICES ASSUME m + 1 <= n PROVE Len(F(m + 1)) = Len(Select(s, U(m + 1)))
    OBVIOUS
  <2>1. Len(F(m)) = Len(Select(s, U(m)))
    BY <1>2
  <2>2. F(m + 1) = Cat(F(m), Select(s, A[m + 1])) /\ F(m) \in Seq(E) /\ Select(s, A[m + 1]) \in Seq(E)
    <3> DEFINE f == [i \in 1 .. m + 1 |-> Select(s, A[i])]
    <3>1. \A i \in 1 .. m + 1 : f[i] \in Seq(E) /\ f[i] = Select(s, A[i])
      BY SelectTyped
    <3>2. m + 1 \in 1 .. m + 1 /\ \A i \in 1 .. m : i \in 1 .. m + 1
      OBVIOUS
    <3>3. F(m) = FlattenSeq([i \in 1 .. m |-> f[i]])
      BY <3>2
    <3>4. F(m + 1) = FlattenSeq([i \in 1 .. m + 1 |-> f[i]])
      OBVIOUS
    <3> HIDE DEF F, f
    <3>5. /\ FlattenSeq([i \in 1 .. m + 1 |-> f[i]]) = Cat(FlattenSeq([i \in 1 .. m |-> f[i]]), f[m + 1])
          /\ FlattenSeq([i \in 1 .. m |-> f[i]]) \in Seq(E) /\ f[m + 1] \in Seq(E)
      BY <3>1, FlattenStep
    <3> QED BY <3>1, <3>2, <3>3, <3>4, <3>5
  <2>3. U(m + 1) = U(m) \cup A[m + 1]
    <3>1. \A i : i \in 1 .. m + 1 <=> i \in 1 .. m \/ i = m + 1
      OBVIOUS
    <3> QED BY <3>1
  <2>4. U(m) \cap A[m + 1] = {}
    <3>1. \A i \in 1 .. m : i \in 1 .. n /\ m + 1 \in 1 .. n /\ i # m + 1
      OBVIOUS
    <3> QED BY <3>1
  <2> HIDE DEF F, U
  <2>5. Len(Select(s, U(m) \cup A[m + 1])) = Len(Select(s, U(m))) + Len(Select(s, A[m + 1]))
    BY <2>4, SelectSplit
  <2>6. Len(Cat(F(m), Select(s, A[m + 1]))) = Len(F(m)) + Len(Select(s, A[m + 1]))
    BY <2>2, CatTyped
  <2> QED BY <2>1, <2>2, <2>3, <2>5, <2>6
<1>3. n \in J
  <2> HIDE DEF J
  <2> QED BY <1>1, <1>2, Induction
<1> QED BY <1>3 DEF AllOf, Selections

\* What the sequences have after f has been applied to all elements.
Maps(E, D) == [E -> D]
Each(s, f) == [k \in 1 .. Len(s) |-> f[s[k]]]

\* Applying f to each element gives a sequence of its values,
LEMMA EachTyped ==
  ASSUME NEW E, NEW D, NEW s \in Seq(E), NEW f \in Maps(E, D)
  PROVE  /\ Each(s, f) \in Seq(D) /\ Len(Each(s, f)) = Len(s)
         /\ \A k \in 1 .. Len(s) : Each(s, f)[k] = f[s[k]]
  BY DEF Each, Maps

\* of one value more for one element more.
LEMMA EachApp ==
  ASSUME NEW E, NEW D, NEW s \in Seq(E), NEW e \in E, NEW f \in Maps(E, D)
  PROVE  Each(App(s, e), f) = App(Each(s, f), f[e])
<1>1. /\ App(s, e) \in Seq(E) /\ Len(App(s, e)) = Len(s) + 1 /\ Len(s) \in Nat
      /\ App(s, e)[Len(s) + 1] = e
  BY AppElements
<1>0. \A i \in 1 .. Len(s) : App(s, e)[i] = s[i]
  BY AppElements
<1>2. PICK u \in Seq(D) : /\ u = Each(s, f) /\ Len(u) = Len(s)
                          /\ \A k \in 1 .. Len(s) : u[k] = f[s[k]]
  BY EachTyped
<1>3. PICK w \in Seq(D) : /\ w = Each(App(s, e), f) /\ Len(w) = Len(s) + 1
                          /\ \A k \in 1 .. Len(s) + 1 : w[k] = f[App(s, e)[k]]
  <2>1. PICK t \in Seq(E) : t = App(s, e)
    BY <1>1
  <2>2. Each(t, f) \in Seq(D) /\ Len(Each(t, f)) = Len(t)
    BY EachTyped
  <2>3. \A k \in 1 .. Len(t) : Each(t, f)[k] = f[t[k]]
    BY EachTyped
  <2> QED BY <1>1, <2>1, <2>2, <2>3
<1>4. f[e] \in D
  BY DEF Maps
<1>5. w[Len(u) + 1] = f[e] /\ \A i \in 1 .. Len(u) : w[i] = u[i]
  BY <1>0, <1>1, <1>2, <1>3
<1>6. w = App(u, f[e])
  BY <1>2, <1>3, <1>4, <1>5, AppIs
<1> QED BY <1>2, <1>3, <1>6

\* To select after is to select before.
LEMMA SelectEach ==
  ASSUME NEW E, NEW D, NEW s \in Seq(E), NEW f \in Maps(E, D), NEW A, NEW B,
         \A e \in E : e \in A <=> f[e] \in B
  PROVE  Select(Each(s, f), B) = Each(Select(s, A), f)
<1> DEFINE G == {t \in Seq(E) : Select(Each(t, f), B) = Each(Select(t, A), f)}
<1>1. <<>> \in G
  <2>1. <<>> \in Seq(E) /\ Each(<<>>, f) = <<>>
    BY DEF Each
  <2>2. Select(<<>>, A) = <<>> /\ Select(<<>>, B) = <<>>
    BY SelectEmpty
  <2> QED BY <2>1, <2>2
<1>2. ASSUME NEW t \in Seq(E), NEW e \in E, t \in G PROVE App(t, e) \in G
  <2>1. /\ App(t, e) \in Seq(E) /\ Select(t, A) \in Seq(E) /\ Each(t, f) \in Seq(D)
    BY AppTyped, SelectTyped, EachTyped
  <2>2. f[e] \in D
    BY DEF Maps
  <2>3. /\ Each(App(t, e), f) = App(Each(t, f), f[e])
        /\ Each(App(Select(t, A), e), f) = App(Each(Select(t, A), f), f[e])
    <3>1. PICK u \in Seq(E) : u = Select(t, A)
      BY <2>1
    <3>2. Each(App(u, e), f) = App(Each(u, f), f[e])
      BY EachApp
    <3>3. Each(App(t, e), f) = App(Each(t, f), f[e])
      BY EachApp
    <3> QED BY <3>1, <3>2, <3>3
  <2>4. /\ Select(App(t, e), A) = IF e \in A THEN App(Select(t, A), e) ELSE Select(t, A)
        /\ Select(App(Each(t, f), f[e]), B) =
             IF f[e] \in B THEN App(Select(Each(t, f), B), f[e]) ELSE Select(Each(t, f), B)
    BY <2>1, <2>2, SelectApp
  <2>5. Select(Each(t, f), B) = Each(Select(t, A), f) /\ (e \in A <=> f[e] \in B)
    BY <1>2
  <2>6. Select(Each(App(t, e), f), B) = Each(Select(App(t, e), A), f)
    BY <2>3, <2>4, <2>5
  <2> QED BY <2>1, <2>6
<1>3. s \in G
  <2> HIDE DEF G
  <2> QED BY <1>1, <1>2, AppInduction
<1> QED BY <1>3

-------------------------------------------------------------------------------
(* Groups: the halves of halves, and who sends to whom at each stage.        *)
(***************************************************************************)
(* The tree of groups.  A group is its first rank and its size; the group  *)
(* of a rank at each level follows from the number of ranks.               *)
(***************************************************************************)
Members(g) == g[1] .. g[1] + g[2] - 1
Mid(g) == g[1] + g[2] \div 2

\* What the operators of the router are, for rank r of group g.
Target(g, r) ==
  IF r < Mid(g) THEN r + g[2] \div 2
  ELSE IF r - g[2] \div 2 = Mid(g) THEN Mid(g) - 1 ELSE r - g[2] \div 2
Count(g, r) ==
  IF r < Mid(g) /\ g[2] % 2 = 1 /\ r = Mid(g) - 1 THEN 2
  ELSE IF ~(r < Mid(g)) /\ r - g[2] \div 2 = Mid(g) THEN 0 ELSE 1
Senders(g, r) == Target(g, r) .. Target(g, r) + Count(g, r) - 1
Half(g, r) ==
  IF g[2] <= 1 THEN g
  ELSE IF r < Mid(g) THEN <<g[1], g[2] \div 2>> ELSE <<Mid(g), g[2] - g[2] \div 2>>

Group == {g \in Nat \X Nat : g[2] > 0 /\ g[1] + g[2] <= N}

\* In a group of several ranks, a rank sends to one of the other half, and receives from
\* those of the other half that send to it.
LEMMA PartnersMatch ==
  ASSUME NEW g \in Nat \X Nat, g[2] > 1, NEW r \in Members(g)
  PROVE  /\ Target(g, r) \in Members(g) /\ (Target(g, r) < Mid(g) <=> ~(r < Mid(g)))
         /\ \A q \in Senders(g, r) : q \in Members(g)
         /\ \A q \in Members(g) : Target(g, q) = r <=> q \in Senders(g, r)
<1>1. PICK b \in Nat, n \in Nat : g = <<b, n>> /\ g[1] = b /\ g[2] = n
  OBVIOUS
<1>2. PICK h \in Nat : h = n \div 2 /\ h > 0 /\ (n = 2 * h \/ n = 2 * h + 1) /\ (n % 2 = 1 <=> n = 2 * h + 1)
  BY <1>1
<1>3. Mid(g) = b + h /\ Members(g) = b .. b + n - 1
  BY <1>1, <1>2 DEF Mid, Members
<1>4. \A q : Target(g, q) = IF q < b + h THEN q + h ELSE IF q - h = b + h THEN b + h - 1 ELSE q - h
  BY <1>1, <1>2, <1>3 DEF Target
<1>5. Count(g, r) = IF r < b + h /\ n = 2 * h + 1 /\ r = b + h - 1 THEN 2
                    ELSE IF ~(r < b + h) /\ r - h = b + h THEN 0 ELSE 1
  BY <1>1, <1>2, <1>3 DEF Count
<1>6. r \in Int /\ b <= r /\ r < b + n
  BY <1>3
<1>7. PICK t \in Int : t = Target(g, r)
  BY <1>4, <1>6
<1>8. PICK c \in Nat : c = Count(g, r)
  BY <1>5
<1>9. t = IF r < b + h THEN r + h ELSE IF r - h = b + h THEN b + h - 1 ELSE r - h
  BY <1>4, <1>7
<1>10. t \in Members(g) /\ (t < Mid(g) <=> ~(r < Mid(g)))
  BY <1>2, <1>3, <1>6, <1>9
<1>11. \A q : q \in Senders(g, r) <=> q \in Int /\ t <= q /\ q <= t + c - 1
  BY <1>7, <1>8 DEF Senders
<1>12. ASSUME NEW q \in Senders(g, r) PROVE q \in Members(g)
  <2>1. q \in Int /\ t <= q /\ q <= t + c - 1
    BY <1>11
  <2>2. CASE r < b + h
    BY <1>2, <1>3, <1>5, <1>6, <1>8, <1>9, <2>1, <2>2
  <2>3. CASE ~(r < b + h)
    BY <1>2, <1>3, <1>5, <1>6, <1>8, <1>9, <2>1, <2>3
  <2> QED BY <2>2, <2>3
<1>13. ASSUME NEW q \in Members(g) PROVE Target(g, q) = r <=> q \in Senders(g, r)
  <2>1. q \in Int /\ b <= q /\ q < b + n
    BY <1>3
  <2>2. PICK u \in Int : /\ u = Target(g, q)
                         /\ u = IF q < b + h THEN q + h ELSE IF q - h = b + h THEN b + h - 1 ELSE q - h
    BY <1>4, <2>1
  <2>3. CASE r < b + h /\ q < b + h
    BY <1>2, <1>5, <1>6, <1>8, <1>9, <1>11, <2>1, <2>2, <2>3
  <2>4. CASE r < b + h /\ ~(q < b + h) /\ n = 2 * h
    BY <1>2, <1>5, <1>6, <1>8, <1>9, <1>11, <2>1, <2>2, <2>4
  <2>5. CASE r < b + h /\ ~(q < b + h) /\ n = 2 * h + 1
    BY <1>2, <1>5, <1>6, <1>8, <1>9, <1>11, <2>1, <2>2, <2>5
  <2>6. CASE ~(r < b + h) /\ q < b + h
    BY <1>2, <1>5, <1>6, <1>8, <1>9, <1>11, <2>1, <2>2, <2>6
  <2>7. CASE ~(r < b + h) /\ ~(q < b + h)
    BY <1>2, <1>5, <1>6, <1>8, <1>9, <1>11, <2>1, <2>2, <2>7
  <2> QED BY <1>2, <2>3, <2>4, <2>5, <2>6, <2>7
<1> QED BY <1>7, <1>10, <1>12, <1>13

\* A half is a smaller group; it has the members of the group that are on its side.
LEMMA HalfFacts ==
  ASSUME N \in Nat, NEW g \in Group, g[2] > 1, NEW r \in Members(g)
  PROVE  /\ Half(g, r) \in Group /\ Half(g, r)[2] < g[2]
         /\ \A q : q \in Members(Half(g, r)) <=> q \in Members(g) /\ (q < Mid(g) <=> r < Mid(g))
         /\ \A q \in Members(g) : (q < Mid(g) <=> r < Mid(g)) => Half(g, q) = Half(g, r)
<1>1. PICK b \in Nat, n \in Nat : g = <<b, n>> /\ g[1] = b /\ g[2] = n /\ b + n <= N /\ n > 1
  BY DEF Group
<1>2. PICK h \in Nat : h = n \div 2 /\ h > 0 /\ h < n
  BY <1>1
<1>3. Mid(g) = b + h /\ Members(g) = b .. b + n - 1
  BY <1>1, <1>2 DEF Mid, Members
<1>4. ASSUME NEW q PROVE Half(g, q) = IF q < b + h THEN <<b, h>> ELSE <<b + h, n - h>>
  BY <1>1, <1>2, <1>3 DEF Half
<1>5. <<b, h>> \in Group /\ <<b + h, n - h>> \in Group
  BY <1>1, <1>2 DEF Group
<1>6. Members(<<b, h>>) = b .. b + h - 1 /\ Members(<<b + h, n - h>>) = b + h .. b + n - 1
  BY <1>1, <1>2 DEF Members
<1>7. r \in Int
  BY <1>3
<1>8. Half(g, r) \in Group /\ Half(g, r)[2] < g[2]
  BY <1>1, <1>2, <1>4, <1>5
<1>9. \A q : q \in Members(Half(g, r)) <=> q \in Members(g) /\ (q < Mid(g) <=> r < Mid(g))
  <2>1. CASE r < b + h
    <3>1. Members(Half(g, r)) = b .. b + h - 1
      BY <1>4, <1>6, <2>1
    <3> QED BY <1>1, <1>2, <1>3, <2>1, <3>1
  <2>2. CASE ~(r < b + h)
    <3>1. Members(Half(g, r)) = b + h .. b + n - 1
      BY <1>4, <1>6, <2>2
    <3> QED BY <1>1, <1>2, <1>3, <2>2, <3>1
  <2> QED BY <2>1, <2>2
<1>10. \A q \in Members(g) : (q < Mid(g) <=> r < Mid(g)) => Half(g, q) = Half(g, r)
  BY <1>3, <1>4
<1> QED BY <1>8, <1>9, <1>10

\* T[k][r] is the group of rank r after k stages.
IsTree(T) ==
  /\ T \in [0 .. N -> [Ranks -> Nat \X Nat]]
  /\ T[0] = [r \in Ranks |-> <<0, N>>]
  /\ \A k \in 0 .. N - 1 : T[k + 1] = [r \in Ranks |-> Half(T[k][r], r)]
Tree == CHOOSE T : IsTree(T)

\* The tree depends on the setup only.
LEMMA TreeSame == ASSUME setup' = setup PROVE Tree' = Tree
<1>1. N' = N
  BY DEF N
<1> QED BY <1>1 DEF Tree, IsTree, Ranks, Half

\* The type of a half.
LEMMA HalfTyped ==
  ASSUME NEW g \in Nat \X Nat, NEW r
  PROVE  Half(g, r) \in Nat \X Nat
<1>1. PICK b \in Nat, n \in Nat : g = <<b, n>> /\ g[1] = b /\ g[2] = n
  OBVIOUS
<1>2. PICK h \in Nat : h = n \div 2 /\ h <= n
  BY <1>1
<1>3. Half(g, r) = IF n <= 1 THEN g ELSE IF r < b + h THEN <<b, h>> ELSE <<b + h, n - h>>
  BY <1>1, <1>2 DEF Half, Mid
<1>4. <<b, h>> \in Nat \X Nat /\ <<b + h, n - h>> \in Nat \X Nat
  BY <1>1, <1>2
<1> QED BY <1>3, <1>4

\* There is such a function.
LEMMA TreeExists ==
  ASSUME setup \in Setups
  PROVE  IsTree(Tree)
<1>1. N \in Nat
  BY SizeType
<1>2. PICK X : X = [Ranks -> Nat \X Nat]
  OBVIOUS
<1> DEFINE x == [r \in Ranks |-> <<0, N>>]
           step == [p \in Nat \X X |-> [r \in Ranks |-> Half(p[2][r], r)]]
<1>3. x \in X
  BY <1>1, <1>2
<1>4. step \in [Nat \X X -> X]
  <2>1. ASSUME NEW p \in Nat \X X PROVE [r \in Ranks |-> Half(p[2][r], r)] \in X
    <3>1. ASSUME NEW r \in Ranks PROVE Half(p[2][r], r) \in Nat \X Nat
      <4>1. p[2] \in [Ranks -> Nat \X Nat]
        BY <1>2
      <4> QED BY <4>1, HalfTyped
    <3> QED BY <1>2, <3>1
  <2> QED BY <2>1
<1>5. PICK f \in [0 .. N -> X] : Iteration(f, x, step, N)
  <2> HIDE DEF x, step
  <2> QED BY <1>1, <1>3, <1>4, Iterates
<1>6. ASSUME NEW k \in 0 .. N - 1 PROVE f[k + 1] = [r \in Ranks |-> Half(f[k][r], r)]
  <2>1. k \in Nat /\ k \in 0 .. N
    BY <1>1
  <2>2. f[k] \in X /\ <<k, f[k]>> \in Nat \X X
    BY <1>5, <2>1
  <2>3. f[k + 1] = step[<<k, f[k]>>]
    BY <1>5, <1>6 DEF Iteration
  <2> QED BY <2>2, <2>3
<1>7. f[0] = x
  BY <1>5 DEF Iteration
<1>8. IsTree(f)
  <2>1. f \in [0 .. N -> [Ranks -> Nat \X Nat]]
    BY <1>2, <1>5
  <2> QED BY <1>6, <1>7, <2>1 DEF IsTree
<1> QED BY <1>8 DEF Tree

\* The group of rank r at level k; it is one of all its members.
G(k, r) == Tree[k][r]
TreeAt(k) ==
  \A r \in Ranks :
    /\ G(k, r) \in Group /\ r \in Members(G(k, r))
    /\ G(k, r)[2] <= 1 \/ G(k, r)[2] <= N - k
    /\ \A q \in Members(G(k, r)) : q \in Ranks /\ G(k, q) = G(k, r)

\* One level after the other.
LEMMA TreeNext ==
  ASSUME setup \in Setups, NEW k \in 0 .. N - 1, NEW r \in Ranks
  PROVE  G(k + 1, r) = Half(G(k, r), r)
<1>1. IsTree(Tree)
  BY TreeExists
<1>2. Tree[k + 1] = [q \in Ranks |-> Half(Tree[k][q], q)]
  BY <1>1 DEF IsTree
<1> QED BY <1>2 DEF G

\* The members of a group are ranks; one of size 1 has one.
LEMMA GroupMembers ==
  ASSUME NEW g \in Group, N \in Nat
  PROVE  /\ \A q \in Members(g) : q \in Ranks
         /\ g[2] <= 1 => g[2] = 1 /\ \A q, r \in Members(g) : q = r
         /\ g \in Nat \X Nat /\ g[2] \in Nat /\ g[1] \in Nat
<1>1. PICK b \in Nat, n \in Nat : g = <<b, n>> /\ g[1] = b /\ g[2] = n /\ b + n <= N /\ n > 0
  BY DEF Group
<1> QED BY <1>1 DEF Members, Ranks

\* At every stage the groups are intervals that make up the communicator.
LEMMA TreeOK ==
  ASSUME setup \in Setups
  PROVE  \A k \in 0 .. N : TreeAt(k)
<1>1. N \in Nat /\ N > 1
  BY SizeType
<1>2. IsTree(Tree)
  BY TreeExists
<1> DEFINE S == {k \in Nat : k <= N => TreeAt(k)}
<1>3. 0 \in S
  <2>1. ASSUME NEW r \in Ranks PROVE G(0, r) = <<0, N>>
    BY <1>2 DEF IsTree, G
  <2>2. <<0, N>> \in Group /\ Members(<<0, N>>) = Ranks
    BY <1>1 DEF Group, Members, Ranks
  <2>3. <<0, N>>[2] <= N - 0
    BY <1>1
  <2>4. TreeAt(0)
    BY <2>1, <2>2, <2>3 DEF TreeAt
  <2> QED BY <2>4
<1>4. ASSUME NEW k \in Nat, k \in S PROVE k + 1 \in S
  <2> SUFFICES ASSUME k + 1 <= N PROVE TreeAt(k + 1)
    OBVIOUS
  <2>1. k \in 0 .. N - 1 /\ TreeAt(k)
    BY <1>1, <1>4
  <2> SUFFICES ASSUME NEW r \in Ranks
               PROVE  /\ G(k + 1, r) \in Group /\ r \in Members(G(k + 1, r))
                      /\ G(k + 1, r)[2] <= 1 \/ G(k + 1, r)[2] <= N - (k + 1)
                      /\ \A q \in Members(G(k + 1, r)) : q \in Ranks /\ G(k + 1, q) = G(k + 1, r)
    BY DEF TreeAt
  <2>2. PICK g \in Group : g = G(k, r)
    BY <2>1 DEF TreeAt
  <2>3. /\ r \in Members(g)
        /\ g[2] <= 1 \/ g[2] <= N - k
        /\ \A q \in Members(g) : q \in Ranks /\ G(k, q) = g
    BY <2>1, <2>2 DEF TreeAt
  <2>4. \A q \in Members(g) : G(k + 1, q) = Half(g, q)
    BY <2>1, <2>3, TreeNext
  <2>5. CASE g[2] <= 1
    <3>1. \A q : Half(g, q) = g
      BY <2>5 DEF Half
    <3> QED BY <2>3, <2>4, <2>5, <3>1
  <2>6. CASE ~(g[2] <= 1)
    <3>1. g[2] \in Nat /\ g[2] > 1
      BY <1>1, <2>6, GroupMembers
    <3>2. /\ Half(g, r) \in Group /\ Half(g, r)[2] < g[2]
          /\ \A q : q \in Members(Half(g, r)) <=> q \in Members(g) /\ (q < Mid(g) <=> r < Mid(g))
          /\ \A q \in Members(g) : (q < Mid(g) <=> r < Mid(g)) => Half(g, q) = Half(g, r)
      BY <1>1, <2>3, <3>1, HalfFacts
    <3>3. Half(g, r)[2] \in Nat
      BY <1>1, <3>2, GroupMembers
    <3>4. Half(g, r)[2] <= N - (k + 1)
      BY <1>1, <2>3, <3>1, <3>2, <3>3
    <3> QED BY <2>3, <2>4, <3>2, <3>4
  <2> QED BY <2>5, <2>6
<1>5. Nat \subseteq S
  <2> HIDE DEF S
  <2> QED BY <1>3, <1>4, Induction
<1> QED BY <1>1, <1>5

\* In the end a rank is alone.
LEMMA TreeEnd ==
  ASSUME setup \in Setups, NEW r \in Ranks
  PROVE  G(N, r)[2] = 1
<1>1. N \in Nat /\ N > 1
  BY SizeType
<1>2. N \in 0 .. N
  BY <1>1
<1>3. TreeAt(N)
  BY <1>2, TreeOK
<1>4. G(N, r) \in Group /\ (G(N, r)[2] <= 1 \/ G(N, r)[2] <= N - N)
  BY <1>3 DEF TreeAt
<1>5. G(N, r)[2] \in Nat
  BY <1>1, <1>4, GroupMembers
<1>6. G(N, r)[2] <= 1
  BY <1>1, <1>4, <1>5
<1> QED BY <1>1, <1>4, <1>6, GroupMembers

\* What TreeOK says of one rank.
LEMMA RankGroup ==
  ASSUME setup \in Setups, NEW k \in 0 .. N, NEW r \in Ranks
  PROVE  /\ G(k, r) \in Group /\ G(k, r) \in Nat \X Nat /\ r \in Members(G(k, r))
         /\ G(k, r)[1] \in Nat /\ G(k, r)[2] \in Nat
         /\ \A q \in Members(G(k, r)) : q \in Ranks /\ G(k, q) = G(k, r)
         /\ G(k, r)[2] <= 1 => G(k, r)[2] = 1 /\ \A q \in Members(G(k, r)) : q = r
<1>1. N \in Nat /\ TreeAt(k)
  BY SizeType, TreeOK
<1>2. /\ G(k, r) \in Group /\ r \in Members(G(k, r))
      /\ \A q \in Members(G(k, r)) : q \in Ranks /\ G(k, q) = G(k, r)
  BY <1>1 DEF TreeAt
<1> QED BY <1>1, <1>2, GroupMembers

\* A rank of a group of several goes on in its half, with the members of its side.
LEMMA RankHalf ==
  ASSUME setup \in Setups, NEW k \in 0 .. N - 1, NEW r \in Ranks, G(k, r)[2] > 1
  PROVE  \A q : q \in Members(G(k + 1, r)) <=>
                q \in Members(G(k, r)) /\ (q < Mid(G(k, r)) <=> r < Mid(G(k, r)))
<1>1. N \in Nat /\ k \in 0 .. N
  BY SizeType
<1>2. G(k, r) \in Group /\ r \in Members(G(k, r))
  BY <1>1, RankGroup
<1>3. G(k + 1, r) = Half(G(k, r), r)
  BY TreeNext
<1> QED BY <1>1, <1>2, <1>3, HalfFacts

\* Once alone, a rank stays so.
LEMMA TreeStable ==
  ASSUME setup \in Setups, NEW k \in 0 .. N, NEW r \in Ranks, G(k, r)[2] <= 1,
         NEW j \in k .. N
  PROVE  G(j, r) = G(k, r)
<1>1. N \in Nat /\ k \in Nat /\ j \in Nat
  BY SizeType
<1> DEFINE S == {i \in Nat : k <= i /\ i <= N => G(i, r) = G(k, r)}
<1>2. 0 \in S
  <2>1. 0 >= k => k = 0
    BY <1>1
  <2> QED BY <2>1
<1>3. ASSUME NEW i \in Nat, i \in S PROVE i + 1 \in S
  <2> SUFFICES ASSUME k <= i + 1, i + 1 <= N PROVE G(i + 1, r) = G(k, r)
    OBVIOUS
  <2>1. CASE k = i + 1
    BY <2>1
  <2>2. CASE k # i + 1
    <3>1. k <= i /\ i <= N /\ i \in 0 .. N - 1
      BY <1>1, <2>2
    <3>2. G(i, r) = G(k, r) /\ G(i + 1, r) = Half(G(i, r), r)
      BY <1>3, <3>1, TreeNext
    <3> QED BY <3>2 DEF Half
  <2> QED BY <2>1, <2>2
<1>4. j \in S
  <2> HIDE DEF S
  <2>1. Nat \subseteq S
    BY <1>2, <1>3, Induction
  <2> QED BY <1>1, <2>1
<1> QED BY <1>1, <1>4

\* Groups shrink.
LEMMA TreeNested ==
  ASSUME setup \in Setups, NEW k \in 0 .. N, NEW r \in Ranks, NEW j \in k .. N
  PROVE  Members(G(j, r)) \subseteq Members(G(k, r))
<1>1. N \in Nat /\ k \in Nat /\ j \in Nat
  BY SizeType
<1> DEFINE S == {i \in Nat : k <= i /\ i <= N => Members(G(i, r)) \subseteq Members(G(k, r))}
<1>2. 0 \in S
  <2>1. 0 >= k => k = 0
    BY <1>1
  <2> QED BY <2>1
<1>3. ASSUME NEW i \in Nat, i \in S PROVE i + 1 \in S
  <2> SUFFICES ASSUME k <= i + 1, i + 1 <= N
               PROVE  Members(G(i + 1, r)) \subseteq Members(G(k, r))
    OBVIOUS
  <2>1. CASE k = i + 1
    BY <2>1
  <2>2. CASE k # i + 1
    <3>1. k <= i /\ i <= N /\ i \in 0 .. N - 1 /\ i \in 0 .. N
      BY <1>1, <2>2
    <3>2. Members(G(i, r)) \subseteq Members(G(k, r))
      BY <1>3, <3>1
    <3>3. Members(G(i + 1, r)) \subseteq Members(G(i, r))
      <4>1. CASE G(i, r)[2] > 1
        BY <3>1, <4>1, RankHalf
      <4>2. CASE ~(G(i, r)[2] > 1)
        <5>1. G(i, r)[2] \in Nat
          BY <3>1, RankGroup
        <5>2. G(i, r)[2] <= 1
          BY <4>2, <5>1
        <5>3. G(i + 1, r) = Half(G(i, r), r)
          BY <3>1, TreeNext
        <5> QED BY <5>2, <5>3 DEF Half
      <4> QED BY <4>1, <4>2
    <3> QED BY <3>2, <3>3
  <2> QED BY <2>1, <2>2
<1>4. j \in S
  <2> HIDE DEF S
  <2>1. Nat \subseteq S
    BY <1>2, <1>3, Induction
  <2> QED BY <1>1, <2>1
<1> QED BY <1>1, <1>4

-------------------------------------------------------------------------------
\* Rank q sends to rank r at level k.
Link(k, q, r) == G(k, q)[2] > 1 /\ r = Target(G(k, q), q)

\* The rank that q sends to is in the other half of its group, and expects it.
LEMMA LinkTo ==
  ASSUME setup \in Setups, NEW k \in 0 .. N, NEW q \in Ranks, NEW r, Link(k, q, r)
  PROVE  /\ r \in Ranks /\ G(k, r) = G(k, q) /\ G(k, r)[2] > 1 /\ r \in Members(G(k, q))
         /\ q \in Senders(G(k, r), r) /\ (r < Mid(G(k, q)) <=> ~(q < Mid(G(k, q))))
<1>1. /\ G(k, q) \in Nat \X Nat /\ q \in Members(G(k, q))
      /\ \A p \in Members(G(k, q)) : p \in Ranks /\ G(k, p) = G(k, q)
  BY RankGroup
<1>2. G(k, q)[2] > 1 /\ r = Target(G(k, q), q)
  BY DEF Link
<1>3. r \in Members(G(k, q)) /\ (r < Mid(G(k, q)) <=> ~(q < Mid(G(k, q))))
  BY <1>1, <1>2, PartnersMatch
<1>4. q \in Senders(G(k, q), r)
  BY <1>1, <1>2, <1>3, PartnersMatch
<1> QED BY <1>1, <1>2, <1>3, <1>4

\* Those that it expects are in the other half, and send to it.
LEMMA LinkFrom ==
  ASSUME setup \in Setups, NEW k \in 0 .. N, NEW r \in Ranks, G(k, r)[2] > 1,
         NEW q \in Senders(G(k, r), r)
  PROVE  /\ q \in Ranks /\ G(k, q) = G(k, r) /\ Link(k, q, r) /\ q \in Members(G(k, r))
         /\ (r < Mid(G(k, r)) <=> ~(q < Mid(G(k, r))))
<1>1. /\ G(k, r) \in Nat \X Nat /\ r \in Members(G(k, r))
      /\ \A p \in Members(G(k, r)) : p \in Ranks /\ G(k, p) = G(k, r)
  BY RankGroup
<1>2. q \in Members(G(k, r))
  BY <1>1, PartnersMatch
<1>3. q \in Ranks /\ G(k, q) = G(k, r) /\ Target(G(k, r), q) = r
  BY <1>1, <1>2, PartnersMatch
<1>4. r < Mid(G(k, r)) <=> ~(q < Mid(G(k, r)))
  BY <1>1, <1>2, <1>3, PartnersMatch
<1> QED BY <1>2, <1>3, <1>4 DEF Link

\* Two ranks meet once.
LEMMA LinkBefore ==
  ASSUME setup \in Setups, NEW k \in 0 .. N - 1, NEW j \in 0 .. N - 1, NEW q \in Ranks, NEW r,
         Link(k, q, r), Link(j, q, r)
  PROVE  ~(k < j)
<1> SUFFICES ASSUME k < j PROVE FALSE
  OBVIOUS
<1>1. N \in Nat /\ k \in 0 .. N /\ j \in 0 .. N /\ k + 1 \in 0 .. N /\ j \in k + 1 .. N
  BY SizeType
<1>2. r \in Members(G(j, q))
  BY <1>1, LinkTo
<1>3. r \in Members(G(k + 1, q))
  BY <1>1, <1>2, TreeNested
<1>4. G(k, q)[2] > 1 /\ (r < Mid(G(k, q)) <=> ~(q < Mid(G(k, q))))
  BY <1>1, LinkTo DEF Link
<1> QED BY <1>3, <1>4, RankHalf

\* Two ranks exchange at one stage only.
LEMMA LinkOnce ==
  ASSUME setup \in Setups, NEW k \in 0 .. N - 1, NEW j \in 0 .. N - 1, NEW q \in Ranks, NEW r,
         Link(k, q, r), Link(j, q, r)
  PROVE  k = j
<1>1. ~(k < j) /\ ~(j < k)
  BY LinkBefore
<1>2. N \in Nat
  BY SizeType
<1> QED BY <1>1, <1>2

-------------------------------------------------------------------------------
(* Contents: where elements are after each stage, and in which order.        *)
\* T[k][r] holds the ranks whose elements, after k stages, are in rank r if they are for
\* a rank of its group.
Joined(k, x, r) ==
  IF G(k, r)[2] <= 1 THEN x[r]
  ELSE x[r] \cup UNION {x[q] : q \in Senders(G(k, r), r)}
IsOrigins(T) ==
  /\ T \in [0 .. N -> [Ranks -> SUBSET Ranks]]
  /\ T[0] = [r \in Ranks |-> {r}]
  /\ \A k \in 0 .. N - 1 : T[k + 1] = [r \in Ranks |-> Joined(k, T[k], r)]
Origins == CHOOSE T : IsOrigins(T)
Src(k, r) == Origins[k][r]

\* The origins depend on the setup only.
LEMMA OriginsSame == ASSUME setup' = setup PROVE Origins' = Origins
<1>1. N' = N
  BY DEF N
<1>2. Tree' = Tree
  BY TreeSame
<1> QED BY <1>1, <1>2 DEF Origins, IsOrigins, Joined, G, Ranks, Senders, Target, Mid, Count

\* There is such a function.
LEMMA OriginsExist ==
  ASSUME setup \in Setups
  PROVE  IsOrigins(Origins)
<1>1. N \in Nat
  BY SizeType
<1>2. PICK X : X = [Ranks -> SUBSET Ranks]
  OBVIOUS
<1> DEFINE x == [r \in Ranks |-> {r}]
           step == [p \in Nat \X X |->
                      IF p[1] \in 0 .. N - 1 THEN [r \in Ranks |-> Joined(p[1], p[2], r)] ELSE p[2]]
<1>3. x \in X
  BY <1>1, <1>2
<1>4. step \in [Nat \X X -> X]
  <2>1. ASSUME NEW p \in Nat \X X, p[1] \in 0 .. N - 1
        PROVE  [r \in Ranks |-> Joined(p[1], p[2], r)] \in X
    <3>1. ASSUME NEW r \in Ranks PROVE Joined(p[1], p[2], r) \in SUBSET Ranks
      <4>1. p[2] \in [Ranks -> SUBSET Ranks] /\ p[1] \in 0 .. N
        BY <1>1, <1>2, <2>1
      <4>2. G(p[1], r)[2] \in Nat
        BY <4>1, RankGroup
      <4>3. G(p[1], r)[2] > 1 => \A q \in Senders(G(p[1], r), r) : q \in Ranks
        BY <4>1, LinkFrom
      <4> QED BY <4>1, <4>2, <4>3 DEF Joined
    <3> QED BY <1>2, <3>1
  <2> QED BY <2>1
<1>5. PICK f \in [0 .. N -> X] : Iteration(f, x, step, N)
  <2> HIDE DEF x, step
  <2> QED BY <1>1, <1>3, <1>4, Iterates
<1>6. ASSUME NEW k \in 0 .. N - 1 PROVE f[k + 1] = [r \in Ranks |-> Joined(k, f[k], r)]
  <2>1. k \in Nat /\ k \in 0 .. N
    BY <1>1
  <2>2. f[k] \in X /\ <<k, f[k]>> \in Nat \X X
    BY <1>5, <2>1
  <2>3. f[k + 1] = step[<<k, f[k]>>]
    BY <1>5, <1>6 DEF Iteration
  <2> QED BY <2>2, <2>3
<1>7. f[0] = x
  BY <1>5 DEF Iteration
<1>8. IsOrigins(f)
  <2>1. f \in [0 .. N -> [Ranks -> SUBSET Ranks]]
    BY <1>2, <1>5
  <2> QED BY <1>6, <1>7, <2>1 DEF IsOrigins
<1> QED BY <1>8 DEF Origins

\* The origins of what a rank holds at the start, and from a stage to the next.
LEMMA SrcTyped ==
  ASSUME setup \in Setups, NEW r \in Ranks
  PROVE  /\ \A k \in 0 .. N : Src(k, r) \subseteq Ranks
         /\ Src(0, r) = {r}
         /\ \A k \in 0 .. N - 1 : Src(k + 1, r) = Joined(k, Origins[k], r)
  BY OriginsExist DEF IsOrigins, Src

\* After a stage of a group, those of its senders come in addition to its own.
LEMMA SrcNext ==
  ASSUME setup \in Setups, NEW k \in 0 .. N - 1, NEW r \in Ranks
  PROVE  /\ G(k, r)[2] <= 1 => Src(k + 1, r) = Src(k, r)
         /\ G(k, r)[2] > 1 => \A p : p \in Src(k + 1, r) <=>
              p \in Src(k, r) \/ \E q \in Senders(G(k, r), r) : p \in Src(k, q)
<1>1. Src(k + 1, r) = Joined(k, Origins[k], r)
  BY SrcTyped
<1>2. N \in Nat /\ k \in 0 .. N
  BY SizeType
<1>3. G(k, r)[2] \in Nat
  BY <1>2, RankGroup
<1> QED BY <1>1, <1>3 DEF Joined, Src

\* In each group, one rank has what rank p gave.
Partitioned(k) ==
  \A r, p \in Ranks : \E m \in Members(G(k, r)) :
    \A q \in Members(G(k, r)) : p \in Src(k, q) <=> q = m

\* In each group, exactly one rank holds what comes from a given rank for the group.
LEMMA SrcPartition ==
  ASSUME setup \in Setups
  PROVE  \A k \in 0 .. N : Partitioned(k)
<1>1. N \in Nat /\ N > 1
  BY SizeType
<1> DEFINE S == {k \in Nat : k <= N => Partitioned(k)}
<1>2. 0 \in S
  <2>1. ASSUME NEW r \in Ranks, NEW p \in Ranks
        PROVE  \E m \in Members(G(0, r)) : \A q \in Members(G(0, r)) : p \in Src(0, q) <=> q = m
    <3>1. 0 \in 0 .. N
      BY <1>1
    <3>2. \A q \in Members(G(0, r)) : q \in Ranks
      BY <3>1, RankGroup
    <3>3. p \in Members(G(0, r))
      <4>1. Tree[0] = [q \in Ranks |-> <<0, N>>]
        BY TreeExists DEF IsTree
      <4>2. G(0, r) = <<0, N>>
        BY <4>1 DEF G
      <4> QED BY <1>1, <4>2 DEF Members, Ranks
    <3>4. \A q \in Members(G(0, r)) : Src(0, q) = {q}
      BY <3>2, SrcTyped
    <3> QED BY <3>3, <3>4
  <2> QED BY <2>1 DEF Partitioned
<1>3. ASSUME NEW k \in Nat, k \in S PROVE k + 1 \in S
  <2> SUFFICES ASSUME k + 1 <= N PROVE Partitioned(k + 1)
    OBVIOUS
  <2>1. k \in 0 .. N - 1 /\ k \in 0 .. N /\ k + 1 \in 0 .. N /\ Partitioned(k)
    BY <1>1, <1>3
  <2> SUFFICES ASSUME NEW r \in Ranks, NEW p \in Ranks
               PROVE  \E m \in Members(G(k + 1, r)) :
                        \A q \in Members(G(k + 1, r)) : p \in Src(k + 1, q) <=> q = m
    BY DEF Partitioned
  <2>2. PICK m \in Members(G(k, r)) : \A q \in Members(G(k, r)) : p \in Src(k, q) <=> q = m
    BY <2>1 DEF Partitioned
  <2>3. /\ \A q \in Members(G(k, r)) : q \in Ranks /\ G(k, q) = G(k, r)
        /\ r \in Members(G(k, r)) /\ G(k, r)[2] \in Nat
    BY <2>1, RankGroup
  <2>4. \A q \in Members(G(k + 1, r)) : q \in Ranks
    BY <2>1, RankGroup
  <2>5. CASE G(k, r)[2] <= 1
    <3>1. G(k + 1, r) = G(k, r)
      BY <2>1, <2>5, TreeNext DEF Half
    <3>2. \A q \in Members(G(k, r)) : Src(k + 1, q) = Src(k, q)
      BY <2>1, <2>3, <2>5, SrcNext
    <3> QED BY <2>2, <3>1, <3>2
  <2>6. CASE G(k, r)[2] > 1
    <3> DEFINE g == G(k, r)  h == G(k + 1, r)
               Low(q) == q < Mid(g)
    <3>1. \A q : q \in Members(h) <=> q \in Members(g) /\ (Low(q) <=> Low(r))
      BY <2>1, <2>6, RankHalf
    <3>2. \A q \in Members(g) : \A s : s \in Src(k + 1, q) <=>
            s \in Src(k, q) \/ \E t \in Senders(g, q) : s \in Src(k, t)
      BY <2>1, <2>3, <2>6, SrcNext
    <3>3. \A q \in Members(g) : \A t \in Senders(g, q) :
            t \in Members(g) /\ Link(k, t, q) /\ (Low(q) <=> ~Low(t))
      <4>1. ASSUME NEW q \in Members(g), NEW t \in Senders(g, q)
            PROVE  t \in Members(g) /\ Link(k, t, q) /\ (Low(q) <=> ~Low(t))
        <5>1. q \in Ranks /\ G(k, q) = g /\ t \in Senders(G(k, q), q) /\ G(k, q)[2] > 1
          BY <2>3, <2>6
        <5> HIDE DEF g
        <5>2. t \in Members(G(k, q)) /\ Link(k, t, q) /\ (q < Mid(G(k, q)) <=> ~(t < Mid(G(k, q))))
          BY <2>1, <5>1, LinkFrom
        <5> QED BY <5>1, <5>2
      <4> QED BY <4>1
    <3>4. m \in Members(g) /\ m \in Ranks /\ G(k, m) = g
      BY <2>3
    <3>5. CASE Low(m) <=> Low(r)
      <4>1. m \in Members(h)
        BY <3>1, <3>4, <3>5
      <4>2. ASSUME NEW q \in Members(h) PROVE p \in Src(k + 1, q) <=> q = m
        <5>1. q \in Members(g) /\ (Low(q) <=> Low(m))
          BY <3>1, <3>5
        <5>2. \A t \in Senders(g, q) : t # m /\ t \in Members(g)
          BY <3>3, <5>1
        <5> HIDE DEF g, h
        <5> QED BY <2>2, <3>2, <5>1, <5>2 DEF g
      <4> QED BY <4>1, <4>2
    <3>6. CASE ~(Low(m) <=> Low(r))
      <4>1. PICK t : t = Target(g, m)
        OBVIOUS
      <4>2. Link(k, m, t)
        BY <2>6, <3>4, <4>1 DEF Link
      <4>3. /\ t \in Ranks /\ G(k, t) = g /\ t \in Members(g) /\ m \in Senders(g, t)
            /\ (Low(t) <=> ~Low(m))
        BY <2>1, <3>4, <4>2, LinkTo
      <4>4. t \in Members(h)
        BY <3>1, <3>6, <4>3
      <4>5. ASSUME NEW q \in Members(h) PROVE p \in Src(k + 1, q) <=> q = t
        <5>1. q \in Members(g) /\ (Low(q) <=> ~Low(m)) /\ q # m
          BY <3>1, <3>6
        <5>2. \A s \in Senders(g, q) : s \in Members(g) /\ (s = m => q = t)
          BY <3>3, <3>4, <4>1, <5>1 DEF Link
        <5> HIDE DEF g, h
        <5> QED BY <2>2, <3>2, <4>3, <5>1, <5>2 DEF g
      <4> QED BY <4>4, <4>5
    <3> QED BY <3>5, <3>6
  <2> QED BY <2>3, <2>5, <2>6
<1>4. Nat \subseteq S
  <2> HIDE DEF S
  <2> QED BY <1>2, <1>3, Induction
<1> QED BY <1>1, <1>4

\* In particular, a rank that is alone has something of every rank.
LEMMA SrcAll ==
  ASSUME setup \in Setups, NEW k \in 0 .. N, NEW r \in Ranks, G(k, r)[2] <= 1
  PROVE  Src(k, r) = Ranks
<1>1. Partitioned(k) /\ r \in Members(G(k, r)) /\ \A q \in Members(G(k, r)) : q = r
  BY RankGroup, SrcPartition
<1>2. \A p \in Ranks : p \in Src(k, r)
  BY <1>1 DEF Partitioned
<1> QED BY <1>2, SrcTyped

\* A rank keeps what it has of the others.
LEMMA SrcGrows ==
  ASSUME setup \in Setups, NEW k \in 0 .. N, NEW r \in Ranks, NEW j \in k .. N
  PROVE  Src(k, r) \subseteq Src(j, r)
<1>1. N \in Nat /\ k \in Nat /\ j \in Nat
  BY SizeType
<1> DEFINE S == {i \in Nat : k <= i /\ i <= N => Src(k, r) \subseteq Src(i, r)}
<1>2. 0 \in S
  <2>1. 0 >= k => k = 0
    BY <1>1
  <2> QED BY <2>1
<1>3. ASSUME NEW i \in Nat, i \in S PROVE i + 1 \in S
  <2> SUFFICES ASSUME k <= i + 1, i + 1 <= N PROVE Src(k, r) \subseteq Src(i + 1, r)
    OBVIOUS
  <2>1. CASE k = i + 1
    BY <2>1
  <2>2. CASE k # i + 1
    <3>1. k <= i /\ i <= N /\ i \in 0 .. N - 1 /\ i \in 0 .. N
      BY <1>1, <2>2
    <3>2. Src(k, r) \subseteq Src(i, r) /\ G(i, r)[2] \in Nat
      BY <1>3, <3>1, RankGroup
    <3> QED BY <3>1, <3>2, SrcNext
  <2> QED BY <2>1, <2>2
<1>4. j \in S
  <2> HIDE DEF S
  <2>1. Nat \subseteq S
    BY <1>2, <1>3, Induction
  <2> QED BY <1>1, <2>1
<1> QED BY <1>1, <1>4

\* What rank r of group g keeps of s, and what it sends.
Side(g, r, e) == e.dest < Mid(g) <=> r < Mid(g)
Keep(g, s, r) == Select(s, {e \in Range(s) : Side(g, r, e)})
Away(g, s, r) == Select(s, {e \in Range(s) : ~Side(g, r, e)})

\* What it holds after stage k, when x[q] is what each rank q held before it.
Sent(g, x, r) ==
  [i \in 1 .. Count(g, r) |-> Away(g, x[Target(g, r) + i - 1], Target(g, r) + i - 1)]
Routed(k, x, r) ==
  IF G(k, r)[2] <= 1 THEN x[r]
  ELSE Cat(Keep(G(k, r), x[r], r), FlattenSeq(Sent(G(k, r), x, r)))

IsFlow(h, in, E) ==
  /\ h \in [0 .. N -> [Ranks -> Seq(E)]]
  /\ h[0] = in
  /\ \A k \in 0 .. N - 1 : h[k + 1] = [r \in Ranks |-> Routed(k, h[k], r)]
Flow(in, E) == CHOOSE h : IsFlow(h, in, E)

\* The elements on the side of rank r in its group, and the others.
OnSide(E, g, r) == {e \in E : Side(g, r, e)}
OffSide(E, g, r) == {e \in E : ~Side(g, r, e)}

\* What is kept and what is sent, as selections.
LEMMA KeepAway ==
  ASSUME NEW E, NEW s \in Seq(E), NEW g, NEW r
  PROVE  /\ Keep(g, s, r) \in Seq(E) /\ Away(g, s, r) \in Seq(E)
         /\ Keep(g, s, r) = Select(s, OnSide(E, g, r))
         /\ Away(g, s, r) = Select(s, OffSide(E, g, r))
         /\ Len(Keep(g, s, r)) <= Len(s) /\ Len(Away(g, s, r)) <= Len(s)
<1>1. PICK R : R = Range(s)
  OBVIOUS
<1>2. s \in Seq(R) /\ R \subseteq E
  <2>1. \A i \in 1 .. Len(s) : s[i] \in R
    BY <1>1 DEF Range
  <2>2. Len(s) \in Nat /\ DOMAIN s = 1 .. Len(s) /\ s = [i \in 1 .. Len(s) |-> s[i]]
    OBVIOUS
  <2>3. R \subseteq E
    BY <1>1, <2>2 DEF Range
  <2> QED BY <2>1, <2>2, <2>3
<1>3. Keep(g, s, r) = Select(s, OnSide(E, g, r))
  <2> DEFINE A == {e \in Range(s) : Side(g, r, e)}  B == {e \in E : Side(g, r, e)}
  <2>1. \A e \in R : e \in A <=> e \in B
    BY <1>1, <1>2
  <2>2. Select(s, A) = Select(s, B)
    <3> HIDE DEF A, B
    <3> QED BY <1>2, <2>1, SelectSame
  <2> QED BY <2>2 DEF Keep, OnSide
<1>4. Away(g, s, r) = Select(s, OffSide(E, g, r))
  <2> DEFINE A == {e \in Range(s) : ~Side(g, r, e)}  B == {e \in E : ~Side(g, r, e)}
  <2>1. \A e \in R : e \in A <=> e \in B
    BY <1>1, <1>2
  <2>2. Select(s, A) = Select(s, B)
    <3> HIDE DEF A, B
    <3> QED BY <1>2, <2>1, SelectSame
  <2> QED BY <2>2 DEF Away, OffSide
<1> QED BY <1>3, <1>4, SelectTyped

\* The ranks that rank r receives from, one after the other.
LEMMA SenderAt ==
  ASSUME setup \in Setups, NEW k \in 0 .. N, NEW r \in Ranks, G(k, r)[2] > 1
  PROVE  /\ Count(G(k, r), r) \in 0 .. 2 /\ Target(G(k, r), r) \in Int
         /\ \A i \in 1 .. Count(G(k, r), r) :
              Target(G(k, r), r) + i - 1 \in Senders(G(k, r), r)
         /\ \A q \in Senders(G(k, r), r) : /\ q \in Int
              /\ q - Target(G(k, r), r) + 1 \in 1 .. Count(G(k, r), r)
<1>1. Count(G(k, r), r) \in 0 .. 2
  BY DEF Count
<1>2. Target(G(k, r), r) \in Int
  <2>1. G(k, r) \in Nat \X Nat /\ r \in Members(G(k, r)) /\ \A q \in Members(G(k, r)) : q \in Ranks
    BY RankGroup
  <2>2. Target(G(k, r), r) \in Ranks
    BY <2>1, PartnersMatch
  <2> QED BY <2>2 DEF Ranks
<1> QED BY <1>1, <1>2 DEF Senders

\* The type of what it receives,
LEMMA SentTyped ==
  ASSUME setup \in Setups, NEW E, NEW x \in Maps(Ranks, Seq(E)), NEW k \in 0 .. N,
         NEW r \in Ranks, G(k, r)[2] > 1
  PROVE  /\ Sent(G(k, r), x, r) \in Seq(Seq(E))
         /\ Len(Sent(G(k, r), x, r)) = Count(G(k, r), r)
         /\ FlattenSeq(Sent(G(k, r), x, r)) \in Seq(E)
<1> DEFINE g == G(k, r)  c == Count(g, r)  out == Sent(g, x, r)
<1>1. PICK X : X = Seq(E)
  OBVIOUS
<1>2. c \in Nat /\ \A i \in 1 .. c : Target(g, r) + i - 1 \in Ranks
  BY SenderAt, LinkFrom
<1>3. ASSUME NEW i \in 1 .. c PROVE Away(g, x[Target(g, r) + i - 1], Target(g, r) + i - 1) \in X
  <2>1. x[Target(g, r) + i - 1] \in Seq(E)
    BY <1>2 DEF Maps
  <2> QED BY <1>1, <2>1, KeepAway
<1>4. out \in Seq(X) /\ Len(out) = c
  BY <1>2, <1>3 DEF Sent
<1>5. FlattenSeq(out) \in Seq(E)
  BY <1>1, <1>4, FlattenTyped
<1> QED BY <1>1, <1>4, <1>5

\* and of what it holds then.
LEMMA RoutedTyped ==
  ASSUME setup \in Setups, NEW E, NEW x \in Maps(Ranks, Seq(E)), NEW k \in 0 .. N - 1,
         NEW r \in Ranks
  PROVE  Routed(k, x, r) \in Seq(E)
<1>1. x[r] \in Seq(E) /\ N \in Nat /\ k \in 0 .. N
  BY SizeType DEF Maps
<1>2. G(k, r)[2] \in Nat
  BY <1>1, RankGroup
<1>3. CASE G(k, r)[2] > 1
  <2>1. FlattenSeq(Sent(G(k, r), x, r)) \in Seq(E) /\ Keep(G(k, r), x[r], r) \in Seq(E)
    BY <1>1, <1>3, SentTyped, KeepAway
  <2> QED BY <1>1, <1>2, <1>3, <2>1, CatTyped DEF Routed
<1> QED BY <1>1, <1>2, <1>3 DEF Routed

\* There is such a function.
LEMMA FlowExists ==
  ASSUME setup \in Setups, NEW E, NEW in \in Maps(Ranks, Seq(E))
  PROVE  IsFlow(Flow(in, E), in, E)
<1>1. N \in Nat
  BY SizeType
<1>2. PICK X : X = Maps(Ranks, Seq(E))
  OBVIOUS
<1> DEFINE step == [p \in Nat \X X |->
                      IF p[1] \in 0 .. N - 1 THEN [r \in Ranks |-> Routed(p[1], p[2], r)] ELSE p[2]]
<1>3. in \in X
  BY <1>2
<1>4. step \in [Nat \X X -> X]
  <2>1. ASSUME NEW p \in Nat \X X, p[1] \in 0 .. N - 1
        PROVE  [r \in Ranks |-> Routed(p[1], p[2], r)] \in X
    <3>1. ASSUME NEW r \in Ranks PROVE Routed(p[1], p[2], r) \in Seq(E)
      <4>1. PICK x \in Maps(Ranks, Seq(E)) : x = p[2]
        BY <1>2
      <4>2. PICK k \in 0 .. N - 1 : k = p[1]
        BY <2>1
      <4>3. Routed(k, x, r) \in Seq(E)
        BY RoutedTyped
      <4> QED BY <4>1, <4>2, <4>3
    <3> QED BY <1>2, <3>1 DEF Maps
  <2> QED BY <2>1
<1>5. PICK f \in [0 .. N -> X] : Iteration(f, in, step, N)
  <2> HIDE DEF step
  <2> QED BY <1>1, <1>3, <1>4, Iterates
<1>6. ASSUME NEW k \in 0 .. N - 1 PROVE f[k + 1] = [r \in Ranks |-> Routed(k, f[k], r)]
  <2>1. k \in Nat /\ k \in 0 .. N
    BY <1>1
  <2>2. f[k] \in X /\ <<k, f[k]>> \in Nat \X X
    BY <1>5, <2>1
  <2>3. f[k + 1] = step[<<k, f[k]>>]
    BY <1>5, <1>6 DEF Iteration
  <2> QED BY <2>2, <2>3
<1>7. f[0] = in
  BY <1>5 DEF Iteration
<1>8. IsFlow(f, in, E)
  <2>1. f \in [0 .. N -> [Ranks -> Seq(E)]]
    BY <1>2, <1>5 DEF Maps
  <2> QED BY <1>6, <1>7, <2>1 DEF IsFlow
<1> QED BY <1>8 DEF Flow

\* Its type, and its equations.
LEMMA FlowTyped ==
  ASSUME setup \in Setups, NEW E, NEW in, NEW h, IsFlow(h, in, E)
  PROVE  /\ \A k \in 0 .. N : h[k] \in Maps(Ranks, Seq(E)) /\ \A r \in Ranks : h[k][r] \in Seq(E)
         /\ h[0] = in
         /\ \A k \in 0 .. N - 1 : \A r \in Ranks : h[k + 1][r] = Routed(k, h[k], r)
  BY DEF IsFlow, Maps

\* A rank that is alone holds what it will hold in the end.
LEMMA FlowEnd ==
  ASSUME setup \in Setups, NEW E, NEW in, NEW h, IsFlow(h, in, E),
         NEW k \in 0 .. N, NEW r \in Ranks, G(k, r)[2] <= 1
  PROVE  h[N][r] = h[k][r]
<1>1. N \in Nat /\ k \in Nat
  BY SizeType
<1> DEFINE S == {i \in Nat : k <= i /\ i <= N => h[i][r] = h[k][r]}
<1>2. 0 \in S
  <2>1. 0 >= k => k = 0
    BY <1>1
  <2> QED BY <2>1
<1>3. ASSUME NEW i \in Nat, i \in S PROVE i + 1 \in S
  <2> SUFFICES ASSUME k <= i + 1, i + 1 <= N PROVE h[i + 1][r] = h[k][r]
    OBVIOUS
  <2>1. CASE k = i + 1
    BY <2>1
  <2>2. CASE k # i + 1
    <3>1. k <= i /\ i <= N /\ i \in 0 .. N - 1 /\ i \in k .. N
      BY <1>1, <2>2
    <3>2. h[i][r] = h[k][r] /\ h[i + 1][r] = Routed(i, h[i], r)
      BY <1>3, <3>1, FlowTyped
    <3>3. G(i, r) = G(k, r)
      BY <3>1, TreeStable
    <3> QED BY <3>2, <3>3 DEF Routed
  <2> QED BY <2>1, <2>2
<1>4. N \in S
  <2> HIDE DEF S
  <2>1. Nat \subseteq S
    BY <1>2, <1>3, Induction
  <2> QED BY <1>1, <2>1
<1> QED BY <1>1, <1>4

By(E, q) == {e \in E : e.src = q}
To(E, D) == {e \in E : e.dest \in D}

\* A sequence of elements of a set is one of any larger set.
LEMMA SeqPart ==
  ASSUME NEW S, NEW T, S \subseteq T, NEW s \in Seq(S)
  PROVE  s \in Seq(T)
  OBVIOUS

\* Selections commute.
LEMMA SelectBoth ==
  ASSUME NEW E, NEW s \in Seq(E), NEW A, NEW B
  PROVE  Select(Select(s, B), A) = Select(Select(s, A), B)
<1>1. Select(Select(s, B), A) = Select(s, B \cap A)
  BY SelectTwice
<1>2. Select(Select(s, A), B) = Select(s, A \cap B)
  BY SelectTwice
<1>3. A \cap B = B \cap A
  OBVIOUS
<1> QED BY <1>1, <1>2, <1>3

\* Of what rank q gave, rank r has the elements for its group, in their order, or none.
FlowAt(k, h, in, E) ==
  \A r, q \in Ranks :
    Select(h[k][r], By(E, q)) =
      IF q \in Src(k, r) THEN Select(in[q], To(E, Members(G(k, r)))) ELSE <<>>

\* So it is at the start,
LEMMA FlowStart ==
  ASSUME setup \in Setups, NEW E, NEW in, NEW h, IsFlow(h, in, E),
         \A e \in E : e.dest \in Ranks, \A q \in Ranks : in[q] \in Seq(By(E, q))
  PROVE  FlowAt(0, h, in, E)
<1>1. N \in Nat /\ 0 \in 0 .. N /\ h[0] = in
  BY SizeType, FlowTyped
<1> SUFFICES ASSUME NEW r \in Ranks, NEW q \in Ranks
             PROVE  Select(in[r], By(E, q)) =
                      IF q \in Src(0, r) THEN Select(in[q], To(E, Members(G(0, r)))) ELSE <<>>
  BY <1>1 DEF FlowAt
<1>2. Src(0, r) = {r}
  BY SrcTyped
<1>3. Members(G(0, r)) = Ranks
  <2>1. Tree[0] = [p \in Ranks |-> <<0, N>>]
    BY TreeExists DEF IsTree
  <2> QED BY <1>1, <2>1 DEF G, Members, Ranks
<1>4. CASE q = r
  <2>1. in[r] \in Seq(By(E, r)) /\ By(E, r) \subseteq By(E, q) /\ By(E, r) \subseteq To(E, Ranks)
    BY <1>4 DEF By, To
  <2>2. Select(in[r], By(E, q)) = in[r] /\ Select(in[r], To(E, Ranks)) = in[r]
    BY <2>1, SelectAll
  <2> QED BY <1>2, <1>3, <1>4, <2>2
<1>5. CASE q # r
  <2>1. in[r] \in Seq(By(E, r)) /\ By(E, r) \cap By(E, q) = {}
    BY <1>5 DEF By
  <2>2. Select(in[r], By(E, q)) = <<>>
    BY <2>1, SelectNone
  <2> QED BY <1>2, <1>5, <2>2
<1> QED BY <1>4, <1>5

\* and after each stage,
LEMMA FlowNext ==
  ASSUME setup \in Setups, NEW E, NEW in, NEW h, IsFlow(h, in, E),
         \A q \in Ranks : in[q] \in Seq(By(E, q)),
         NEW k \in 0 .. N - 1, FlowAt(k, h, in, E)
  PROVE  FlowAt(k + 1, h, in, E)
<1> SUFFICES ASSUME NEW r \in Ranks, NEW q \in Ranks
             PROVE  Select(h[k + 1][r], By(E, q)) =
                      IF q \in Src(k + 1, r) THEN Select(in[q], To(E, Members(G(k + 1, r)))) ELSE <<>>
  BY DEF FlowAt
<1>1. N \in Nat /\ k \in 0 .. N /\ k + 1 \in 0 .. N
  BY SizeType
<1>2. /\ h[k] \in Maps(Ranks, Seq(E)) /\ h[k + 1][r] = Routed(k, h[k], r)
      /\ \A p \in Ranks : h[k][p] \in Seq(E)
  BY <1>1, FlowTyped
<1>3. in[q] \in Seq(E)
  <2>1. By(E, q) \subseteq E
    BY DEF By
  <2> QED BY <2>1, SeqPart
<1>4. \A p \in Ranks : Select(h[k][p], By(E, q)) =
        IF q \in Src(k, p) THEN Select(in[q], To(E, Members(G(k, p)))) ELSE <<>>
  BY DEF FlowAt
<1>5. G(k, r)[2] \in Nat
  BY <1>1, RankGroup
<1>6. CASE G(k, r)[2] <= 1
  <2>1. G(k + 1, r) = G(k, r)
    BY <1>6, TreeNext DEF Half
  <2>2. Src(k + 1, r) = Src(k, r)
    BY <1>6, SrcNext
  <2>3. h[k + 1][r] = h[k][r]
    BY <1>2, <1>6 DEF Routed
  <2> QED BY <1>4, <2>1, <2>2, <2>3
<1>7. CASE G(k, r)[2] > 1
  <2> DEFINE g == G(k, r)  D == To(E, Members(G(k + 1, r)))  c == Count(g, r)
             X == Select(in[q], D)  out == Sent(g, h[k], r)  A == By(E, q)
             from(i) == Target(g, r) + i - 1
  <2>1. \A d : d \in Members(G(k + 1, r)) <=> d \in Members(g) /\ (d < Mid(g) <=> r < Mid(g))
    BY <1>7, RankHalf
  <2>2. To(E, Members(g)) \cap OnSide(E, g, r) = D
    BY <2>1 DEF To, OnSide, Side
  <2>3. /\ out \in Seq(Seq(E)) /\ Len(out) = c /\ FlattenSeq(out) \in Seq(E)
    BY <1>1, <1>2, <1>7, SentTyped
  <2>4. c \in Nat /\ \A i \in 1 .. c :
          /\ from(i) \in Ranks /\ from(i) \in Members(g) /\ from(i) \in Senders(g, r)
          /\ G(k, from(i)) = g /\ (r < Mid(g) <=> ~(from(i) < Mid(g)))
    <3>1. c \in 0 .. 2 /\ \A i \in 1 .. c : from(i) \in Senders(g, r)
      BY <1>1, <1>7, SenderAt
    <3>2. \A p \in Senders(g, r) : /\ p \in Ranks /\ G(k, p) = g /\ p \in Members(g)
                                   /\ (r < Mid(g) <=> ~(p < Mid(g)))
      BY <1>1, <1>7, LinkFrom
    <3> HIDE DEF g, from, c
    <3> QED BY <3>1, <3>2
  <2>5. Select(Keep(g, h[k][r], r), A) = IF q \in Src(k, r) THEN X ELSE <<>>
    <3> DEFINE B == OnSide(E, g, r)
    <3>1. h[k][r] \in Seq(E) /\ Keep(g, h[k][r], r) = Select(h[k][r], B)
      <4>1. PICK u \in Seq(E) : u = h[k][r]
        BY <1>2
      <4>2. Keep(g, u, r) = Select(u, B)
        BY KeepAway
      <4> QED BY <4>1, <4>2
    <3>2. Select(h[k][r], A) = IF q \in Src(k, r) THEN Select(in[q], To(E, Members(g))) ELSE <<>>
      BY <1>4
    <3> HIDE DEF g, A, B
    <3>3. Select(Select(h[k][r], B), A) =
            IF q \in Src(k, r) THEN Select(in[q], To(E, Members(g)) \cap B) ELSE <<>>
      <4>1. Select(Select(h[k][r], B), A) = Select(Select(h[k][r], A), B)
        BY <3>1, SelectBoth
      <4>2. Select(Select(in[q], To(E, Members(g))), B) = Select(in[q], To(E, Members(g)) \cap B)
        BY <1>3, SelectTwice
      <4> QED BY <3>2, <4>1, <4>2, SelectEmpty
    <3> QED BY <2>2, <3>1, <3>3 DEF B
  <2>6. ASSUME NEW i \in 1 .. c
        PROVE  Select(out[i], A) = IF q \in Src(k, from(i)) THEN X ELSE <<>>
    <3>1. PICK p \in Ranks : p = from(i)
      BY <2>4
    <3>2. G(k, p) = g /\ (r < Mid(g) <=> ~(p < Mid(g)))
      BY <2>4, <3>1
    <3> DEFINE B == OffSide(E, g, p)
    <3>3. B = OnSide(E, g, r)
      BY <3>2 DEF OnSide, OffSide, Side
    <3>4. h[k][p] \in Seq(E) /\ out[i] = Select(h[k][p], B)
      <4>1. out[i] = Away(g, h[k][p], p)
        BY <3>1 DEF Sent
      <4>2. PICK u \in Seq(E) : u = h[k][p]
        BY <1>2
      <4>3. Away(g, u, p) = Select(u, B)
        BY KeepAway
      <4> QED BY <4>1, <4>2, <4>3
    <3>5. Select(h[k][p], A) = IF q \in Src(k, p) THEN Select(in[q], To(E, Members(g))) ELSE <<>>
      BY <1>4, <3>2
    <3>6. Select(Select(h[k][p], B), A) =
            IF q \in Src(k, p) THEN Select(in[q], To(E, Members(g)) \cap B) ELSE <<>>
      <4> HIDE DEF g, A, B, out
      <4>1. Select(Select(h[k][p], B), A) = Select(Select(h[k][p], A), B)
        BY <3>4, SelectBoth
      <4>2. Select(Select(in[q], To(E, Members(g))), B) = Select(in[q], To(E, Members(g)) \cap B)
        BY <1>3, SelectTwice
      <4> QED BY <3>5, <4>1, <4>2, SelectEmpty
    <3> QED BY <2>2, <3>1, <3>3, <3>4, <3>6
  <2> DEFINE part == [i \in 1 .. c |-> Select(out[i], A)]
  <2>7. part \in Seq(Seq(E)) /\ Select(FlattenSeq(out), A) = FlattenSeq(part) /\ Len(part) = c
    <3> HIDE DEF A, out, c
    <3>1. /\ Select(FlattenSeq(out), A) = FlattenSeq([i \in 1 .. Len(out) |-> Select(out[i], A)])
          /\ [i \in 1 .. Len(out) |-> Select(out[i], A)] \in Seq(Seq(E))
      BY <2>3, SelectFlatten
    <3>2. Len([i \in 1 .. c |-> Select(out[i], A)]) = c
      BY <2>4
    <3> QED BY <2>3, <3>1, <3>2
  <2>8. Keep(g, h[k][r], r) \in Seq(E)
    BY <1>2, KeepAway
  <2>9. Select(h[k + 1][r], A) = Cat(Select(Keep(g, h[k][r], r), A), FlattenSeq(part))
    <3>1. h[k + 1][r] = Cat(Keep(g, h[k][r], r), FlattenSeq(out))
      BY <1>2, <1>5, <1>7 DEF Routed
    <3> HIDE DEF A, out, g, part
    <3> QED BY <2>3, <2>7, <2>8, <3>1, SelectCat
  <2>10. X \in Seq(E)
    BY <1>3, SelectTyped
  <2>11. \E m \in Members(g) : \A p \in Members(g) : q \in Src(k, p) <=> p = m
    BY <1>1, SrcPartition DEF Partitioned
  <2>12. q \in Src(k + 1, r) <=> q \in Src(k, r) \/ \E p \in Senders(g, r) : q \in Src(k, p)
    BY <1>7, SrcNext
  <2>13. \A p \in Senders(g, r) : p - Target(g, r) + 1 \in 1 .. c /\ from(p - Target(g, r) + 1) = p
    <3>1. /\ Target(g, r) \in Int
          /\ \A p \in Senders(g, r) : p \in Int /\ p - Target(g, r) + 1 \in 1 .. c
      BY <1>1, <1>7, SenderAt
    <3> QED BY <3>1
  <2>14. \A i \in 1 .. c : part[i] = IF q \in Src(k, from(i)) THEN X ELSE <<>>
    BY <2>6
  <2>15. r \in Members(g) /\ \A i, j \in 1 .. c : from(i) # r /\ (from(i) = from(j) => i = j)
    <3>1. r \in Members(g) /\ Target(g, r) \in Int
      BY <1>1, <1>7, RankGroup, SenderAt
    <3>2. \A i, j \in 1 .. c : from(i) = from(j) => i = j
      BY <3>1
    <3>3. \A i \in 1 .. c : from(i) # r
      BY <2>4
    <3> QED BY <3>1, <3>2, <3>3
  <2> HIDE DEF g, D, c, X, out, A, from, part
  <2>16. CASE q \in Src(k, r)
    <3>1. \A i \in 1 .. c : part[i] = <<>>
      BY <2>4, <2>11, <2>14, <2>15, <2>16
    <3>2. FlattenSeq(part) = <<>>
      BY <2>7, <3>1, FlattenNone
    <3>3. Cat(X, <<>>) = X
      BY <2>10, CatTyped
    <3> QED BY <2>5, <2>9, <2>12, <2>16, <3>2, <3>3 DEF X, A, D
  <2>17. CASE q \notin Src(k, r) /\ \E p \in Senders(g, r) : q \in Src(k, p)
    <3>1. PICK i \in 1 .. c : q \in Src(k, from(i))
      BY <2>13, <2>17
    <3>2. part[i] = X
      BY <2>14, <3>1
    <3>3. \A j \in 1 .. c : j # i => part[j] = <<>>
      BY <2>4, <2>11, <2>14, <2>15, <3>1
    <3>4. FlattenSeq(part) = X
      BY <2>7, <3>2, <3>3, FlattenOne
    <3>5. Cat(<<>>, X) = X
      BY <2>10, CatTyped
    <3> QED BY <2>5, <2>9, <2>12, <2>17, <3>4, <3>5 DEF X, A, D
  <2>18. CASE q \notin Src(k, r) /\ ~\E p \in Senders(g, r) : q \in Src(k, p)
    <3>1. \A i \in 1 .. c : part[i] = <<>>
      BY <2>4, <2>14, <2>18
    <3>2. FlattenSeq(part) = <<>>
      BY <2>7, <3>1, FlattenNone
    <3>3. <<>> \in Seq(E) /\ Cat(<<>>, <<>>) = <<>>
      <4>1. <<>> \in Seq(E)
        OBVIOUS
      <4> QED BY <4>1, CatTyped
    <3> QED BY <2>5, <2>9, <2>12, <2>18, <3>2, <3>3 DEF A
  <2> QED BY <2>16, <2>17, <2>18
<1> QED BY <1>5, <1>6, <1>7

\* hence at all stages.
LEMMA FlowSelect ==
  ASSUME setup \in Setups, NEW E, NEW in, NEW h, IsFlow(h, in, E),
         \A e \in E : e.dest \in Ranks, \A q \in Ranks : in[q] \in Seq(By(E, q))
  PROVE  \A k \in 0 .. N : FlowAt(k, h, in, E)
<1>1. N \in Nat
  BY SizeType
<1> DEFINE S == {k \in Nat : k <= N => FlowAt(k, h, in, E)}
<1>2. 0 \in S
  BY FlowStart
<1>3. ASSUME NEW k \in Nat, k \in S PROVE k + 1 \in S
  <2>1. k + 1 <= N => k \in 0 .. N - 1 /\ FlowAt(k, h, in, E)
    BY <1>1, <1>3
  <2> QED BY <2>1, FlowNext
<1>4. Nat \subseteq S
  <2> HIDE DEF S
  <2> QED BY <1>2, <1>3, Induction
<1> QED BY <1>1, <1>4

\* In the end, rank r has of each rank what it gave for r, in order.
LEMMA Delivered ==
  ASSUME setup \in Setups, NEW E, NEW in, NEW h, IsFlow(h, in, E),
         \A e \in E : e.dest \in Ranks, \A q \in Ranks : in[q] \in Seq(By(E, q)),
         NEW r \in Ranks, NEW q \in Ranks
  PROVE  Select(h[N][r], By(E, q)) = Select(in[q], To(E, {r}))
<1>1. N \in Nat /\ N \in 0 .. N
  BY SizeType
<1>2. FlowAt(N, h, in, E)
  BY <1>1, FlowSelect
<1>3. Src(N, r) = Ranks
  BY <1>1, TreeEnd, SrcAll
<1>4. Members(G(N, r)) = {r}
  <2>1. G(N, r)[2] <= 1
    BY TreeEnd
  <2> QED BY <1>1, <2>1, RankGroup
<1> QED BY <1>2, <1>3, <1>4 DEF FlowAt

\* The elements of the two exchanges of the round trip, and what the ranks give to each.
E1 == [dest : Ranks, src : Ranks, val : Nat]
E2 == [dest : Ranks, src : Ranks, val : {NewGnum[g] : g \in Nat}]
In1 == [r \in Ranks |-> Created(r)]
F1 == Flow(In1, E1)
In2 == [r \in Ranks |-> [k \in DOMAIN F1[N][r] |-> Edited(F1[N][r][k])]]
F2 == Flow(In2, E2)

Elements(f) == IF f = 0 THEN E1 ELSE E2
In(f) == IF f = 0 THEN In1 ELSE In2
Held(f) == IF f = 0 THEN F1 ELSE F2

\* What rank r holds before stage k of exchange f, and what it keeps and sends then.
H(f, k, r) == Held(f)[k][r]
Kp(f, k, r) == Keep(G(k, r), H(f, k, r), r)
Out(f, k, r) == Away(G(k, r), H(f, k, r), r)

\* A flow depends on the setup only.
LEMMA FlowSame ==
  ASSUME setup' = setup, NEW in, NEW E
  PROVE  Flow(in, E)' = Flow(in, E)
<1>1. N' = N /\ Tree' = Tree
  BY TreeSame DEF N
<1> QED BY <1>1 DEF Flow, IsFlow, Routed, Ranks, G, Sent, Keep, Away, Side, Target, Count, Mid, Cat

\* So do the groups, the origins, and what is held, kept and sent.
LEMMA StaticsSame ==
  ASSUME setup' = setup
  PROVE  /\ N' = N /\ Ranks' = Ranks
         /\ \A k, r : G(k, r)' = G(k, r)
         /\ \A k, r : Src(k, r)' = Src(k, r)
         /\ \A f, k, r : H(f, k, r)' = H(f, k, r)
         /\ \A f, k, r : Kp(f, k, r)' = Kp(f, k, r)
         /\ \A f, k, r : Out(f, k, r)' = Out(f, k, r)
         /\ \A k, q, r : Link(k, q, r)' = Link(k, q, r)
<1>1. N' = N /\ Ranks' = Ranks /\ Tree' = Tree /\ Origins' = Origins
  BY TreeSame, OriginsSame DEF N, Ranks
<1>2. \A k, r : G(k, r)' = G(k, r)
  BY <1>1 DEF G
<1>3. \A k, r : Src(k, r)' = Src(k, r)
  BY <1>1 DEF Src
<1>4. E1' = E1 /\ E2' = E2
  BY <1>1 DEF E1, E2
<1>5. In1' = In1
  BY <1>1 DEF In1, Created, Gnum, DestRank
<1>6. F1' = F1
  <2>1. \A in, E : Flow(in, E)' = Flow(in, E)
    BY FlowSame
  <2> QED BY <1>4, <1>5, <2>1 DEF F1
<1>7. In2' = In2
  BY <1>1, <1>6 DEF In2
<1>8. F2' = F2
  <2>1. \A in, E : Flow(in, E)' = Flow(in, E)
    BY FlowSame
  <2> QED BY <1>4, <1>7, <2>1 DEF F2
<1>9. \A f, k, r : H(f, k, r)' = H(f, k, r)
  BY <1>6, <1>8 DEF H, Held
<1>10. \A f, k, r : Kp(f, k, r)' = Kp(f, k, r)
  BY <1>2, <1>9 DEF Kp, Keep, Side, Mid
<1>11. \A f, k, r : Out(f, k, r)' = Out(f, k, r)
  BY <1>2, <1>9 DEF Out, Away, Side, Mid
<1>12. \A k, q, r : Link(k, q, r)' = Link(k, q, r)
  BY <1>2 DEF Link, Target, Mid
<1> QED BY <1>1, <1>2, <1>3, <1>9, <1>10, <1>11, <1>12

\* An element that is selected is in the selection.
LEMMA SelectHas ==
  ASSUME NEW E, NEW s \in Seq(E), NEW A, NEW i \in 1 .. Len(s), s[i] \in A
  PROVE  \E j \in 1 .. Len(Select(s, A)) : Select(s, A)[j] = s[i]
<1> DEFINE S == {t \in Seq(E) : \A k \in 1 .. Len(t) : t[k] \in A =>
                    \E j \in 1 .. Len(Select(t, A)) : Select(t, A)[j] = t[k]}
<1>1. <<>> \in S
  OBVIOUS
<1>2. ASSUME NEW t \in Seq(E), NEW e \in E, t \in S PROVE App(t, e) \in S
  <2>1. /\ App(t, e) \in Seq(E) /\ Len(App(t, e)) = Len(t) + 1 /\ Len(t) \in Nat
        /\ App(t, e)[Len(t) + 1] = e
    BY AppElements
  <2>0. \A k \in 1 .. Len(t) : App(t, e)[k] = t[k]
    BY AppElements
  <2>2. PICK u \in Seq(E) : u = Select(t, A)
    BY SelectTyped
  <2>3. /\ App(u, e) \in Seq(E) /\ Len(App(u, e)) = Len(u) + 1 /\ Len(u) \in Nat
        /\ App(u, e)[Len(u) + 1] = e
    BY AppElements
  <2>9. \A k \in 1 .. Len(u) : App(u, e)[k] = u[k]
    BY AppElements
  <2>4. Select(App(t, e), A) = IF e \in A THEN App(u, e) ELSE u
    BY <2>2, SelectApp
  <2> SUFFICES ASSUME NEW k \in 1 .. Len(App(t, e)), App(t, e)[k] \in A
               PROVE  \E j \in 1 .. Len(Select(App(t, e), A)) : Select(App(t, e), A)[j] = App(t, e)[k]
    BY <2>1
  <2>5. CASE k = Len(t) + 1
    <3>1. e \in A /\ App(t, e)[k] = e /\ Len(u) + 1 \in 1 .. Len(App(u, e))
      BY <2>1, <2>3, <2>5
    <3> QED BY <2>3, <2>4, <3>1
  <2>6. CASE k # Len(t) + 1
    <3>1. k \in 1 .. Len(t) /\ App(t, e)[k] = t[k]
      BY <2>0, <2>1, <2>6
    <3>2. PICK j \in 1 .. Len(u) : u[j] = t[k]
      BY <1>2, <2>2, <3>1
    <3>3. j \in 1 .. Len(App(u, e)) /\ App(u, e)[j] = t[k]
      BY <2>3, <2>9, <3>2
    <3> QED BY <2>4, <3>1, <3>2, <3>3
  <2> QED BY <2>5, <2>6
<1>3. Seq(E) \subseteq S
  <2> HIDE DEF S
  <2> QED BY <1>1, <1>2, AppInduction
<1> QED BY <1>3

-------------------------------------------------------------------------------
\* What a rank gives to the first exchange: its elements, from it to another rank.
LEMMA Give1 ==
  ASSUME setup \in Setups, NEW r \in Ranks
  PROVE  /\ Gnum(r) \in Seq(Nat) /\ Created(r) \in Seq(E1) /\ Created(r) \in Seq(By(E1, r))
         /\ Len(Created(r)) = Len(Gnum(r))
<1>1. /\ setup.gnum \in Seq(Seq(Nat \ {0})) /\ N = Len(setup.gnum) /\ setup.block \in Nat \ {0}
      /\ \A q \in 1 .. Len(setup.gnum) : \A k \in 1 .. Len(setup.gnum[q]) :
           (setup.gnum[q][k] - 1) \div setup.block < Len(setup.gnum)
  BY SetupAssumption DEF N
<1>2. r + 1 \in 1 .. Len(setup.gnum) /\ r \in Nat
  BY <1>1 DEF Ranks
<1>3. Gnum(r) \in Seq(Nat \ {0})
  <2>1. PICK X : X = Seq(Nat \ {0})
    OBVIOUS
  <2>2. setup.gnum \in Seq(X)
    BY <1>1, <2>1
  <2>3. setup.gnum[r + 1] \in X
    BY <1>2, <2>2
  <2> QED BY <2>1, <2>3 DEF Gnum
<1>4. \A k \in 1 .. Len(Gnum(r)) : Gnum(r)[k] \in Nat \ {0}
  BY <1>3
<1>5. ASSUME NEW k \in 1 .. Len(Gnum(r)) PROVE DestRank(Gnum(r)[k]) \in Ranks
  <2>1. PICK g \in Nat \ {0} : g = Gnum(r)[k]
    BY <1>4
  <2>2. PICK b \in Nat \ {0} : b = setup.block
    BY <1>1
  <2>3. (g - 1) \div b < N
    BY <1>1, <1>2, <2>1, <2>2 DEF Gnum
  <2>4. (g - 1) \div b \in Nat
    <3>1. PICK a \in Nat : a = g - 1
      OBVIOUS
    <3>2. a \div b \in Nat
      OBVIOUS
    <3> QED BY <3>1, <3>2
  <2>5. N \in Nat
    BY SizeType
  <2> QED BY <2>1, <2>2, <2>3, <2>4, <2>5 DEF DestRank, Ranks
<1>6. Gnum(r) \in Seq(Nat) /\ Len(Gnum(r)) \in Nat
  BY <1>3, SeqPart
<1>7. ASSUME NEW k \in 1 .. Len(Gnum(r))
      PROVE  [dest |-> DestRank(Gnum(r)[k]), src |-> r, val |-> Gnum(r)[k]] \in By(E1, r)
  BY <1>4, <1>5 DEF By, E1
<1>8. Created(r) \in Seq(By(E1, r)) /\ Len(Created(r)) = Len(Gnum(r))
  BY <1>6, <1>7 DEF Created
<1>9. By(E1, r) \subseteq E1
  BY DEF By
<1> QED BY <1>6, <1>8, <1>9, SeqPart

\* The first exchange is a flow of elements of the first kind,
LEMMA Flow1 ==
  ASSUME setup \in Setups
  PROVE  /\ IsFlow(F1, In1, E1)
         /\ \A e \in E1 : e.dest \in Ranks
         /\ \A q \in Ranks : In1[q] \in Seq(By(E1, q))
<1>1. \A q \in Ranks : In1[q] \in Seq(By(E1, q)) /\ Created(q) \in Seq(E1)
  BY Give1 DEF In1
<1>2. In1 \in Maps(Ranks, Seq(E1))
  BY <1>1 DEF In1, Maps
<1>3. IsFlow(F1, In1, E1)
  BY <1>2, FlowExists DEF F1
<1> QED BY <1>1, <1>3 DEF E1

\* What a rank holds after it is for it.
LEMMA ForItself ==
  ASSUME setup \in Setups, NEW E, NEW in, NEW h, IsFlow(h, in, E),
         \A e \in E : e.dest \in Ranks /\ e.src \in Ranks,
         \A q \in Ranks : in[q] \in Seq(By(E, q)),
         NEW r \in Ranks
  PROVE  h[N][r] \in Seq(E) /\ h[N][r] \in Seq(To(E, {r}))
<1>1. N \in Nat /\ N \in 0 .. N
  BY SizeType
<1>2. h[N][r] \in Seq(E)
  BY <1>1, FlowTyped
<1>3. ASSUME NEW i \in 1 .. Len(h[N][r]) PROVE h[N][r][i] \in To(E, {r})
  <2>1. PICK e \in E : e = h[N][r][i]
    BY <1>2
  <2>2. PICK q \in Ranks : q = e.src
    OBVIOUS
  <2>3. Select(h[N][r], By(E, q)) = Select(in[q], To(E, {r}))
    BY Delivered
  <2>4. PICK j \in 1 .. Len(Select(h[N][r], By(E, q))) : Select(h[N][r], By(E, q))[j] = e
    <3>1. h[N][r][i] \in By(E, q)
      BY <2>1, <2>2 DEF By
    <3>2. \E j \in 1 .. Len(Select(h[N][r], By(E, q))) : Select(h[N][r], By(E, q))[j] = h[N][r][i]
      BY <1>2, <3>1, SelectHas
    <3> QED BY <2>1, <3>2
  <2>5. Select(in[q], To(E, {r})) \in Seq(To(E, {r}))
    <3>1. in[q] \in Seq(E)
      <4>1. By(E, q) \subseteq E
        BY DEF By
      <4> QED BY <4>1, SeqPart
    <3>2. Select(in[q], To(E, {r})) \in Seq(E \cap To(E, {r}))
      BY <3>1, SelectTyped
    <3>3. E \cap To(E, {r}) = To(E, {r})
      BY DEF To
    <3> QED BY <3>2, <3>3
  <2>6. PICK t \in Seq(To(E, {r})) : t = Select(h[N][r], By(E, q))
    BY <2>3, <2>5
  <2>7. t[j] \in To(E, {r})
    BY <2>4, <2>6
  <2> QED BY <2>1, <2>4, <2>6, <2>7
<1>4. h[N][r] \in Seq(To(E, {r}))
  <2>1. PICK t \in Seq(E) : t = h[N][r]
    BY <1>2
  <2>2. PICK X : X = To(E, {r})
    OBVIOUS
  <2>3. \A i \in 1 .. Len(t) : t[i] \in X
    BY <1>3, <2>1, <2>2
  <2>4. t = [i \in 1 .. Len(t) |-> t[i]] /\ Len(t) \in Nat
    OBVIOUS
  <2>5. t \in Seq(X)
    BY <2>3, <2>4
  <2> QED BY <2>1, <2>2, <2>5
<1> QED BY <1>2, <1>4

\* It edits it, and sends it back.
LEMMA Give2 ==
  ASSUME setup \in Setups, NEW r \in Ranks
  PROVE  In2[r] \in Seq(E2) /\ In2[r] \in Seq(By(E2, r)) /\ Len(In2[r]) = Len(F1[N][r])
<1>1. PICK t \in Seq(To(E1, {r})) : t = F1[N][r]
  <2>1. \A e \in E1 : e.dest \in Ranks /\ e.src \in Ranks
    BY DEF E1
  <2> QED BY <2>1, Flow1, ForItself
<1>2. ASSUME NEW k \in 1 .. Len(t) PROVE Edited(t[k]) \in By(E2, r)
  <2>1. PICK e : e = t[k]
    OBVIOUS
  <2>2. e \in [dest : Ranks, src : Ranks, val : Nat] /\ e.dest = r
    BY <1>1, <2>1 DEF To, E1
  <2>3. Edited(e) = [dest |-> e.src, src |-> r, val |-> NewGnum[e.val]]
    <3>1. PICK d \in Ranks, s \in Ranks, v \in Nat : e = [dest |-> d, src |-> s, val |-> v]
      BY <2>2
    <3>2. r = d /\ e.val = v /\ e.src = s /\ e.dest = d
      BY <2>2, <3>1
    <3>3. Edited(e) = [[[e EXCEPT !.val = NewGnum[v]] EXCEPT !.src = d] EXCEPT !.dest = s]
      BY <3>2 DEF Edited
    <3>4. [e EXCEPT !.val = NewGnum[v]] = [dest |-> d, src |-> s, val |-> NewGnum[v]]
      BY <3>1
    <3> QED BY <3>2, <3>3, <3>4
  <2> QED BY <2>1, <2>2, <2>3 DEF By, E2
<1>3. In2[r] = [k \in 1 .. Len(t) |-> Edited(t[k])]
  BY <1>1 DEF In2
<1>4. In2[r] \in Seq(By(E2, r)) /\ Len(In2[r]) = Len(t)
  <2>1. Len(t) \in Nat
    BY <1>1
  <2> QED BY <1>2, <1>3, <2>1
<1>5. By(E2, r) \subseteq E2
  BY DEF By
<1> QED BY <1>1, <1>4, <1>5, SeqPart

\* The second exchange is a flow of elements of the second kind.
LEMMA Flow2 ==
  ASSUME setup \in Setups
  PROVE  /\ IsFlow(F2, In2, E2)
         /\ \A e \in E2 : e.dest \in Ranks
         /\ \A q \in Ranks : In2[q] \in Seq(By(E2, q))
<1>1. \A q \in Ranks : In2[q] \in Seq(By(E2, q)) /\ In2[q] \in Seq(E2)
  BY Give2
<1>2. In2 \in Maps(Ranks, Seq(E2))
  <2>1. In2 = [q \in Ranks |-> In2[q]]
    BY DEF In2
  <2> QED BY <1>1, <2>1 DEF Maps
<1>3. IsFlow(F2, In2, E2)
  BY <1>2, FlowExists DEF F2
<1> QED BY <1>1, <1>3 DEF E2

Flows == {0, 1}

\* What is held at any stage has its type, and no longer changes for a rank alone.
LEMMA FlowFacts ==
  ASSUME setup \in Setups, NEW f \in Flows, NEW r \in Ranks
  PROVE  /\ \A k \in 0 .. N : H(f, k, r) \in Seq(Elements(f))
         /\ H(f, 0, r) = In(f)[r]
         /\ \A k \in 0 .. N : G(k, r)[2] <= 1 => H(f, N, r) = H(f, k, r)
<1>1. IsFlow(Held(f), In(f), Elements(f))
  BY Flow1, Flow2 DEF Flows, Held, In, Elements
<1>2. \A k \in 0 .. N : H(f, k, r) \in Seq(Elements(f))
  BY <1>1, FlowTyped DEF H
<1>3. H(f, 0, r) = In(f)[r]
  BY <1>1, FlowTyped DEF H
<1>4. \A k \in 0 .. N : G(k, r)[2] <= 1 => H(f, N, r) = H(f, k, r)
  BY <1>1, FlowEnd DEF H
<1> QED BY <1>2, <1>3, <1>4

\* What is held, kept and sent at a stage.
LEMMA StageFacts ==
  ASSUME setup \in Setups, NEW f \in Flows, NEW k \in 0 .. N - 1, NEW r \in Ranks
  PROVE  /\ H(f, k, r) \in Seq(Elements(f))
         /\ Kp(f, k, r) \in Seq(Elements(f)) /\ Len(Kp(f, k, r)) <= Len(H(f, k, r))
         /\ Out(f, k, r) \in Seq(Elements(f)) /\ Len(Out(f, k, r)) <= Len(H(f, k, r))
<1>1. N \in Nat /\ k \in 0 .. N
  BY SizeType
<1>2. H(f, k, r) \in Seq(Elements(f))
  BY <1>1, FlowFacts
<1> QED BY <1>2, KeepAway DEF Kp, Out

\* What arrives at rank r during a stage.
Arrived(f, k, r) ==
  FlattenSeq([i \in 1 .. Count(G(k, r), r) |-> Out(f, k, Target(G(k, r), r) + i - 1)])

\* After a stage a rank holds what it has kept, then what arrives.
LEMMA NextHeld ==
  ASSUME setup \in Setups, NEW f \in Flows, NEW k \in 0 .. N - 1, NEW r \in Ranks,
         G(k, r)[2] > 1
  PROVE  /\ H(f, k + 1, r) = Cat(Kp(f, k, r), Arrived(f, k, r))
         /\ Arrived(f, k, r) \in Seq(Elements(f))
<1>1. N \in Nat /\ k \in 0 .. N
  BY SizeType
<1>2. IsFlow(Held(f), In(f), Elements(f))
  BY Flow1, Flow2 DEF Flows, Held, In, Elements
<1> DEFINE x == Held(f)[k]  g == G(k, r)
<1>3. x \in Maps(Ranks, Seq(Elements(f))) /\ H(f, k + 1, r) = Routed(k, x, r)
  BY <1>1, <1>2, FlowTyped DEF H
<1>4. g[2] \in Nat
  BY <1>1, RankGroup
<1>5. Routed(k, x, r) = Cat(Keep(g, x[r], r), FlattenSeq(Sent(g, x, r)))
  BY <1>4 DEF Routed
<1>6. \A i \in 1 .. Count(g, r) : G(k, Target(g, r) + i - 1) = g
  BY <1>1, SenderAt, LinkFrom
<1>7. Sent(g, x, r) = [i \in 1 .. Count(g, r) |-> Out(f, k, Target(g, r) + i - 1)]
  BY <1>6 DEF Sent, Out, H
<1>8. FlattenSeq(Sent(g, x, r)) \in Seq(Elements(f))
  <2>1. PICK y \in Maps(Ranks, Seq(Elements(f))) : y = x
    BY <1>3
  <2>2. FlattenSeq(Sent(G(k, r), y, r)) \in Seq(Elements(f))
    BY <1>1, SentTyped
  <2> QED BY <2>1, <2>2
<1> QED BY <1>3, <1>5, <1>7, <1>8 DEF Arrived, Kp, H

\* With at most two sources.
Coming(f, k, t, c) ==
  CASE c = 0 -> 0
    [] c = 1 -> Len(Out(f, k, t))
    [] c = 2 -> Len(Out(f, k, t)) + Len(Out(f, k, t + 1))

\* The length of what arrives is the sum of the counts.
LEMMA ArrivedLen ==
  ASSUME setup \in Setups, NEW f \in Flows, NEW k \in 0 .. N - 1, NEW r \in Ranks,
         G(k, r)[2] > 1
  PROVE  Len(Arrived(f, k, r)) = Coming(f, k, Target(G(k, r), r), Count(G(k, r), r))
<1> DEFINE t == Target(G(k, r), r)  c == Count(G(k, r), r)
           out == [i \in 1 .. c |-> Out(f, k, t + i - 1)]  E == Elements(f)
<1>1. N \in Nat /\ k \in 0 .. N
  BY SizeType
<1>2. c \in 0 .. 2 /\ t \in Int /\ \A i \in 1 .. c : t + i - 1 \in Ranks
  BY <1>1, SenderAt, LinkFrom
<1>3. \A i \in 1 .. c : Out(f, k, t + i - 1) \in Seq(E)
  BY <1>2, StageFacts
<1> HIDE DEF t, c, E
<1>4. <<>> \in Seq(E) /\ Len(<<>>) = 0
  OBVIOUS
<1>5. FlattenSeq([i \in 1 .. 0 |-> Out(f, k, t + i - 1)]) = <<>>
  <2>1. [i \in 1 .. 0 |-> Out(f, k, t + i - 1)] = <<>>
    OBVIOUS
  <2> QED BY <2>1, FlattenEmpty
<1>6. CASE c = 0
  <2>1. Arrived(f, k, r) = <<>>
    BY <1>5, <1>6 DEF Arrived, t, c
  <2> QED BY <1>4, <1>6, <2>1 DEF Coming, c, t
<1>7. c >= 1 => /\ FlattenSeq([i \in 1 .. 1 |-> Out(f, k, t + i - 1)]) = Out(f, k, t)
                /\ Out(f, k, t) \in Seq(E)
  <2> SUFFICES ASSUME c >= 1
               PROVE  /\ FlattenSeq([i \in 1 .. 1 |-> Out(f, k, t + i - 1)]) = Out(f, k, t)
                      /\ Out(f, k, t) \in Seq(E)
    OBVIOUS
  <2>1. t + 1 - 1 = t /\ 1 \in 1 .. c
    BY <1>2
  <2>2. Out(f, k, t) \in Seq(E)
    BY <1>3, <2>1
  <2>3. PICK u \in Seq(E) : u = Out(f, k, t)
    BY <2>2
  <2>4. [i \in 1 .. 1 |-> Out(f, k, t + i - 1)] = <<u>>
    BY <2>1, <2>3
  <2>5. <<u>> \in Seq(Seq(E)) /\ Len(<<u>>) = 1 /\ <<u>>[1] = u
    OBVIOUS
  <2>6. FlattenSeq(<<u>>) = u
    <3>1. 1 \in 1 .. Len(<<u>>) /\ \A i \in 1 .. Len(<<u>>) : i = 1
      BY <2>5
    <3>2. FlattenSeq(<<u>>) = <<u>>[1]
      BY <2>5, <3>1, FlattenOne
    <3> QED BY <2>5, <3>2
  <2> QED BY <2>2, <2>3, <2>4, <2>6
<1>8. CASE c = 1
  <2>1. Arrived(f, k, r) = Out(f, k, t)
    BY <1>7, <1>8 DEF Arrived, t, c
  <2> QED BY <1>8, <2>1 DEF Coming, c, t
<1>9. CASE c = 2
  <2>1. t + 2 - 1 = t + 1 /\ 2 \in 1 .. c
    BY <1>2, <1>9
  <2>2. PICK v \in Seq(E) : v = Out(f, k, t + 1)
    BY <1>3, <2>1
  <2>3. PICK u \in Seq(E) : u = Out(f, k, t)
    BY <1>7, <1>9
  <2> DEFINE o == [i \in 1 .. 1 + 1 |-> Out(f, k, t + i - 1)]
  <2>4. \A i \in 1 .. 1 + 1 : o[i] \in Seq(E)
    <3>1. 1 .. 1 + 1 = 1 .. c
      BY <1>9
    <3> QED BY <1>3, <3>1
  <2>5. FlattenSeq([i \in 1 .. 1 + 1 |-> o[i]]) = Cat(FlattenSeq([i \in 1 .. 1 |-> o[i]]), o[1 + 1])
    <3> HIDE DEF o
    <3>1. 1 \in Nat
      OBVIOUS
    <3> QED BY <2>4, <3>1, FlattenStep
  <2>6. [i \in 1 .. 1 + 1 |-> o[i]] = [i \in 1 .. c |-> Out(f, k, t + i - 1)]
    BY <1>9
  <2>7. [i \in 1 .. 1 |-> o[i]] = [i \in 1 .. 1 |-> Out(f, k, t + i - 1)] /\ o[1 + 1] = v
    BY <2>1, <2>2
  <2>8. Arrived(f, k, r) = Cat(u, v)
    BY <1>7, <1>9, <2>3, <2>5, <2>6, <2>7 DEF Arrived, t, c
  <2>9. Len(Arrived(f, k, r)) = Len(u) + Len(v)
    BY <2>8, CatTyped
  <2> QED BY <1>9, <2>2, <2>3, <2>9 DEF Coming, c, t
<1> QED BY <1>2, <1>6, <1>8, <1>9

-------------------------------------------------------------------------------
\* The operators of the router, for a rank in its group.
LEMMA OpsAre ==
  ASSUME setup \in Setups, NEW k \in 0 .. N - 1, NEW r \in Ranks,
         b_low[r] = G(k, r)[1], n_sub[r] = G(k, r)[2], n_sub[r] > 1,
         NEW E, buffer[r] \in Seq(E), \A e \in E : e.dest \in Ranks
  PROVE  /\ target(r) = Target(G(k, r), r) /\ n_recv(r) = Count(G(k, r), r)
         /\ Sources(r) = Senders(G(k, r), r) /\ Link(k, r, target(r)) /\ target(r) \in Ranks
         /\ Kept(r) = Keep(G(k, r), buffer[r], r) /\ Others(r) = Away(G(k, r), buffer[r], r)
         /\ NextLow(r) = G(k + 1, r)[1] /\ NextSize(r) = G(k + 1, r)[2]
<1>1. k \in 0 .. N
  BY SizeType
<1>2. PICK b \in Nat, n \in Nat : G(k, r) = <<b, n>> /\ b_low[r] = b /\ n_sub[r] = n /\ n > 1
                                  /\ G(k, r)[1] = b /\ G(k, r)[2] = n
  BY <1>1, RankGroup
<1>3. PICK h \in Nat : h = n \div 2
  BY <1>2
<1>4. Mid(G(k, r)) = b + h /\ b_high(r) = b + h /\ n_low(r) = h
  BY <1>2, <1>3 DEF Mid, b_high, n_low
<1>5. target(r) = Target(G(k, r), r)
  BY <1>2, <1>3, <1>4 DEF target, Target, IsLow, IsLast
<1>6. n_recv(r) = Count(G(k, r), r)
  BY <1>2, <1>3, <1>4 DEF n_recv, Count, IsLow, IsLast
<1>7. Sources(r) = Senders(G(k, r), r)
  BY <1>5, <1>6 DEF Sources, Senders
<1>8. Link(k, r, target(r)) /\ target(r) \in Ranks
  <2>1. Link(k, r, target(r))
    BY <1>2, <1>5 DEF Link
  <2> QED BY <1>1, <2>1, LinkTo
<1>9. Kept(r) = Keep(G(k, r), buffer[r], r) /\ Others(r) = Away(G(k, r), buffer[r], r)
  <2>1. \A e \in Range(buffer[r]) : Keeps(r, e) <=> Side(G(k, r), r, e)
    <3>1. ASSUME NEW e \in Range(buffer[r]) PROVE Keeps(r, e) <=> Side(G(k, r), r, e)
      <4>1. Side(G(k, r), r, e) <=> (e.dest < b + h <=> r < b + h)
        BY <1>4 DEF Side
      <4>2. Keeps(r, e) <=> IF r < b + h THEN e.dest < b + h ELSE e.dest >= b + h
        BY <1>4 DEF Keeps, IsLow
      <4>3. e.dest \in Ranks
        <5>1. PICK s \in Seq(E) : s = buffer[r]
          OBVIOUS
        <5>2. e \in E
          BY <5>1 DEF Range
        <5> QED BY <5>2
      <4>4. e.dest \in Int /\ r \in Int
        BY <4>3 DEF Ranks
      <4> QED BY <1>2, <1>3, <4>1, <4>2, <4>4
    <3> QED BY <3>1
  <2> QED BY <2>1 DEF Kept, Others, Keep, Away
<1>10. NextLow(r) = G(k + 1, r)[1] /\ NextSize(r) = G(k + 1, r)[2]
  <2>1. G(k + 1, r) = Half(G(k, r), r)
    BY TreeNext
  <2>2. Half(G(k, r), r) = IF r < b + h THEN <<b, h>> ELSE <<b + h, n - h>>
    <3>1. ~(n <= 1)
      BY <1>2
    <3>2. /\ ~(G(k, r)[2] <= 1) /\ Mid(G(k, r)) = b + h /\ G(k, r)[1] = b
          /\ G(k, r)[2] = n /\ G(k, r)[2] \div 2 = h
      BY <1>2, <1>3, <1>4, <3>1
    <3> QED BY <3>2 DEF Half
  <2> QED BY <1>2, <1>3, <1>4, <2>1, <2>2 DEF NextLow, NextSize, IsLow
<1> QED BY <1>5, <1>6, <1>7, <1>8, <1>9, <1>10

-------------------------------------------------------------------------------
\* The messages of a sequence that were sent and not received.
Slice(m, a, b) == [i \in 1 .. b - a |-> m[a + i]]

\* A message is posted at the end,
LEMMA SlicePost ==
  ASSUME NEW m, NEW a \in Nat, NEW b \in Nat, a <= b
  PROVE  Append(Slice(m, a, b), m[b + 1]) = Slice(m, a, b + 1)
<1> DEFINE X == {m[j] : j \in Nat}  s == Slice(m, a, b)  t == Slice(m, a, b + 1)
<1>1. b - a \in Nat /\ (b + 1) - a = (b - a) + 1 /\ a + ((b - a) + 1) = b + 1
  OBVIOUS
<1>2. s \in Seq(X) /\ Len(s) = b - a /\ \A i \in 1 .. b - a : s[i] = m[a + i]
  BY <1>1 DEF Slice
<1>3. t \in Seq(X) /\ Len(t) = b - a + 1 /\ t[(b - a) + 1] = m[b + 1] /\ \A i \in 1 .. b - a : t[i] = m[a + i]
  BY <1>1 DEF Slice
<1>4. m[b + 1] \in X
  OBVIOUS
<1> HIDE DEF s, t, X
<1>5. t = App(s, m[b + 1])
  BY <1>1, <1>2, <1>3, <1>4, AppIs
<1> QED BY <1>5 DEF App, s, t

\* none is in transit at the start,
LEMMA SliceNone ==
  ASSUME NEW m, NEW a \in Nat
  PROVE  Slice(m, a, a) = <<>>
  BY DEF Slice

\* and the first is received.
LEMMA SliceReceive ==
  ASSUME NEW m, NEW a \in Nat, NEW b \in Nat, a <= b, Slice(m, a, b) # <<>>
  PROVE  /\ a < b /\ Head(Slice(m, a, b)) = m[a + 1]
         /\ Tail(Slice(m, a, b)) = Slice(m, a + 1, b)
<1>1. a # b
  BY SliceNone
<1>2. a < b
  BY <1>1
<1> DEFINE X == {m[j] : j \in Nat}  s == Slice(m, a, b)
<1>3. s \in Seq(X) /\ Len(s) = b - a /\ b - a \in Nat /\ \A i \in 1 .. b - a : s[i] = m[a + i]
  BY <1>2 DEF Slice
<1>4. Head(s) = m[a + 1]
  BY <1>2, <1>3
<1>5. Tail(s) = [i \in 1 .. Len(s) - 1 |-> s[i + 1]]
  <2> HIDE DEF s, X
  <2>1. s # <<>>
    BY <1>2, <1>3
  <2>2. /\ Tail(s) \in Seq(X) /\ Len(Tail(s)) = Len(s) - 1
        /\ \A i \in 1 .. Len(Tail(s)) : Tail(s)[i] = s[i + 1]
    BY <1>3, <2>1, HeadTailProperties
  <2>3. PICK u \in Seq(X) : u = Tail(s)
    BY <2>2
  <2>4. u = [i \in 1 .. Len(u) |-> u[i]]
    OBVIOUS
  <2> QED BY <2>2, <2>3, <2>4
<1>6. Tail(s) = Slice(m, a + 1, b)
  <2>1. b - a - 1 = b - (a + 1) /\ \A i \in 1 .. b - (a + 1) : i + 1 \in 1 .. b - a /\ a + (i + 1) = (a + 1) + i
    BY <1>2
  <2>2. \A i \in 1 .. b - (a + 1) : s[i + 1] = m[(a + 1) + i]
    BY <1>3, <2>1
  <2> HIDE DEF s
  <2> QED BY <1>3, <1>5, <2>1, <2>2 DEF Slice
<1> QED BY <1>2, <1>4, <1>6

-------------------------------------------------------------------------------
(* The inductive invariant: it says, from the stage of each rank, what each variable is. *)
\* A rank is in a stage of an exchange; l[r] is the number of stages that it has ended.
Working(r) == pc[r] \in {"stage", "counts", "data"}

\* The number of exchanges that it has entered, and what it gave to them.
NGiven(r) == ended[r] + (IF Working(r) THEN 1 ELSE 0)
GivenTo(r, n) ==
  IF n = 0 THEN <<>> ELSE IF n = 1 THEN <<H(0, 0, r)>> ELSE <<H(0, 0, r), H(1, 0, r)>>

\* What the receives of a stage brought: a count from each sender, or its elements.
GotCounts(l, r) ==
  /\ DOMAIN got[r] \subseteq Senders(G(l[r], r), r)
  /\ \A q \in DOMAIN got[r] : got[r][q] = [n |-> Len(Out(ended[r], l[r], q))]
GotElts(l, r) ==
  /\ DOMAIN got[r] \subseteq Senders(G(l[r], r), r)
  /\ \A q \in DOMAIN got[r] : got[r][q] = [elts |-> Out(ended[r], l[r], q)]

SizesOK(r) ==
  /\ size0[r] \in Nat /\ size1[r] \in Nat
  /\ Len(buffer[r]) <= size0[r] /\ Len(sent[r]) <= size1[r]
PlaceOK(l, r) ==
  Working(r) => /\ b_low[r] = G(l[r], r)[1] /\ n_sub[r] = G(l[r], r)[2] /\ n_sub[r] > 1
                /\ ended[r] \in Flows
ContentsOK(l, r) ==
  /\ pc[r] = "enter" =>
       ended[r] \in Flows /\ buffer[r] = H(ended[r], 0, r) /\ sent[r] = <<>>
  /\ pc[r] = "stage" => buffer[r] = H(ended[r], l[r], r) /\ sent[r] = <<>>
  /\ pc[r] \in {"counts", "data"} =>
       buffer[r] = Kp(ended[r], l[r], r) /\ sent[r] = Out(ended[r], l[r], r)
  /\ pc[r] = "counts" => GotCounts(l, r)
  /\ pc[r] = "data" => GotElts(l, r) /\ Len(H(ended[r], l[r] + 1, r)) <= size0[r]
  /\ pc[r] = "edit" => ended[r] = 1 /\ buffer[r] = H(0, N, r) /\ sent[r] = <<>>
  /\ pc[r] = "sort" => ended[r] = 2 /\ buffer[r] = H(1, N, r) /\ sent[r] = <<>>
  /\ pc[r] = "done" => ended[r] = 2 /\ buffer[r] = BySource(H(1, N, r)) /\ sent[r] = <<>>
Local(l, r) ==
  /\ pc[r] \in {"enter", "stage", "counts", "data", "edit", "sort", "done"}
  /\ ended[r] \in 0 .. 2 /\ l[r] \in 0 .. N - 1
  /\ SizesOK(r) /\ PlaceOK(l, r) /\ ContentsOK(l, r)
  /\ given[r] = GivenTo(r, NGiven(r))

\* The messages of rank q to the rank that it sends to at stage k, and how many of them
\* were sent and received.
Msgs(k, q) ==
  [j \in 1 .. 4 |-> IF j = 1 THEN [n |-> Len(Out(0, k, q))]
                    ELSE IF j = 2 THEN [elts |-> Out(0, k, q)]
                    ELSE IF j = 3 THEN [n |-> Len(Out(1, k, q))]
                    ELSE [elts |-> Out(1, k, q)]]
SentHere(r) == IF pc[r] = "stage" THEN 0 ELSE IF pc[r] = "counts" THEN 1 ELSE 2
RecvHere(r, q) ==
  IF pc[r] = "stage" THEN 0
  ELSE (IF pc[r] = "counts" THEN 0 ELSE 1) + (IF q \in DOMAIN got[r] THEN 1 ELSE 0)
SentN(l, q, k) ==
  2 * ended[q] + (IF ~Working(q) \/ l[q] < k THEN 0 ELSE IF l[q] > k THEN 2 ELSE SentHere(q))
RecvN(l, r, q, k) ==
  2 * ended[r] + (IF ~Working(r) \/ l[r] < k THEN 0 ELSE IF l[r] > k THEN 2 ELSE RecvHere(r, q))
ChannelOK(l, k, q, r) ==
  /\ RecvN(l, r, q, k) <= SentN(l, q, k)
  /\ chan[<<q, r>>] = Slice(Msgs(k, q), RecvN(l, r, q, k), SentN(l, q, k))
Channels(l) ==
  \A k \in 0 .. N - 1 : \A q, r \in Ranks : Link(k, q, r) => ChannelOK(l, k, q, r)

\* No rank is ahead of one that it has elements of.
Causal(l) ==
  \A r, q \in Ranks : /\ NGiven(q) >= ended[r]
                      /\ Working(r) /\ q \in Src(l[r], r) => NGiven(q) > ended[r]

Shape ==
  /\ DOMAIN pc = Ranks /\ DOMAIN buffer = Ranks /\ DOMAIN sent = Ranks /\ DOMAIN size0 = Ranks
  /\ DOMAIN size1 = Ranks /\ DOMAIN b_low = Ranks /\ DOMAIN n_sub = Ranks /\ DOMAIN got = Ranks
  /\ DOMAIN given = Ranks /\ DOMAIN ended = Ranks /\ DOMAIN chan = Ranks \X Ranks

InvAt(l) ==
  /\ setup \in Setups /\ Shape /\ l \in [Ranks -> 0 .. N - 1]
  /\ \A r \in Ranks : Local(l, r)
  /\ Channels(l) /\ Causal(l)

-------------------------------------------------------------------------------
\* The sort depends on the setup only.
LEMMA BySourceSame ==
  ASSUME setup' = setup, NEW s
  PROVE  BySource(s)' = BySource(s)
  BY DEF BySource, N

\* The messages of exchange f.
LEMMA MsgsAre ==
  ASSUME NEW f \in Flows, NEW k, NEW q
  PROVE  /\ Msgs(k, q)[2 * f + 1] = [n |-> Len(Out(f, k, q))]
         /\ Msgs(k, q)[2 * f + 2] = [elts |-> Out(f, k, q)]
<1>1. CASE f = 0
  BY <1>1 DEF Msgs
<1>2. CASE f = 1
  BY <1>2 DEF Msgs
<1> QED BY <1>1, <1>2 DEF Flows

\* Rank q is as it was.
SameAt(q) ==
  /\ pc'[q] = pc[q] /\ buffer'[q] = buffer[q] /\ sent'[q] = sent[q] /\ size0'[q] = size0[q]
  /\ size1'[q] = size1[q] /\ b_low'[q] = b_low[q] /\ n_sub'[q] = n_sub[q] /\ got'[q] = got[q]
  /\ given'[q] = given[q] /\ ended'[q] = ended[q]

\* Its part of the invariant holds still,
LEMMA LocalSame ==
  ASSUME setup' = setup, NEW l, NEW m, NEW q, SameAt(q), m[q] = l[q], Local(l, q)
  PROVE  Local(m, q)'
<1>1. /\ N' = N
      /\ \A k, r : G(k, r)' = G(k, r)
      /\ \A f, k, r : H(f, k, r)' = H(f, k, r)
      /\ \A f, k, r : Kp(f, k, r)' = Kp(f, k, r)
      /\ \A f, k, r : Out(f, k, r)' = Out(f, k, r)
  BY StaticsSame
<1>2. /\ pc'[q] = pc[q] /\ buffer'[q] = buffer[q] /\ sent'[q] = sent[q] /\ size0'[q] = size0[q]
      /\ size1'[q] = size1[q] /\ b_low'[q] = b_low[q] /\ n_sub'[q] = n_sub[q] /\ got'[q] = got[q]
      /\ given'[q] = given[q] /\ ended'[q] = ended[q]
  BY DEF SameAt
<1>3. Working(q)' <=> Working(q)
  BY <1>2 DEF Working
<1>4. SizesOK(q)' /\ PlaceOK(m, q)'
  BY <1>1, <1>2, <1>3 DEF SizesOK, PlaceOK, Local
<1>5. GivenTo(q, NGiven(q))' = GivenTo(q, NGiven(q))
  BY <1>1, <1>2, <1>3 DEF GivenTo, NGiven
<1>6. (GotCounts(l, q) => GotCounts(m, q)') /\ (GotElts(l, q) => GotElts(m, q)')
  BY <1>1, <1>2 DEF GotCounts, GotElts
<1>7. ContentsOK(m, q)'
  <2>1. \A s : BySource(s)' = BySource(s)
    BY BySourceSame
  <2>2. ContentsOK(l, q)
    BY DEF Local
  <2> QED BY <1>1, <1>2, <1>6, <2>1, <2>2 DEF ContentsOK
<1> QED BY <1>1, <1>2, <1>4, <1>5, <1>7 DEF Local

\* and its counts of messages are the same,
LEMMA CountsSame ==
  ASSUME NEW l, NEW m, NEW q, SameAt(q), m[q] = l[q]
  PROVE  /\ \A k : SentN(m, q, k)' = SentN(l, q, k)
         /\ \A k, p : RecvN(m, q, p, k)' = RecvN(l, q, p, k)
         /\ NGiven(q)' = NGiven(q) /\ (Working(q)' <=> Working(q)) /\ ended'[q] = ended[q]
<1>1. pc'[q] = pc[q] /\ got'[q] = got[q] /\ ended'[q] = ended[q]
  BY DEF SameAt
<1>2. Working(q)' <=> Working(q)
  BY <1>1 DEF Working
<1> QED BY <1>1, <1>2 DEF SentN, RecvN, NGiven, SentHere, RecvHere

\* with the same stages in particular.
LEMMA CountsKept ==
  ASSUME NEW l, NEW q, SameAt(q)
  PROVE  /\ \A k : SentN(l, q, k)' = SentN(l, q, k)
         /\ \A k, p : RecvN(l, q, p, k)' = RecvN(l, q, p, k)
<1>1. l[q] = l[q]
  OBVIOUS
<1> QED BY <1>1, CountsSame

\* The type of these counts.
LEMMA CountsTyped ==
  ASSUME setup \in Setups, NEW l, NEW q, Local(l, q)
  PROVE  /\ \A k \in 0 .. N - 1 : SentN(l, q, k) \in Nat
         /\ \A k \in 0 .. N - 1 : \A p : RecvN(l, q, p, k) \in Nat
         /\ NGiven(q) \in Nat /\ ended[q] \in Nat /\ l[q] \in Nat
<1>1. ended[q] \in Nat /\ l[q] \in Nat /\ N \in Nat
  BY SizeType DEF Local
<1> QED BY <1>1 DEF SentN, RecvN, NGiven, SentHere, RecvHere

\* Messages, when none, one, is posted or received.
MsgsSame(l, m) ==
  \A k \in 0 .. N - 1 : \A q, r \in Ranks : Link(k, q, r) =>
    SentN(m, q, k)' = SentN(l, q, k) /\ RecvN(m, r, q, k)' = RecvN(l, r, q, k)

\* The messages depend on the setup only.
LEMMA MsgsStatic ==
  ASSUME setup' = setup
  PROVE  /\ N' = N /\ Ranks' = Ranks /\ \A k, q : Msgs(k, q)' = Msgs(k, q)
         /\ \A k, q, r : Link(k, q, r)' = Link(k, q, r)
<1>1. /\ N' = N /\ Ranks' = Ranks /\ \A k, q, r : Link(k, q, r)' = Link(k, q, r)
      /\ \A f, k, r : Out(f, k, r)' = Out(f, k, r)
  BY StaticsSame
<1> QED BY <1>1 DEF Msgs

\* If neither counts nor channels change, these hold what they should.
LEMMA ChannelsKept ==
  ASSUME setup' = setup, NEW l, NEW m, Channels(l), chan' = chan, MsgsSame(l, m)
  PROVE  Channels(m)'
<1>1. /\ N' = N /\ Ranks' = Ranks /\ \A k, q : Msgs(k, q)' = Msgs(k, q)
      /\ \A k, q, r : Link(k, q, r)' = Link(k, q, r)
  BY MsgsStatic
<1> SUFFICES ASSUME NEW k \in 0 .. N - 1, NEW q \in Ranks, NEW r \in Ranks, Link(k, q, r)
             PROVE  ChannelOK(m, k, q, r)'
  BY <1>1 DEF Channels
<1>2. ChannelOK(l, k, q, r)
  BY DEF Channels
<1>3. SentN(m, q, k)' = SentN(l, q, k) /\ RecvN(m, r, q, k)' = RecvN(l, r, q, k)
  BY DEF MsgsSame
<1> QED BY <1>1, <1>2, <1>3 DEF ChannelOK, Slice

\* So they do when rank s posts its next message to rank t,
LEMMA ChannelsPost ==
  ASSUME setup \in Setups, setup' = setup, NEW l, NEW m, Channels(l), Shape,
         \A q \in Ranks : Local(l, q),
         NEW s \in Ranks, NEW t \in Ranks, NEW j \in 0 .. N - 1, Link(j, s, t), NEW e,
         Post(s, t, e), e = Msgs(j, s)[SentN(l, s, j) + 1],
         \A k \in 0 .. N - 1 : \A q, r \in Ranks : Link(k, q, r) =>
           /\ SentN(m, q, k)' = SentN(l, q, k) + (IF q = s /\ k = j THEN 1 ELSE 0)
           /\ RecvN(m, r, q, k)' = RecvN(l, r, q, k)
  PROVE  Channels(m)'
<1>1. /\ N' = N /\ Ranks' = Ranks /\ \A k, q : Msgs(k, q)' = Msgs(k, q)
      /\ \A k, q, r : Link(k, q, r)' = Link(k, q, r)
  BY MsgsStatic
<1> SUFFICES ASSUME NEW k \in 0 .. N - 1, NEW q \in Ranks, NEW r \in Ranks, Link(k, q, r)
             PROVE  ChannelOK(m, k, q, r)'
  BY <1>1 DEF Channels
<1>2. ChannelOK(l, k, q, r)
  BY DEF Channels
<1>3. /\ SentN(m, q, k)' = SentN(l, q, k) + (IF q = s /\ k = j THEN 1 ELSE 0)
      /\ RecvN(m, r, q, k)' = RecvN(l, r, q, k)
  OBVIOUS
<1>4. PICK a \in Nat, b \in Nat : a = RecvN(l, r, q, k) /\ b = SentN(l, q, k)
  BY CountsTyped
<1>5. a <= b /\ chan[<<q, r>>] = Slice(Msgs(k, q), a, b)
  BY <1>2, <1>4 DEF ChannelOK
<1>6. chan' = [chan EXCEPT ![<<s, t>>] = Append(@, e)] /\ DOMAIN chan = Ranks \X Ranks
  BY DEF Post, Shape
<1>7. CASE q = s /\ k = j
  <2>1. r = t
    BY <1>7 DEF Link
  <2>2. chan'[<<q, r>>] = Append(chan[<<q, r>>], e)
    BY <1>6, <1>7, <2>1
  <2>3. Append(Slice(Msgs(k, q), a, b), Msgs(k, q)[b + 1]) = Slice(Msgs(k, q), a, b + 1)
    BY <1>5, SlicePost
  <2>4. chan'[<<q, r>>] = Slice(Msgs(k, q), a, b + 1)
    BY <1>4, <1>5, <1>7, <2>2, <2>3
  <2>5. SentN(m, q, k)' = b + 1 /\ RecvN(m, r, q, k)' = a /\ a <= b + 1
    BY <1>3, <1>4, <1>5, <1>7
  <2>6. Slice(Msgs(k, q), RecvN(m, r, q, k), SentN(m, q, k))' = Slice(Msgs(k, q), a, b + 1)
    BY <1>1, <2>5 DEF Slice
  <2> QED BY <2>4, <2>5, <2>6 DEF ChannelOK
<1>8. CASE ~(q = s /\ k = j)
  <2>1. ~(q = s /\ r = t)
    BY <1>8, LinkOnce
  <2>2. chan'[<<q, r>>] = chan[<<q, r>>]
    BY <1>6, <2>1
  <2>3. SentN(m, q, k)' = b /\ RecvN(m, r, q, k)' = a
    BY <1>3, <1>4, <1>8
  <2>4. Slice(Msgs(k, q), RecvN(m, r, q, k), SentN(m, q, k))' = Slice(Msgs(k, q), a, b)
    BY <1>1, <2>3 DEF Slice
  <2> QED BY <1>5, <2>2, <2>3, <2>4 DEF ChannelOK
<1> QED BY <1>7, <1>8

\* and when rank t receives the next one of rank s.
LEMMA ChannelsReceive ==
  ASSUME setup \in Setups, setup' = setup, NEW l, Channels(l), Shape,
         \A q \in Ranks : Local(l, q),
         NEW s \in Ranks, NEW t \in Ranks, NEW j \in 0 .. N - 1, Link(j, s, t),
         chan' = [chan EXCEPT ![<<s, t>>] = Tail(@)], chan[<<s, t>>] # <<>>,
         \A k \in 0 .. N - 1 : \A q, r \in Ranks : Link(k, q, r) =>
           /\ SentN(l, q, k)' = SentN(l, q, k)
           /\ RecvN(l, r, q, k)' = RecvN(l, r, q, k) + (IF q = s /\ r = t /\ k = j THEN 1 ELSE 0)
  PROVE  Channels(l)' /\ Head(chan[<<s, t>>]) = Msgs(j, s)[RecvN(l, t, s, j) + 1]
<1>1. /\ N' = N /\ Ranks' = Ranks /\ \A k, q : Msgs(k, q)' = Msgs(k, q)
      /\ \A k, q, r : Link(k, q, r)' = Link(k, q, r)
  BY MsgsStatic
<1>2. ASSUME NEW k \in 0 .. N - 1, NEW q \in Ranks, NEW r \in Ranks, Link(k, q, r)
      PROVE  /\ ChannelOK(l, k, q, r)'
             /\ q = s /\ r = t => Head(chan[<<q, r>>]) = Msgs(k, q)[RecvN(l, r, q, k) + 1]
  <2>1. ChannelOK(l, k, q, r)
    BY <1>2 DEF Channels
  <2>2. /\ SentN(l, q, k)' = SentN(l, q, k)
        /\ RecvN(l, r, q, k)' = RecvN(l, r, q, k) + (IF q = s /\ r = t /\ k = j THEN 1 ELSE 0)
    BY <1>2
  <2>3. PICK a \in Nat, b \in Nat : a = RecvN(l, r, q, k) /\ b = SentN(l, q, k)
    BY CountsTyped
  <2>4. a <= b /\ chan[<<q, r>>] = Slice(Msgs(k, q), a, b)
    BY <2>1, <2>3 DEF ChannelOK
  <2>5. DOMAIN chan = Ranks \X Ranks
    BY DEF Shape
  <2>6. CASE q = s /\ r = t
    <3>1. k = j
      BY <1>2, <2>6, LinkOnce
    <3>2. chan'[<<q, r>>] = Tail(chan[<<q, r>>])
      BY <2>5, <2>6
    <3>3. Slice(Msgs(k, q), a, b) # <<>>
      BY <2>4, <2>6
    <3>4. /\ a < b /\ Head(Slice(Msgs(k, q), a, b)) = Msgs(k, q)[a + 1]
          /\ Tail(Slice(Msgs(k, q), a, b)) = Slice(Msgs(k, q), a + 1, b)
      BY <2>4, <3>3, SliceReceive
    <3>5. SentN(l, q, k)' = b /\ RecvN(l, r, q, k)' = a + 1 /\ a + 1 <= b
      BY <2>2, <2>3, <2>6, <3>1, <3>4
    <3>6. Slice(Msgs(k, q), RecvN(l, r, q, k), SentN(l, q, k))' = Slice(Msgs(k, q), a + 1, b)
      BY <1>1, <3>5 DEF Slice
    <3>7. ChannelOK(l, k, q, r)'
      BY <2>4, <3>2, <3>4, <3>5, <3>6 DEF ChannelOK
    <3> QED BY <2>3, <2>4, <3>4, <3>7
  <2>7. CASE ~(q = s /\ r = t)
    <3>1. chan'[<<q, r>>] = chan[<<q, r>>]
      BY <2>5, <2>7
    <3>2. SentN(l, q, k)' = b /\ RecvN(l, r, q, k)' = a
      BY <2>2, <2>3, <2>7
    <3>3. Slice(Msgs(k, q), RecvN(l, r, q, k), SentN(l, q, k))' = Slice(Msgs(k, q), a, b)
      BY <1>1, <3>2 DEF Slice
    <3>4. ChannelOK(l, k, q, r)'
      BY <2>4, <3>1, <3>2, <3>3 DEF ChannelOK
    <3> QED BY <2>7, <3>4
  <2> QED BY <2>6, <2>7
<1>3. Channels(l)'
  BY <1>1, <1>2 DEF Channels
<1> QED BY <1>2, <1>3

\* A rank that is in a stage uses the operators of its group.
LEMMA WorkOps ==
  ASSUME NEW l, InvAt(l), NEW r \in Ranks, Working(r)
  PROVE  LET k == l[r]  g == G(k, r) IN
         /\ k \in 0 .. N - 1 /\ k \in 0 .. N /\ k + 1 \in 0 .. N /\ k \in Nat
         /\ ended[r] \in Flows /\ g[2] > 1 /\ n_sub[r] = g[2] /\ b_low[r] = g[1]
         /\ target(r) = Target(g, r) /\ n_recv(r) = Count(g, r)
         /\ Sources(r) = Senders(g, r) /\ Link(k, r, target(r)) /\ target(r) \in Ranks
         /\ Kept(r) = Keep(g, buffer[r], r) /\ Others(r) = Away(g, buffer[r], r)
         /\ NextLow(r) = G(k + 1, r)[1] /\ NextSize(r) = G(k + 1, r)[2]
<1> DEFINE k == l[r]  g == G(k, r)
<1>1. setup \in Setups /\ Local(l, r) /\ N \in Nat
  BY SizeType DEF InvAt
<1>2. k \in 0 .. N - 1 /\ k \in 0 .. N /\ k + 1 \in 0 .. N /\ k \in Nat
  BY <1>1 DEF Local
<1>3. ended[r] \in Flows /\ n_sub[r] > 1 /\ n_sub[r] = g[2] /\ b_low[r] = g[1]
  BY <1>1 DEF Local, PlaceOK
<1>4. PICK f \in Flows : f = ended[r]
  BY <1>3
<1>5. buffer[r] \in Seq(Elements(f))
  <2>1. pc[r] = "stage" => buffer[r] = H(f, k, r)
    BY <1>1, <1>4 DEF Local, ContentsOK
  <2>2. pc[r] \in {"counts", "data"} => buffer[r] = Kp(f, k, r)
    BY <1>1, <1>4 DEF Local, ContentsOK
  <2>3. H(f, k, r) \in Seq(Elements(f)) /\ Kp(f, k, r) \in Seq(Elements(f))
    BY <1>1, <1>2, StageFacts
  <2> QED BY <2>1, <2>2, <2>3 DEF Working
<1>6. \A e \in Elements(f) : e.dest \in Ranks
  BY DEF Elements, E1, E2
<1> HIDE DEF k
<1>7. /\ target(r) = Target(G(k, r), r) /\ n_recv(r) = Count(G(k, r), r)
      /\ Sources(r) = Senders(G(k, r), r) /\ Link(k, r, target(r)) /\ target(r) \in Ranks
      /\ Kept(r) = Keep(G(k, r), buffer[r], r) /\ Others(r) = Away(G(k, r), buffer[r], r)
      /\ NextLow(r) = G(k + 1, r)[1] /\ NextSize(r) = G(k + 1, r)[2]
  BY <1>1, <1>2, <1>3, <1>5, <1>6, OpsAre
<1> QED BY <1>2, <1>3, <1>7 DEF k

\* An action of rank r that does not change where it is.
LEMMA StepSame ==
  ASSUME NEW l, InvAt(l), setup' = setup, NEW r \in Ranks, \A q \in Ranks \ {r} : SameAt(q),
         Shape', Local(l, r)', ended'[r] = ended[r], Working(r)' <=> Working(r), Channels(l)'
  PROVE  InvAt(l)'
<1>1. /\ N' = N /\ Ranks' = Ranks
      /\ \A k, q : Src(k, q)' = Src(k, q)
  BY StaticsSame
<1>2. \A q \in Ranks : Local(l, q)'
  BY LocalSame DEF InvAt
<1>3. \A q \in Ranks : /\ NGiven(q)' = NGiven(q) /\ (Working(q)' <=> Working(q))
                       /\ ended'[q] = ended[q]
  <2>1. \A q \in Ranks \ {r} : /\ NGiven(q)' = NGiven(q) /\ (Working(q)' <=> Working(q))
                               /\ ended'[q] = ended[q]
    BY CountsSame
  <2>2. NGiven(r)' = NGiven(r)
    BY DEF NGiven
  <2> QED BY <2>1, <2>2
<1>4. Causal(l)'
  BY <1>1, <1>3 DEF Causal, InvAt
<1> QED BY <1>1, <1>2, <1>4 DEF InvAt

-------------------------------------------------------------------------------
\* The sort keeps all elements.
LEMMA SortLen ==
  ASSUME N \in Nat, NEW E, NEW s \in Seq(E), \A e \in E : e.src \in Ranks
  PROVE  Len(BySource(s)) = Len(s)
<1> DEFINE R == Range(s)  A == [i \in 1 .. N |-> {e \in R : e.src = i - 1}]
<1>1. s \in Seq(R) /\ R \subseteq E
  <2>1. \A i \in 1 .. Len(s) : s[i] \in R
    BY DEF Range
  <2>2. Len(s) \in Nat /\ DOMAIN s = 1 .. Len(s) /\ s = [i \in 1 .. Len(s) |-> s[i]]
    OBVIOUS
  <2>3. R \subseteq E
    BY <2>2 DEF Range
  <2> HIDE DEF R
  <2> QED BY <2>1, <2>2, <2>3
<1>2. BySource(s) = FlattenSeq([i \in 1 .. N |-> Select(s, A[i])])
  BY DEF BySource
<1>3. \A i, j \in 1 .. N : i # j => A[i] \cap A[j] = {}
  <2>1. ASSUME NEW i \in 1 .. N, NEW j \in 1 .. N, i # j, NEW e \in A[i], e \in A[j] PROVE FALSE
    <3>1. e.src = i - 1 /\ e.src = j - 1
      BY <2>1
    <3> QED BY <2>1, <3>1
  <2> QED BY <2>1
<1>4. R \subseteq UNION {A[i] : i \in 1 .. N}
  <2>1. ASSUME NEW e \in R PROVE \E i \in 1 .. N : e \in A[i]
    <3>1. e.src \in 0 .. N - 1
      BY <1>1 DEF Ranks
    <3>2. e.src + 1 \in 1 .. N /\ (e.src + 1) - 1 = e.src
      BY <3>1
    <3> QED BY <3>2
  <2> QED BY <2>1
<1> HIDE DEF R, A
<1>5. Len(FlattenSeq(Selections(s, A, N))) = Len(Select(s, AllOf(A, N)))
  BY <1>3, FlattenLen
<1>6. Select(s, AllOf(A, N)) = s
  BY <1>1, <1>4, SelectAll DEF AllOf
<1> QED BY <1>2, <1>5, <1>6 DEF Selections

\* The sort keeps the invariant.
LEMMA SortInv ==
  ASSUME NEW l, InvAt(l), NEW r \in Ranks, Sort(r)
  PROVE  InvAt(l)'
<1>1. /\ pc[r] = "sort" /\ setup' = setup
      /\ buffer' = [buffer EXCEPT ![r] = BySource(@)] /\ pc' = [pc EXCEPT ![r] = "done"]
      /\ UNCHANGED <<sent, size0, size1, got, chan, given, ended>> /\ b_low' = b_low /\ n_sub' = n_sub
  BY DEF Sort, group
<1>2. setup \in Setups /\ Shape /\ Local(l, r) /\ Channels(l) /\ N \in Nat
  BY SizeType DEF InvAt
<1>3. pc'[r] = "done" /\ buffer'[r] = BySource(buffer[r])
  BY <1>1, <1>2 DEF Shape
<1>4. Shape'
  <2>1. Ranks' = Ranks
    BY <1>1, StaticsSame
  <2> QED BY <1>1, <1>2, <2>1 DEF Shape
<1>5. \A q \in Ranks \ {r} : SameAt(q)
  BY <1>1, <1>2 DEF Shape, SameAt
<1>6. ~Working(r) /\ ~Working(r)'
  BY <1>1, <1>3 DEF Working
<1>7. ended[r] = 2 /\ buffer[r] = H(1, N, r) /\ sent[r] = <<>>
  BY <1>1, <1>2 DEF Local, ContentsOK
<1>8. Local(l, r)'
  <2>1. /\ N' = N /\ \A f, k, q : H(f, k, q)' = H(f, k, q)
    BY <1>1, StaticsSame
  <2>2. BySource(H(1, N, r))' = BySource(H(1, N, r))
    <3>1. \A s : BySource(s)' = BySource(s)
      BY <1>1, BySourceSame
    <3> QED BY <2>1, <3>1
  <2>3. Len(BySource(H(1, N, r))) = Len(H(1, N, r))
    <3>1. 1 \in Flows /\ N \in 0 .. N
      BY <1>2 DEF Flows
    <3>2. H(1, N, r) \in Seq(Elements(1))
      BY <1>2, <3>1, FlowFacts
    <3>3. \A e \in Elements(1) : e.src \in Ranks
      BY DEF Elements, E2
    <3> QED BY <1>2, <3>2, <3>3, SortLen
  <2>4. SizesOK(r)'
    BY <1>1, <1>2, <1>3, <1>7, <2>3 DEF Local, SizesOK
  <2>5. GivenTo(r, NGiven(r))' = GivenTo(r, NGiven(r))
    BY <1>1, <1>6, <2>1 DEF GivenTo, NGiven
  <2>6. PlaceOK(l, r)'
    BY <1>6 DEF PlaceOK
  <2>7. ContentsOK(l, r)'
    BY <1>1, <1>3, <1>7, <2>2 DEF ContentsOK
  <2> QED BY <1>1, <1>2, <1>3, <2>1, <2>4, <2>5, <2>6, <2>7 DEF Local
<1>9. MsgsSame(l, l)
  <2>1. \A q \in Ranks \ {r} : \A k, p : SentN(l, q, k)' = SentN(l, q, k) /\ RecvN(l, q, p, k)' = RecvN(l, q, p, k)
    BY <1>5, CountsKept
  <2>2. \A k, p : SentN(l, r, k)' = SentN(l, r, k) /\ RecvN(l, r, p, k)' = RecvN(l, r, p, k)
    BY <1>1, <1>6 DEF SentN, RecvN
  <2> QED BY <2>1, <2>2 DEF MsgsSame
<1>10. Channels(l)'
  BY <1>1, <1>2, <1>9, ChannelsKept
<1> QED BY <1>1, <1>4, <1>5, <1>6, <1>8, <1>10, StepSame

\* So does the edition between the two exchanges, which makes In2 of F1.
LEMMA EditInv ==
  ASSUME NEW l, InvAt(l), NEW r \in Ranks, Edit(r)
  PROVE  InvAt(l)'
<1>1. /\ pc[r] = "edit" /\ setup' = setup
      /\ buffer' = [buffer EXCEPT ![r] = [k \in DOMAIN @ |-> Edited(@[k])]]
      /\ pc' = [pc EXCEPT ![r] = "enter"]
      /\ UNCHANGED <<sent, size0, size1, got, chan, given, ended>> /\ b_low' = b_low /\ n_sub' = n_sub
  BY DEF Edit, group
<1>2. setup \in Setups /\ Shape /\ Local(l, r) /\ Channels(l) /\ N \in Nat
  BY SizeType DEF InvAt
<1>3. pc'[r] = "enter" /\ buffer'[r] = [k \in DOMAIN buffer[r] |-> Edited(buffer[r][k])]
  BY <1>1, <1>2 DEF Shape
<1>4. Shape'
  <2>1. Ranks' = Ranks
    BY <1>1, StaticsSame
  <2> QED BY <1>1, <1>2, <2>1 DEF Shape
<1>5. \A q \in Ranks \ {r} : SameAt(q)
  BY <1>1, <1>2 DEF Shape, SameAt
<1>6. ~Working(r) /\ ~Working(r)'
  BY <1>1, <1>3 DEF Working
<1>7. ended[r] = 1 /\ buffer[r] = H(0, N, r) /\ sent[r] = <<>>
  BY <1>1, <1>2 DEF Local, ContentsOK
<1>8. Local(l, r)'
  <2>1. /\ N' = N /\ \A f, k, q : H(f, k, q)' = H(f, k, q)
    BY <1>1, StaticsSame
  <2>2. buffer'[r] = H(1, 0, r) /\ Len(H(1, 0, r)) = Len(H(0, N, r))
    <3>1. 1 \in Flows
      BY DEF Flows
    <3>2. H(1, 0, r) = In2[r]
      BY <1>2, <3>1, FlowFacts DEF In
    <3>3. H(0, N, r) = F1[N][r]
      BY DEF H, Held
    <3>4. Len(In2[r]) = Len(F1[N][r])
      BY <1>2, Give2
    <3> QED BY <1>3, <1>7, <3>2, <3>3, <3>4 DEF In2
  <2>4. SizesOK(r)'
    BY <1>1, <1>2, <1>3, <1>7, <2>2 DEF Local, SizesOK
  <2>5. GivenTo(r, NGiven(r))' = GivenTo(r, NGiven(r))
    BY <1>1, <1>6, <2>1 DEF GivenTo, NGiven
  <2>6. PlaceOK(l, r)'
    BY <1>6 DEF PlaceOK
  <2>7. ContentsOK(l, r)'
    BY <1>1, <1>3, <1>7, <2>1, <2>2 DEF ContentsOK, Flows
  <2> QED BY <1>1, <1>2, <1>3, <2>1, <2>4, <2>5, <2>6, <2>7 DEF Local
<1>9. MsgsSame(l, l)
  <2>1. \A q \in Ranks \ {r} : \A k, p : SentN(l, q, k)' = SentN(l, q, k) /\ RecvN(l, q, p, k)' = RecvN(l, q, p, k)
    BY <1>5, CountsKept
  <2>2. \A k, p : SentN(l, r, k)' = SentN(l, r, k) /\ RecvN(l, r, p, k)' = RecvN(l, r, p, k)
    BY <1>1, <1>6 DEF SentN, RecvN
  <2> QED BY <2>1, <2>2 DEF MsgsSame
<1>10. Channels(l)'
  BY <1>1, <1>2, <1>9, ChannelsKept
<1> QED BY <1>1, <1>4, <1>5, <1>6, <1>8, <1>10, StepSame

\* Nothing is received yet.
LEMMA NoDomain == DOMAIN <<>> = {}
  OBVIOUS

\* A rank that partitions its buffer has Kp and Out in its two buffers, and posts a count.
LEMMA PartitionInv ==
  ASSUME NEW l, InvAt(l), NEW r \in Ranks, Partition(r)
  PROVE  InvAt(l)'
<1> DEFINE t == target(r)  e == [n |-> Len(Others(r))]
<1>1. /\ pc[r] = "stage" /\ setup' = setup
      /\ buffer' = [buffer EXCEPT ![r] = Kept(r)] /\ sent' = [sent EXCEPT ![r] = Others(r)]
      /\ size1' = [size1 EXCEPT ![r] = Larger(@, size0[r])]
      /\ Post(r, t, e) /\ got' = [got EXCEPT ![r] = <<>>] /\ pc' = [pc EXCEPT ![r] = "counts"]
      /\ UNCHANGED <<size0, given, ended>> /\ b_low' = b_low /\ n_sub' = n_sub
  BY DEF Partition, group
<1>2. setup \in Setups /\ Shape /\ Local(l, r) /\ Channels(l) /\ N \in Nat
  BY SizeType DEF InvAt
<1>3. /\ pc'[r] = "counts" /\ buffer'[r] = Kept(r) /\ sent'[r] = Others(r) /\ got'[r] = <<>>
      /\ size1'[r] = Larger(size1[r], size0[r])
  BY <1>1, <1>2 DEF Shape
<1>4. Shape'
  <2>1. Ranks' = Ranks
    BY <1>1, StaticsSame
  <2> QED BY <1>1, <1>2, <2>1 DEF Shape, Post
<1>5. \A q \in Ranks \ {r} : SameAt(q)
  BY <1>1, <1>2 DEF Shape, SameAt
<1>6. Working(r) /\ Working(r)'
  BY <1>1, <1>3 DEF Working
<1>7. PICK k \in 0 .. N - 1, f \in Flows :
        /\ k = l[r] /\ f = ended[r] /\ Link(k, r, t) /\ t \in Ranks
        /\ Kept(r) = Keep(G(k, r), buffer[r], r) /\ Others(r) = Away(G(k, r), buffer[r], r)
  BY <1>6, WorkOps
<1>8. Kept(r) = Kp(f, k, r) /\ Others(r) = Out(f, k, r) /\ buffer[r] = H(f, k, r)
  <2>1. buffer[r] = H(f, k, r)
    BY <1>1, <1>2, <1>7 DEF Local, ContentsOK
  <2> QED BY <1>7, <2>1 DEF Kp, Out
<1>9. Local(l, r)'
  <2>1. /\ N' = N /\ \A j, q : G(j, q)' = G(j, q)
        /\ \A g, j, q : H(g, j, q)' = H(g, j, q)
        /\ \A g, j, q : Kp(g, j, q)' = Kp(g, j, q)
        /\ \A g, j, q : Out(g, j, q)' = Out(g, j, q)
    BY <1>1, StaticsSame
  <2>2. SizesOK(r)'
    <3>1. /\ Len(Kp(f, k, r)) <= Len(H(f, k, r)) /\ Len(Out(f, k, r)) <= Len(H(f, k, r))
          /\ H(f, k, r) \in Seq(Elements(f)) /\ Kp(f, k, r) \in Seq(Elements(f)) /\ Out(f, k, r) \in Seq(Elements(f))
      BY <1>2, StageFacts
    <3>2. size0[r] \in Nat /\ size1[r] \in Nat /\ Len(H(f, k, r)) <= size0[r]
      BY <1>2, <1>8 DEF Local, SizesOK
    <3>3. size1'[r] \in Nat /\ size1'[r] >= size0[r]
      BY <1>3, <3>2 DEF Larger
    <3>4. Len(H(f, k, r)) \in Nat /\ Len(Kp(f, k, r)) \in Nat /\ Len(Out(f, k, r)) \in Nat
      BY <3>1
    <3>5. size0'[r] = size0[r] /\ Len(Out(f, k, r)) <= size1'[r] /\ Len(Kp(f, k, r)) <= size0[r]
      BY <1>1, <3>1, <3>2, <3>3, <3>4
    <3> QED BY <1>3, <1>8, <3>2, <3>3, <3>5 DEF SizesOK
  <2>3. GivenTo(r, NGiven(r))' = GivenTo(r, NGiven(r))
    BY <1>1, <1>6, <2>1 DEF GivenTo, NGiven
  <2>4. PlaceOK(l, r)'
    BY <1>1, <1>2, <1>6, <2>1 DEF PlaceOK, Local
  <2>5. GotCounts(l, r)'
    BY <1>3, NoDomain DEF GotCounts
  <2>6. ContentsOK(l, r)'
    BY <1>1, <1>3, <1>7, <1>8, <2>1, <2>5 DEF ContentsOK
  <2> QED BY <1>1, <1>2, <1>3, <2>1, <2>2, <2>3, <2>4, <2>6 DEF Local
<1>10. SentN(l, r, k) = 2 * f
  BY <1>1, <1>6, <1>7 DEF SentN, SentHere, Flows
<1>11. \A j \in 0 .. N - 1 : SentN(l, r, j)' = SentN(l, r, j) + (IF j = k THEN 1 ELSE 0)
  <2>1. ended'[r] = ended[r] /\ f \in Nat
    BY <1>1 DEF Flows
  <2> SUFFICES ASSUME NEW j \in 0 .. N - 1
               PROVE  SentN(l, r, j)' = SentN(l, r, j) + (IF j = k THEN 1 ELSE 0)
    OBVIOUS
  <2>2. CASE j = k
    BY <1>1, <1>3, <1>6, <1>7, <2>1, <2>2 DEF SentN, SentHere
  <2>3. CASE j # k
    BY <1>2, <1>1, <1>3, <1>6, <1>7, <2>1, <2>3 DEF SentN, SentHere
  <2> QED BY <2>2, <2>3
<1>12. \A j, q : RecvN(l, r, q, j)' = RecvN(l, r, q, j)
  <2>1. \A q : RecvHere(r, q)' = RecvHere(r, q)
    BY <1>1, <1>3, NoDomain DEF RecvHere
  <2> QED BY <1>1, <1>6, <2>1 DEF RecvN
<1>13. \A q \in Ranks \ {r} : \A j, p : SentN(l, q, j)' = SentN(l, q, j) /\ RecvN(l, q, p, j)' = RecvN(l, q, p, j)
  BY <1>5, CountsKept
<1>14. Channels(l)'
  <2>1. e = Msgs(k, r)[SentN(l, r, k) + 1]
    BY <1>8, <1>10, MsgsAre
  <2>2. \A j \in 0 .. N - 1 : \A q \in Ranks : SentN(l, q, j) \in Nat
    BY <1>2, CountsTyped DEF InvAt
  <2>3. \A j \in 0 .. N - 1 : \A q, p \in Ranks : Link(j, q, p) =>
           /\ SentN(l, q, j)' = SentN(l, q, j) + (IF q = r /\ j = k THEN 1 ELSE 0)
           /\ RecvN(l, p, q, j)' = RecvN(l, p, q, j)
    BY <1>11, <1>12, <1>13, <2>2
  <2>4. \A q \in Ranks : Local(l, q)
    BY DEF InvAt
  <2> HIDE DEF t, e
  <2> QED BY <1>1, <1>2, <1>7, <2>1, <2>3, <2>4, ChannelsPost
<1> QED BY <1>1, <1>4, <1>5, <1>6, <1>9, <1>14, StepSame

\* A message received is that of the sender, at the stage and exchange of the receiver.
LEMMA ReceiveInv ==
  ASSUME NEW l, InvAt(l), NEW r \in Ranks, Receive(r)
  PROVE  InvAt(l)'
<1>1. PICK s \in Sources(r) \ DOMAIN got[r] :
        /\ chan[<<s, r>>] # <<>>
        /\ got' = [got EXCEPT ![r] = [p \in DOMAIN @ \cup {s} |->
                    IF p = s THEN Head(chan[<<s, r>>]) ELSE @[p]]]
        /\ chan' = [chan EXCEPT ![<<s, r>>] = Tail(@)]
  BY DEF Receive
<1>2. /\ pc[r] \in {"counts", "data"} /\ setup' = setup /\ pc' = pc /\ b_low' = b_low /\ n_sub' = n_sub
      /\ UNCHANGED <<buffer, sent, size0, size1, given, ended>>
  BY DEF Receive, group
<1>3. setup \in Setups /\ Shape /\ Local(l, r) /\ Channels(l) /\ N \in Nat
  BY SizeType DEF InvAt
<1>4. got'[r] = [p \in DOMAIN got[r] \cup {s} |-> IF p = s THEN Head(chan[<<s, r>>]) ELSE got[r][p]]
  BY <1>1, <1>3 DEF Shape
<1>5. Shape'
  <2>1. Ranks' = Ranks
    BY <1>2, StaticsSame
  <2> QED BY <1>1, <1>2, <1>3, <2>1 DEF Shape
<1>6. \A q \in Ranks \ {r} : SameAt(q)
  BY <1>1, <1>2, <1>3 DEF Shape, SameAt
<1>7. Working(r) /\ Working(r)'
  BY <1>2 DEF Working
<1>8. PICK k \in 0 .. N - 1, f \in Flows :
        k = l[r] /\ f = ended[r] /\ Sources(r) = Senders(G(k, r), r) /\ G(k, r)[2] > 1 /\ k \in 0 .. N
  BY <1>7, WorkOps
<1>9. s \in Ranks /\ Link(k, s, r)
  BY <1>1, <1>3, <1>8, LinkFrom
<1>10. \A q \in Ranks \ {r} : \A j, p : SentN(l, q, j)' = SentN(l, q, j) /\ RecvN(l, q, p, j)' = RecvN(l, q, p, j)
  BY <1>6, CountsKept
<1>11. \A j : SentN(l, r, j)' = SentN(l, r, j)
  BY <1>2, <1>7 DEF SentN, SentHere
<1>12. \A j \in 0 .. N - 1 : \A q : RecvN(l, r, q, j)' = RecvN(l, r, q, j) + (IF q = s /\ j = k THEN 1 ELSE 0)
  <2>1. \A q : RecvHere(r, q) \in Nat /\ RecvHere(r, q)' = RecvHere(r, q) + (IF q = s THEN 1 ELSE 0)
    <3>1. \A q : q \in DOMAIN got'[r] <=> q \in DOMAIN got[r] \/ q = s
      BY <1>4
    <3>2. s \notin DOMAIN got[r]
      BY <1>1
    <3> QED BY <1>2, <3>1, <3>2 DEF RecvHere
  <2>2. ended'[r] = ended[r] /\ f \in Nat
    BY <1>2 DEF Flows
  <2> SUFFICES ASSUME NEW j \in 0 .. N - 1, NEW q
               PROVE  RecvN(l, r, q, j)' = RecvN(l, r, q, j) + (IF q = s /\ j = k THEN 1 ELSE 0)
    OBVIOUS
  <2>3. CASE j = k
    BY <1>2, <1>7, <1>8, <2>1, <2>2, <2>3 DEF RecvN
  <2>4. CASE j # k
    <3>1. l[r] < j \/ l[r] > j
      BY <1>3, <1>8, <2>4
    <3> QED BY <1>2, <1>3, <1>7, <1>8, <2>2, <2>4, <3>1 DEF RecvN
  <2> QED BY <2>3, <2>4
<1>13. Channels(l)' /\ Head(chan[<<s, r>>]) = Msgs(k, s)[RecvN(l, r, s, k) + 1]
  <2>1. \A j \in 0 .. N - 1 : \A q \in Ranks : \A p : RecvN(l, q, p, j) \in Nat
    BY <1>3, CountsTyped DEF InvAt
  <2>2. \A j \in 0 .. N - 1 : \A q, p \in Ranks : Link(j, q, p) =>
           /\ SentN(l, q, j)' = SentN(l, q, j)
           /\ RecvN(l, p, q, j)' = RecvN(l, p, q, j) + (IF q = s /\ p = r /\ j = k THEN 1 ELSE 0)
    <3> SUFFICES ASSUME NEW j \in 0 .. N - 1, NEW q \in Ranks, NEW p \in Ranks
                 PROVE  /\ SentN(l, q, j)' = SentN(l, q, j)
                        /\ RecvN(l, p, q, j)' = RecvN(l, p, q, j) + (IF q = s /\ p = r /\ j = k THEN 1 ELSE 0)
      OBVIOUS
    <3>1. SentN(l, q, j)' = SentN(l, q, j)
      BY <1>10, <1>11
    <3>2. CASE p = r
      BY <1>12, <3>1, <3>2
    <3>3. CASE p # r
      BY <1>10, <2>1, <3>1, <3>3
    <3> QED BY <3>2, <3>3
  <2>3. \A q \in Ranks : Local(l, q)
    BY DEF InvAt
  <2> QED BY <1>1, <1>2, <1>3, <1>9, <2>2, <2>3, ChannelsReceive
<1>14. pc[r] = "counts" => Head(chan[<<s, r>>]) = [n |-> Len(Out(f, k, s))]
  <2> SUFFICES ASSUME pc[r] = "counts" PROVE Head(chan[<<s, r>>]) = [n |-> Len(Out(f, k, s))]
    OBVIOUS
  <2>1. RecvN(l, r, s, k) = 2 * f
    BY <1>1, <1>7, <1>8 DEF RecvN, RecvHere, Flows
  <2> QED BY <1>13, <2>1, MsgsAre
<1>15. pc[r] = "data" => Head(chan[<<s, r>>]) = [elts |-> Out(f, k, s)]
  <2> SUFFICES ASSUME pc[r] = "data" PROVE Head(chan[<<s, r>>]) = [elts |-> Out(f, k, s)]
    OBVIOUS
  <2>1. RecvN(l, r, s, k) = 2 * f + 1
    BY <1>1, <1>7, <1>8 DEF RecvN, RecvHere, Flows
  <2>2. (2 * f + 1) + 1 = 2 * f + 2
    BY DEF Flows
  <2> QED BY <1>13, <2>1, <2>2, MsgsAre
<1>16. Local(l, r)'
  <2>1. /\ N' = N /\ \A j, q : G(j, q)' = G(j, q)
        /\ \A g, j, q : H(g, j, q)' = H(g, j, q)
        /\ \A g, j, q : Kp(g, j, q)' = Kp(g, j, q)
        /\ \A g, j, q : Out(g, j, q)' = Out(g, j, q)
    BY <1>2, StaticsSame
  <2>2. SizesOK(r)'
    BY <1>2, <1>3 DEF Local, SizesOK
  <2>3. GivenTo(r, NGiven(r))' = GivenTo(r, NGiven(r))
    BY <1>2, <1>7, <2>1 DEF GivenTo, NGiven
  <2>4. PlaceOK(l, r)'
    BY <1>2, <1>3, <1>7, <2>1 DEF PlaceOK, Local
  <2>5. pc[r] = "counts" => GotCounts(l, r)'
    <3> SUFFICES ASSUME pc[r] = "counts" PROVE GotCounts(l, r)'
      OBVIOUS
    <3>1. GotCounts(l, r)
      BY <1>3 DEF Local, ContentsOK
    <3> QED BY <1>1, <1>2, <1>4, <1>8, <1>14, <2>1, <3>1 DEF GotCounts
  <2>6. pc[r] = "data" => GotElts(l, r)'
    <3> SUFFICES ASSUME pc[r] = "data" PROVE GotElts(l, r)'
      OBVIOUS
    <3>1. GotElts(l, r)
      BY <1>3 DEF Local, ContentsOK
    <3> QED BY <1>1, <1>2, <1>4, <1>8, <1>15, <2>1, <3>1 DEF GotElts
  <2>7. ContentsOK(l, r)'
    <3>1. ContentsOK(l, r)
      BY <1>3 DEF Local
    <3> QED BY <1>2, <2>1, <2>5, <2>6, <3>1 DEF ContentsOK
  <2> QED BY <1>2, <1>3, <2>1, <2>2, <2>3, <2>4, <2>7 DEF Local
<1>17. ended'[r] = ended[r]
  BY <1>2
<1> QED BY <1>2, <1>5, <1>6, <1>7, <1>13, <1>16, <1>17, StepSame

\* When all counts are known there is room for what arrives.
LEMMA SendDataInv ==
  ASSUME NEW l, InvAt(l), NEW r \in Ranks, SendData(r)
  PROVE  InvAt(l)'
<1> DEFINE t == target(r)  e == [elts |-> sent[r]]
<1>1. /\ pc[r] = "counts" /\ DOMAIN got[r] = Sources(r) /\ setup' = setup
      /\ size0' = [size0 EXCEPT ![r] = Larger(@, Len(buffer[r]) + Incoming(r))]
      /\ Post(r, t, e) /\ got' = [got EXCEPT ![r] = <<>>] /\ pc' = [pc EXCEPT ![r] = "data"]
      /\ UNCHANGED <<buffer, sent, size1, given, ended>> /\ b_low' = b_low /\ n_sub' = n_sub
  BY DEF SendData, group, Waitall
<1>2. setup \in Setups /\ Shape /\ Local(l, r) /\ Channels(l) /\ N \in Nat
  BY SizeType DEF InvAt
<1>3. /\ pc'[r] = "data" /\ got'[r] = <<>>
      /\ size0'[r] = Larger(size0[r], Len(buffer[r]) + Incoming(r))
  BY <1>1, <1>2 DEF Shape
<1>4. Shape'
  <2>1. Ranks' = Ranks
    BY <1>1, StaticsSame
  <2> QED BY <1>1, <1>2, <2>1 DEF Shape, Post
<1>5. \A q \in Ranks \ {r} : SameAt(q)
  BY <1>1, <1>2 DEF Shape, SameAt
<1>6. Working(r) /\ Working(r)'
  BY <1>1, <1>3 DEF Working
<1>7. PICK k \in 0 .. N - 1, f \in Flows :
        /\ k = l[r] /\ f = ended[r] /\ Link(k, r, t) /\ t \in Ranks /\ G(k, r)[2] > 1 /\ k \in 0 .. N
        /\ t = Target(G(k, r), r) /\ n_recv(r) = Count(G(k, r), r) /\ Sources(r) = Senders(G(k, r), r)
  BY <1>6, WorkOps
<1>8. /\ buffer[r] = Kp(f, k, r) /\ sent[r] = Out(f, k, r)
      /\ \A q \in Sources(r) : got[r][q] = [n |-> Len(Out(f, k, q))]
  BY <1>1, <1>2, <1>7 DEF Local, ContentsOK, GotCounts
<1>9. Incoming(r) = Len(Arrived(f, k, r)) /\ Arrived(f, k, r) \in Seq(Elements(f))
  <2>1. Arrived(f, k, r) \in Seq(Elements(f)) /\ Len(Arrived(f, k, r)) = Coming(f, k, t, n_recv(r))
    BY <1>2, <1>7, NextHeld, ArrivedLen
  <2>2. n_recv(r) \in 0 .. 2 /\ t \in Int
    BY <1>2, <1>7, SenderAt
  <2>3. \A i : i \in Int /\ t <= i /\ i <= t + n_recv(r) - 1 => got[r][i].n = Len(Out(f, k, i))
    <3>1. \A i : i \in Int /\ t <= i /\ i <= t + n_recv(r) - 1 => i \in Sources(r)
      BY <2>2 DEF Sources
    <3> SUFFICES ASSUME NEW i, i \in Sources(r) PROVE got[r][i].n = Len(Out(f, k, i))
      BY <3>1
    <3>2. got[r][i] = [n |-> Len(Out(f, k, i))]
      BY <1>8
    <3> QED BY <3>2
  <2> HIDE DEF t
  <2>4. n_recv(r) >= 1 => got[r][t + 0].n = Len(Out(f, k, t))
    BY <2>2, <2>3
  <2>5. n_recv(r) = 2 => got[r][t + 1].n = Len(Out(f, k, t + 1))
    BY <2>2, <2>3
  <2>6. Incoming(r) = Coming(f, k, t, n_recv(r))
    BY <2>2, <2>4, <2>5 DEF Incoming, Coming, t
  <2> QED BY <2>1, <2>6
<1>10. /\ Len(H(f, k + 1, r)) = Len(buffer[r]) + Incoming(r) /\ Len(buffer[r]) \in Nat
       /\ Incoming(r) \in Nat
  <2>1. H(f, k + 1, r) = Cat(Kp(f, k, r), Arrived(f, k, r))
    BY <1>2, <1>7, NextHeld
  <2>2. Kp(f, k, r) \in Seq(Elements(f))
    BY <1>2, StageFacts
  <2>3. Len(Cat(Kp(f, k, r), Arrived(f, k, r))) = Len(Kp(f, k, r)) + Len(Arrived(f, k, r))
    BY <1>9, <2>2, CatTyped
  <2> QED BY <1>8, <1>9, <2>1, <2>2, <2>3
<1>11. Local(l, r)'
  <2>1. /\ N' = N /\ \A j, q : G(j, q)' = G(j, q)
        /\ \A g, j, q : H(g, j, q)' = H(g, j, q)
        /\ \A g, j, q : Kp(g, j, q)' = Kp(g, j, q)
        /\ \A g, j, q : Out(g, j, q)' = Out(g, j, q)
    BY <1>1, StaticsSame
  <2>2. /\ size0'[r] \in Nat /\ Len(buffer[r]) <= size0'[r] /\ Len(H(f, k + 1, r)) <= size0'[r]
    <3>1. size0[r] \in Nat
      BY <1>2 DEF Local, SizesOK
    <3> QED BY <1>3, <1>10, <3>1 DEF Larger
  <2>3. SizesOK(r)'
    BY <1>1, <1>2, <2>2 DEF Local, SizesOK
  <2>4. GivenTo(r, NGiven(r))' = GivenTo(r, NGiven(r))
    BY <1>1, <1>6, <2>1 DEF GivenTo, NGiven
  <2>5. PlaceOK(l, r)'
    BY <1>1, <1>2, <1>6, <2>1 DEF PlaceOK, Local
  <2>6. GotElts(l, r)'
    BY <1>3, NoDomain DEF GotElts
  <2>7. ContentsOK(l, r)'
    BY <1>1, <1>3, <1>7, <1>8, <2>1, <2>2, <2>6 DEF ContentsOK
  <2> QED BY <1>1, <1>2, <1>3, <2>1, <2>3, <2>4, <2>5, <2>7 DEF Local
<1>12. SentN(l, r, k) = 2 * f + 1
  BY <1>1, <1>6, <1>7 DEF SentN, SentHere
<1>13. \A j \in 0 .. N - 1 : SentN(l, r, j)' = SentN(l, r, j) + (IF j = k THEN 1 ELSE 0)
  <2>1. ended'[r] = ended[r] /\ f \in Nat
    BY <1>1 DEF Flows
  <2> QED BY <1>1, <1>3, <1>6, <1>7, <2>1 DEF SentN, SentHere
<1>14. \A j \in 0 .. N - 1 : \A q \in Ranks : Link(j, q, r) => RecvN(l, r, q, j)' = RecvN(l, r, q, j)
  <2> SUFFICES ASSUME NEW j \in 0 .. N - 1, NEW q \in Ranks, Link(j, q, r)
               PROVE  RecvN(l, r, q, j)' = RecvN(l, r, q, j)
    OBVIOUS
  <2>1. CASE j = k
    <3>1. q \in Sources(r)
      BY <1>2, <1>7, <2>1, LinkTo
    <3>2. RecvHere(r, q)' = 1 /\ RecvHere(r, q) = 1
      BY <1>1, <1>3, <3>1, NoDomain DEF RecvHere
    <3> QED BY <1>1, <1>6, <1>7, <2>1, <3>2 DEF RecvN
  <2>2. CASE j # k
    BY <1>1, <1>6, <1>7, <2>2 DEF RecvN
  <2> QED BY <2>1, <2>2
<1>15. \A q \in Ranks \ {r} : \A j, p : SentN(l, q, j)' = SentN(l, q, j) /\ RecvN(l, q, p, j)' = RecvN(l, q, p, j)
  BY <1>5, CountsKept
<1>16. Channels(l)'
  <2>1. e = Msgs(k, r)[SentN(l, r, k) + 1]
    <3>1. (2 * f + 1) + 1 = 2 * f + 2
      BY DEF Flows
    <3>2. Msgs(k, r)[2 * f + 2] = [elts |-> Out(f, k, r)]
      BY MsgsAre
    <3> QED BY <1>8, <1>12, <3>1, <3>2
  <2>2. \A j \in 0 .. N - 1 : \A q \in Ranks : SentN(l, q, j) \in Nat
    BY <1>2, CountsTyped DEF InvAt
  <2>3. \A j \in 0 .. N - 1 : \A q, p \in Ranks : Link(j, q, p) =>
           /\ SentN(l, q, j)' = SentN(l, q, j) + (IF q = r /\ j = k THEN 1 ELSE 0)
           /\ RecvN(l, p, q, j)' = RecvN(l, p, q, j)
    BY <1>13, <1>14, <1>15, <2>2
  <2>4. \A q \in Ranks : Local(l, q)
    BY DEF InvAt
  <2> HIDE DEF t, e
  <2> QED BY <1>1, <1>2, <1>7, <2>1, <2>3, <2>4, ChannelsPost
<1>17. ended'[r] = ended[r]
  BY <1>1
<1> QED BY <1>1, <1>4, <1>5, <1>6, <1>11, <1>16, <1>17, StepSame

\* The first group is the whole communicator.
LEMMA Root ==
  ASSUME setup \in Setups, NEW r \in Ranks
  PROVE  G(0, r)[1] = 0 /\ G(0, r)[2] = N
<1>1. Tree[0] = [p \in Ranks |-> <<0, N>>]
  BY TreeExists DEF IsTree
<1> QED BY <1>1 DEF G

\* What is given to the next exchange.
LEMMA GivenNext ==
  ASSUME NEW r, NEW f \in Flows
  PROVE  Append(GivenTo(r, f), H(f, 0, r)) = GivenTo(r, f + 1)
<1>1. CASE f = 0
  BY <1>1 DEF GivenTo
<1>2. CASE f = 1
  <2>1. PICK x, y : x = H(0, 0, r) /\ y = H(1, 0, r)
    OBVIOUS
  <2>2. GivenTo(r, 1) = <<x>> /\ GivenTo(r, 2) = <<x, y>>
    BY <2>1 DEF GivenTo
  <2>3. PICK t : t = Append(<<x>>, y)
    OBVIOUS
  <2>4. t = <<x, y>>
    <3>1. PICK T : T = {x, y}
      OBVIOUS
    <3>2. x \in T /\ y \in T
      BY <3>1
    <3>3. <<x>> \in Seq(T) /\ Len(<<x>>) = 1 /\ <<x>>[1] = x /\ 1 \in 1 .. Len(<<x>>)
      BY <3>2
    <3>4. t \in Seq(T) /\ Len(t) = 2 /\ t[1] = x /\ t[2] = y
      BY <2>3, <3>2, <3>3, AppendProperties
    <3>5. <<x, y>> \in Seq(T) /\ Len(<<x, y>>) = 2 /\ <<x, y>>[1] = x /\ <<x, y>>[2] = y
      BY <3>2
    <3>6. \A i \in 1 .. 2 : i = 1 \/ i = 2
      OBVIOUS
    <3>7. PICK u : u = <<x, y>>
      OBVIOUS
    <3> QED BY <3>4, <3>5, <3>6, <3>7, SeqEqual
  <2>5. f + 1 = 2
    BY <1>2
  <2> QED BY <1>2, <2>1, <2>2, <2>3, <2>4, <2>5
<1> QED BY <1>1, <1>2 DEF Flows

\* Entering an exchange is being at its first stage.
LEMMA EnterInv ==
  ASSUME NEW l, InvAt(l), NEW r \in Ranks, Enter(r)
  PROVE  \E m : InvAt(m)'
<1>1. /\ pc[r] = "enter" /\ setup' = setup /\ pc' = [pc EXCEPT ![r] = "stage"]
      /\ given' = [given EXCEPT ![r] = Append(@, buffer[r])]
      /\ b_low' = [b_low EXCEPT ![r] = 0] /\ n_sub' = [n_sub EXCEPT ![r] = N]
      /\ UNCHANGED <<buffer, sent, size0, size1, got, chan, ended>>
  BY DEF Enter
<1>2. /\ setup \in Setups /\ Shape /\ Local(l, r) /\ Channels(l) /\ N \in Nat /\ N > 1
      /\ l \in [Ranks -> 0 .. N - 1]
  BY SizeType DEF InvAt
<1>3. /\ pc'[r] = "stage" /\ given'[r] = Append(given[r], buffer[r]) /\ b_low'[r] = 0 /\ n_sub'[r] = N
  BY <1>1, <1>2 DEF Shape
<1> DEFINE m == [l EXCEPT ![r] = 0]
<1>4. m \in [Ranks -> 0 .. N - 1] /\ m[r] = 0 /\ \A q \in Ranks \ {r} : m[q] = l[q]
  BY <1>2
<1> HIDE DEF m
<1>5. /\ N' = N /\ Ranks' = Ranks /\ \A j, q : G(j, q)' = G(j, q)
      /\ \A j, q : Src(j, q)' = Src(j, q)
      /\ \A g, j, q : H(g, j, q)' = H(g, j, q)
  BY <1>1, StaticsSame
<1>6. Shape'
  BY <1>1, <1>2, <1>5 DEF Shape
<1>7. \A q \in Ranks \ {r} : SameAt(q)
  BY <1>1, <1>2 DEF Shape, SameAt
<1>8. ~Working(r) /\ Working(r)'
  BY <1>1, <1>3 DEF Working
<1>9. PICK f \in Flows : f = ended[r] /\ buffer[r] = H(f, 0, r) /\ sent[r] = <<>>
  BY <1>1, <1>2 DEF Local, ContentsOK
<1>10. NGiven(r) = f /\ NGiven(r)' = f + 1
  BY <1>1, <1>8, <1>9 DEF NGiven, Flows
<1>11. Local(m, r)'
  <2>1. given'[r] = GivenTo(r, f + 1)
    <3>1. given[r] = GivenTo(r, f)
      BY <1>2, <1>10 DEF Local
    <3> QED BY <1>3, <1>9, <3>1, GivenNext
  <2>2. GivenTo(r, NGiven(r))' = GivenTo(r, f + 1)
    BY <1>5, <1>10 DEF GivenTo
  <2>3. SizesOK(r)'
    BY <1>1, <1>2 DEF Local, SizesOK
  <2>4. PlaceOK(m, r)'
    BY <1>1, <1>2, <1>3, <1>4, <1>5, <1>9, Root DEF PlaceOK
  <2>5. ContentsOK(m, r)'
    BY <1>1, <1>3, <1>4, <1>5, <1>9 DEF ContentsOK
  <2> QED BY <1>1, <1>2, <1>3, <1>4, <1>5, <2>1, <2>2, <2>3, <2>4, <2>5 DEF Local
<1>12. \A q \in Ranks : Local(m, q)'
  <2>1. ASSUME NEW q \in Ranks \ {r} PROVE Local(m, q)'
    <3>1. SameAt(q) /\ m[q] = l[q] /\ Local(l, q)
      BY <1>4, <1>7 DEF InvAt
    <3> QED BY <1>1, <3>1, LocalSame
  <2> QED BY <1>11, <2>1
<1>13. \A q \in Ranks \ {r} :
         /\ \A k : SentN(m, q, k)' = SentN(l, q, k)
         /\ \A k, p : RecvN(m, q, p, k)' = RecvN(l, q, p, k)
         /\ NGiven(q)' = NGiven(q) /\ (Working(q)' <=> Working(q)) /\ ended'[q] = ended[q]
  BY <1>4, <1>7, CountsSame
<1>14. MsgsSame(l, m)
  <2>1. \A k \in 0 .. N - 1 : SentN(m, r, k)' = SentN(l, r, k)
    BY <1>1, <1>2, <1>3, <1>4, <1>8 DEF SentN, SentHere
  <2>2. \A k \in 0 .. N - 1 : \A p : RecvN(m, r, p, k)' = RecvN(l, r, p, k)
    BY <1>1, <1>2, <1>3, <1>4, <1>8 DEF RecvN, RecvHere
  <2> QED BY <1>13, <2>1, <2>2 DEF MsgsSame
<1>15. Channels(m)'
  BY <1>1, <1>2, <1>14, ChannelsKept
<1>16. Causal(m)'
  <2>1. \A q \in Ranks : NGiven(q)' >= NGiven(q) /\ NGiven(q)' \in Nat /\ NGiven(q) \in Nat /\ ended[q] \in Nat
    <3>1. \A q \in Ranks : NGiven(q) \in Nat /\ ended[q] \in Nat
      BY <1>2, CountsTyped DEF InvAt
    <3> QED BY <1>10, <1>13, <3>1
  <2>2. Causal(l)
    BY DEF InvAt
  <2>3. Src(0, r) = {r}
    BY <1>2, SrcTyped
  <2>4. ASSUME NEW s \in Ranks, NEW q \in Ranks
        PROVE  /\ NGiven(q)' >= ended'[s]
               /\ Working(s)' /\ q \in Src(m[s], s) => NGiven(q)' > ended'[s]
    <3>1. ended'[s] = ended[s] /\ NGiven(q) >= ended[s]
      BY <1>1, <2>2 DEF Causal
    <3>2. CASE s = r
      <4>1. q \in Src(m[s], s) => q = r
        BY <1>4, <2>3, <3>2
      <4>2. NGiven(r)' > ended'[r]
        BY <1>1, <1>9, <1>10 DEF Flows
      <4> QED BY <2>1, <3>1, <3>2, <4>1, <4>2
    <3>3. CASE s # r
      <4>1. (Working(s)' <=> Working(s)) /\ m[s] = l[s]
        BY <1>4, <1>13, <3>3
      <4> QED BY <2>1, <2>2, <3>1, <4>1 DEF Causal
    <3> QED BY <3>2, <3>3
  <2> QED BY <1>5, <2>4 DEF Causal
<1>17. InvAt(m)'
  BY <1>1, <1>2, <1>4, <1>5, <1>6, <1>12, <1>15, <1>16 DEF InvAt
<1> QED BY <1>17

-------------------------------------------------------------------------------
\* At the end of a stage, a rank has what it should have, and those it has something of
\* have all entered the exchange.
LEMMA EndFacts ==
  ASSUME NEW l, InvAt(l), NEW r \in Ranks, EndStage(r), NEW k, k = l[r], NEW f, f = ended[r]
  PROVE  /\ buffer[r] \o Received(r) = H(f, k + 1, r)
         /\ Len(H(f, k + 1, r)) <= size0[r] /\ size0[r] \in Nat
         /\ \A q \in Src(k + 1, r) : NGiven(q) > f
         /\ DOMAIN got[r] = Sources(r)
<1>1. pc[r] = "data" /\ DOMAIN got[r] = Sources(r)
  BY DEF EndStage, Waitall
<1>2. setup \in Setups /\ Local(l, r) /\ Channels(l) /\ Causal(l) /\ N \in Nat
  BY SizeType DEF InvAt
<1>3. Working(r)
  BY <1>1 DEF Working
<1>4. /\ k \in 0 .. N - 1 /\ k \in 0 .. N /\ k \in Nat /\ f \in Flows /\ G(k, r)[2] > 1
      /\ target(r) = Target(G(k, r), r) /\ n_recv(r) = Count(G(k, r), r)
      /\ Sources(r) = Senders(G(k, r), r)
  BY <1>3, WorkOps
<1>5. /\ buffer[r] = Kp(f, k, r) /\ Len(H(f, k + 1, r)) <= size0[r] /\ size0[r] \in Nat
      /\ \A q \in Sources(r) : got[r][q] = [elts |-> Out(f, k, q)]
  BY <1>1, <1>2 DEF Local, ContentsOK, GotElts, SizesOK
<1>6. Received(r) = Arrived(f, k, r)
  <2>1. \A i \in 1 .. n_recv(r) : target(r) + i - 1 \in Sources(r)
    BY <1>2, <1>4, SenderAt
  <2>2. \A i \in 1 .. n_recv(r) : got[r][target(r) + i - 1].elts = Out(f, k, target(r) + i - 1)
    <3> SUFFICES ASSUME NEW i \in 1 .. n_recv(r)
                 PROVE  got[r][target(r) + i - 1].elts = Out(f, k, target(r) + i - 1)
      OBVIOUS
    <3>1. got[r][target(r) + i - 1] = [elts |-> Out(f, k, target(r) + i - 1)]
      BY <1>5, <2>1
    <3> QED BY <3>1
  <2> QED BY <1>4, <2>2 DEF Received, Arrived
<1>7. buffer[r] \o Received(r) = H(f, k + 1, r)
  <2>1. H(f, k + 1, r) = Cat(Kp(f, k, r), Arrived(f, k, r))
    BY <1>2, <1>4, NextHeld
  <2> QED BY <1>5, <1>6, <2>1 DEF Cat
<1>8. ASSUME NEW q \in Src(k + 1, r) PROVE NGiven(q) > f
  <2>1. q \in Ranks
    <3>1. k + 1 \in 0 .. N
      BY <1>2, <1>4
    <3> QED BY <1>2, <3>1, SrcTyped
  <2>2. q \in Src(k, r) \/ \E s \in Senders(G(k, r), r) : q \in Src(k, s)
    BY <1>2, <1>4, <1>8, SrcNext
  <2>3. CASE q \in Src(k, r)
    BY <1>2, <1>3, <2>1, <2>3 DEF Causal
  <2>4. ASSUME NEW s \in Senders(G(k, r), r), q \in Src(k, s) PROVE NGiven(q) > f
    <3>1. s \in Ranks /\ Link(k, s, r)
      BY <1>2, <1>4, LinkFrom
    <3>2. RecvN(l, r, s, k) <= SentN(l, s, k)
      BY <1>2, <1>4, <3>1 DEF Channels, ChannelOK
    <3>3. RecvN(l, r, s, k) = 2 * f + 2
      BY <1>1, <1>3, <1>4, <2>4 DEF RecvN, RecvHere, Flows
    <3>4. Local(l, s) /\ ended[s] \in Nat /\ l[s] \in Nat /\ l[s] \in 0 .. N /\ NGiven(q) \in Nat
      <4>1. Local(l, s) /\ Local(l, q)
        BY <2>1, <3>1 DEF InvAt
      <4> QED BY <1>2, <4>1, CountsTyped DEF Local
    <3>5. NGiven(q) >= ended[s]
      BY <1>2, <2>1, <3>1 DEF Causal
    <3>6. CASE ended[s] > f
      BY <1>4, <3>4, <3>5, <3>6 DEF Flows
    <3>7. CASE ~(ended[s] > f)
      <4>1. ended[s] = f /\ Working(s) /\ l[s] >= k
        BY <1>4, <3>2, <3>3, <3>4, <3>7 DEF SentN, SentHere, Flows
      <4>2. l[s] \in k .. N
        BY <1>2, <1>4, <3>4, <4>1
      <4>3. q \in Src(l[s], s)
        BY <1>2, <1>4, <2>4, <3>1, <4>2, SrcGrows
      <4> QED BY <1>2, <2>1, <3>1, <4>1, <4>3 DEF Causal
    <3> QED BY <3>6, <3>7
  <2> QED BY <2>2, <2>3, <2>4
<1> QED BY <1>1, <1>5, <1>7, <1>8

\* Ending a stage is being at the next one, or ending the exchange.
LEMMA EndStageInv ==
  ASSUME NEW l, InvAt(l), NEW r \in Ranks, EndStage(r)
  PROVE  \E m : InvAt(m)'
<1>1. /\ pc[r] = "data" /\ setup' = setup /\ UNCHANGED <<size0, chan, given>>
      /\ buffer' = [buffer EXCEPT ![r] = @ \o Received(r)]
      /\ sent' = [sent EXCEPT ![r] = <<>>] /\ got' = [got EXCEPT ![r] = <<>>]
      /\ b_low' = [b_low EXCEPT ![r] = NextLow(r)] /\ n_sub' = [n_sub EXCEPT ![r] = NextSize(r)]
      /\ IF NextSize(r) > 1
         THEN pc' = [pc EXCEPT ![r] = "stage"] /\ size1' = size1 /\ ended' = ended
         ELSE /\ pc' = [pc EXCEPT ![r] = IF ended[r] = 0 THEN "edit" ELSE "sort"]
              /\ size1' = [size1 EXCEPT ![r] = 0]
              /\ ended' = [ended EXCEPT ![r] = @ + 1]
  BY DEF EndStage
<1>2. /\ setup \in Setups /\ Shape /\ Local(l, r) /\ Channels(l) /\ Causal(l) /\ N \in Nat /\ N > 1
      /\ l \in [Ranks -> 0 .. N - 1]
  BY SizeType DEF InvAt
<1>3. Working(r)
  BY <1>1 DEF Working
<1>4. PICK k \in 0 .. N - 1, f \in Flows :
        /\ k = l[r] /\ f = ended[r] /\ k \in 0 .. N /\ k + 1 \in 0 .. N /\ k \in Nat
        /\ Sources(r) = Senders(G(k, r), r)
        /\ NextLow(r) = G(k + 1, r)[1] /\ NextSize(r) = G(k + 1, r)[2]
  BY <1>3, WorkOps
<1>5. /\ buffer[r] \o Received(r) = H(f, k + 1, r) /\ Len(H(f, k + 1, r)) <= size0[r]
      /\ size0[r] \in Nat /\ DOMAIN got[r] = Sources(r)
      /\ \A q \in Src(k + 1, r) : NGiven(q) > f
  BY <1>4, EndFacts
<1>6. /\ buffer'[r] = H(f, k + 1, r) /\ sent'[r] = <<>> /\ got'[r] = <<>> /\ Len(<<>>) = 0
      /\ b_low'[r] = G(k + 1, r)[1] /\ n_sub'[r] = G(k + 1, r)[2]
  BY <1>1, <1>2, <1>4, <1>5 DEF Shape
<1>7. /\ N' = N /\ Ranks' = Ranks /\ \A j, q : G(j, q)' = G(j, q)
      /\ \A j, q : Src(j, q)' = Src(j, q)
      /\ \A g, j, q : H(g, j, q)' = H(g, j, q)
  BY <1>1, StaticsSame
<1>8. Shape'
  BY <1>1, <1>2, <1>7 DEF Shape
<1>9. \A q \in Ranks \ {r} : SameAt(q)
  BY <1>1, <1>2 DEF Shape, SameAt
<1>10. G(k + 1, r)[2] \in Nat
  BY <1>2, <1>4, RankGroup
<1>11. \A q \in Ranks : NGiven(q) \in Nat /\ ended[q] \in Nat
  BY <1>2, CountsTyped DEF InvAt
\* What one did at stages that it has passed, at this one, and at the others.
<1>12. \A j \in 0 .. N - 1 : SentN(l, r, j) = 2 * f + (IF j <= k THEN 2 ELSE 0)
  <2> SUFFICES ASSUME NEW j \in 0 .. N - 1 PROVE SentN(l, r, j) = 2 * f + (IF j <= k THEN 2 ELSE 0)
    OBVIOUS
  <2>1. f \in Nat /\ j \in Nat
    BY DEF Flows
  <2>2. CASE j < k
    BY <1>1, <1>3, <1>4, <2>1, <2>2 DEF SentN, SentHere
  <2>3. CASE j = k
    BY <1>1, <1>3, <1>4, <2>1, <2>3 DEF SentN, SentHere
  <2>4. CASE j > k
    BY <1>1, <1>3, <1>4, <2>1, <2>4 DEF SentN, SentHere
  <2>5. j < k \/ j = k \/ j > k
    BY <1>4, <2>1
  <2> QED BY <2>2, <2>3, <2>4, <2>5
<1>13. \A j \in 0 .. N - 1 : \A q \in Ranks : Link(j, q, r) =>
         RecvN(l, r, q, j) = 2 * f + (IF j <= k THEN 2 ELSE 0)
  <2> SUFFICES ASSUME NEW j \in 0 .. N - 1, NEW q \in Ranks, Link(j, q, r)
               PROVE  RecvN(l, r, q, j) = 2 * f + (IF j <= k THEN 2 ELSE 0)
    OBVIOUS
  <2>1. f \in Nat /\ j \in Nat
    BY DEF Flows
  <2>2. CASE j < k
    BY <1>1, <1>3, <1>4, <2>1, <2>2 DEF RecvN, RecvHere
  <2>3. CASE j = k
    <3>1. q \in DOMAIN got[r]
      BY <1>2, <1>4, <1>5, <2>3, LinkTo
    <3> QED BY <1>1, <1>3, <1>4, <2>1, <2>3, <3>1 DEF RecvN, RecvHere
  <2>4. CASE j > k
    BY <1>1, <1>3, <1>4, <2>1, <2>4 DEF RecvN, RecvHere
  <2>5. j < k \/ j = k \/ j > k
    BY <1>4, <2>1
  <2> QED BY <2>2, <2>3, <2>4, <2>5
<1>14. CASE NextSize(r) > 1
  <2> DEFINE m == [l EXCEPT ![r] = k + 1]
  <2>1. k + 1 \in 0 .. N - 1
    <3>1. k + 1 # N
      BY <1>2, <1>4, <1>14, TreeEnd
    <3> QED BY <1>2, <1>4, <3>1
  <2>2. m \in [Ranks -> 0 .. N - 1] /\ m[r] = k + 1 /\ \A q \in Ranks \ {r} : m[q] = l[q]
    BY <1>2, <2>1
  <2> HIDE DEF m
  <2>3. pc'[r] = "stage" /\ size1' = size1 /\ ended' = ended
    BY <1>1, <1>2, <1>14 DEF Shape
  <2>4. Working(r)'
    BY <2>3 DEF Working
  <2>5. NGiven(r)' = NGiven(r)
    BY <1>3, <2>3, <2>4 DEF NGiven
  <2>6. Local(m, r)'
    <3>1. GivenTo(r, NGiven(r))' = GivenTo(r, NGiven(r))
      BY <1>7, <2>5 DEF GivenTo
    <3>2. SizesOK(r)'
      BY <1>1, <1>2, <1>5, <1>6, <2>3 DEF Local, SizesOK
    <3>3. PlaceOK(m, r)'
      BY <1>4, <1>6, <1>7, <1>14, <2>2, <2>3 DEF PlaceOK
    <3>4. ContentsOK(m, r)'
      BY <1>4, <1>6, <1>7, <2>2, <2>3 DEF ContentsOK
    <3> QED BY <1>1, <1>2, <1>7, <2>1, <2>2, <2>3, <3>1, <3>2, <3>3, <3>4 DEF Local
  <2>7. \A q \in Ranks : Local(m, q)'
    <3>1. ASSUME NEW q \in Ranks \ {r} PROVE Local(m, q)'
      <4>1. SameAt(q) /\ m[q] = l[q] /\ Local(l, q)
        BY <1>9, <2>2 DEF InvAt
      <4> QED BY <1>1, <4>1, LocalSame
    <3> QED BY <2>6, <3>1
  <2>8. \A q \in Ranks \ {r} :
         /\ \A j : SentN(m, q, j)' = SentN(l, q, j)
         /\ \A j, p : RecvN(m, q, p, j)' = RecvN(l, q, p, j)
         /\ NGiven(q)' = NGiven(q) /\ (Working(q)' <=> Working(q)) /\ ended'[q] = ended[q]
    BY <1>9, <2>2, CountsSame
  <2>9. MsgsSame(l, m)
    <3>1. \A j \in 0 .. N - 1 : SentN(m, r, j)' = 2 * f + (IF j <= k THEN 2 ELSE 0)
      <4> SUFFICES ASSUME NEW j \in 0 .. N - 1 PROVE SentN(m, r, j)' = 2 * f + (IF j <= k THEN 2 ELSE 0)
        OBVIOUS
      <4>1. f \in Nat /\ j \in Nat /\ ended'[r] = f
        BY <1>4, <2>3 DEF Flows
      <4>2. CASE j <= k
        BY <1>4, <2>2, <2>4, <4>1, <4>2 DEF SentN
      <4>3. CASE j = k + 1
        BY <1>4, <2>2, <2>3, <2>4, <4>1, <4>3 DEF SentN, SentHere
      <4>4. CASE j > k + 1
        BY <1>4, <2>2, <2>4, <4>1, <4>4 DEF SentN
      <4>5. j <= k \/ j = k + 1 \/ j > k + 1
        BY <1>4, <4>1
      <4> QED BY <4>2, <4>3, <4>4, <4>5
    <3>2. \A j \in 0 .. N - 1 : \A q : RecvN(m, r, q, j)' = 2 * f + (IF j <= k THEN 2 ELSE 0)
      <4> SUFFICES ASSUME NEW j \in 0 .. N - 1, NEW q
                   PROVE  RecvN(m, r, q, j)' = 2 * f + (IF j <= k THEN 2 ELSE 0)
        OBVIOUS
      <4>1. f \in Nat /\ j \in Nat /\ ended'[r] = f
        BY <1>4, <2>3 DEF Flows
      <4>2. CASE j <= k
        BY <1>4, <2>2, <2>4, <4>1, <4>2 DEF RecvN
      <4>3. CASE j = k + 1
        BY <1>4, <2>2, <2>3, <2>4, <4>1, <4>3 DEF RecvN, RecvHere
      <4>4. CASE j > k + 1
        BY <1>4, <2>2, <2>4, <4>1, <4>4 DEF RecvN
      <4>5. j <= k \/ j = k + 1 \/ j > k + 1
        BY <1>4, <4>1
      <4> QED BY <4>2, <4>3, <4>4, <4>5
    <3> QED BY <1>12, <1>13, <2>8, <3>1, <3>2 DEF MsgsSame
  <2>10. Channels(m)'
    BY <1>1, <1>2, <2>9, ChannelsKept
  <2>11. Causal(m)'
    <3>1. \A q \in Ranks : NGiven(q)' = NGiven(q) /\ (Working(q)' <=> Working(q)) /\ ended'[q] = ended[q]
      BY <1>3, <2>3, <2>4, <2>5, <2>8
    <3>2. ASSUME NEW s \in Ranks, NEW q \in Ranks
          PROVE  /\ NGiven(q)' >= ended'[s]
                 /\ Working(s)' /\ q \in Src(m[s], s) => NGiven(q)' > ended'[s]
      <4>1. CASE s = r
        BY <1>2, <1>4, <1>5, <2>2, <3>1, <4>1 DEF Causal
      <4>2. CASE s # r
        BY <1>2, <2>2, <3>1, <4>2 DEF Causal
      <4> QED BY <4>1, <4>2
    <3> QED BY <1>7, <3>2 DEF Causal
  <2>12. InvAt(m)'
    BY <1>1, <1>2, <1>7, <1>8, <2>2, <2>7, <2>10, <2>11 DEF InvAt
  <2> QED BY <2>12
<1>15. CASE ~(NextSize(r) > 1)
  <2>1. /\ pc'[r] = (IF f = 0 THEN "edit" ELSE "sort") /\ size1'[r] = 0 /\ ended'[r] = f + 1
    BY <1>1, <1>2, <1>4, <1>15 DEF Shape
  <2>2. G(k + 1, r)[2] <= 1
    BY <1>4, <1>10, <1>15
  <2>3. ~Working(r)'
    BY <2>1 DEF Working
  <2>4. NGiven(r)' = f + 1 /\ NGiven(r) = f + 1 /\ f \in Nat
    BY <1>3, <1>4, <2>1, <2>3 DEF NGiven, Flows
  <2>5. H(f, k + 1, r) = H(f, N, r)
    BY <1>2, <1>4, <2>2, FlowFacts
  <2>6. Src(k + 1, r) = Ranks
    BY <1>2, <1>4, <2>2, SrcAll
  <2>7. \A j \in 0 .. N - 1 : G(j, r)[2] > 1 => j <= k
    <3> SUFFICES ASSUME NEW j \in 0 .. N - 1, G(j, r)[2] > 1, ~(j <= k) PROVE FALSE
      OBVIOUS
    <3>1. j \in k + 1 .. N
      BY <1>2, <1>4
    <3>2. G(j, r) = G(k + 1, r)
      BY <1>2, <1>4, <2>2, <3>1, TreeStable
    <3> QED BY <1>10, <2>2, <3>2
  <2>8. Local(l, r)'
    <3>1. GivenTo(r, NGiven(r))' = GivenTo(r, NGiven(r))
      BY <1>7, <2>4 DEF GivenTo
    <3>2. SizesOK(r)'
      BY <1>1, <1>2, <1>5, <1>6, <2>1 DEF Local, SizesOK
    <3>3. PlaceOK(l, r)'
      BY <2>3 DEF PlaceOK
    <3>4. ContentsOK(l, r)'
      <4>1. CASE f = 0
        BY <1>6, <1>7, <2>1, <2>5, <4>1 DEF ContentsOK
      <4>2. CASE f = 1
        BY <1>6, <1>7, <2>1, <2>5, <4>2 DEF ContentsOK
      <4> QED BY <4>1, <4>2 DEF Flows
    <3>5. ended'[r] \in 0 .. 2
      BY <2>1 DEF Flows
    <3> QED BY <1>1, <1>2, <1>7, <2>1, <3>1, <3>2, <3>3, <3>4, <3>5 DEF Local
  <2>9. \A q \in Ranks : Local(l, q)'
    <3>1. ASSUME NEW q \in Ranks \ {r} PROVE Local(l, q)'
      <4>1. SameAt(q) /\ l[q] = l[q] /\ Local(l, q)
        BY <1>9 DEF InvAt
      <4> QED BY <1>1, <4>1, LocalSame
    <3> QED BY <2>8, <3>1
  <2>10. \A q \in Ranks \ {r} :
         /\ \A j : SentN(l, q, j)' = SentN(l, q, j)
         /\ \A j, p : RecvN(l, q, p, j)' = RecvN(l, q, p, j)
    BY <1>9, CountsKept
  <2>11. MsgsSame(l, l)
    <3>1. \A j : SentN(l, r, j)' = 2 * f + 2
      BY <2>1, <2>3, <2>4 DEF SentN
    <3>2. \A j, q : RecvN(l, r, q, j)' = 2 * f + 2
      BY <2>1, <2>3, <2>4 DEF RecvN
    <3>3. \A j \in 0 .. N - 1 : \A q : Link(j, r, q) => SentN(l, r, j)' = SentN(l, r, j)
      BY <1>12, <2>7, <3>1 DEF Link
    <3>4. \A j \in 0 .. N - 1 : \A q \in Ranks : Link(j, q, r) => RecvN(l, r, q, j)' = RecvN(l, r, q, j)
      <4> SUFFICES ASSUME NEW j \in 0 .. N - 1, NEW q \in Ranks, Link(j, q, r)
                   PROVE  RecvN(l, r, q, j)' = RecvN(l, r, q, j)
        OBVIOUS
      <4>1. j \in 0 .. N
        BY <1>2
      <4>2. G(j, r)[2] > 1
        BY <1>2, <4>1, LinkTo
      <4> QED BY <1>13, <2>7, <3>2, <4>2
    <3> QED BY <2>10, <3>3, <3>4 DEF MsgsSame
  <2>12. Channels(l)'
    BY <1>1, <1>2, <2>11, ChannelsKept
  <2>13. Causal(l)'
    <3>1. \A q \in Ranks \ {r} : NGiven(q)' = NGiven(q) /\ (Working(q)' <=> Working(q)) /\ ended'[q] = ended[q]
      <4>1. \A q \in Ranks \ {r} : SameAt(q) /\ l[q] = l[q]
        BY <1>9
      <4> QED BY <4>1, CountsSame
    <3>2. \A q \in Ranks : NGiven(q)' = NGiven(q)
      BY <2>4, <3>1
    <3>3. ASSUME NEW s \in Ranks, NEW q \in Ranks
          PROVE  /\ NGiven(q)' >= ended'[s]
                 /\ Working(s)' /\ q \in Src(l[s], s) => NGiven(q)' > ended'[s]
      <4>1. CASE s = r
        <5>1. NGiven(q) > f /\ NGiven(q) \in Nat
          BY <1>5, <1>11, <2>6
        <5> QED BY <2>1, <2>3, <2>4, <3>2, <4>1, <5>1
      <4>2. CASE s # r
        BY <1>2, <3>1, <3>2, <4>2 DEF Causal
      <4> QED BY <4>1, <4>2
    <3> QED BY <1>7, <3>3 DEF Causal
  <2>14. InvAt(l)'
    BY <1>1, <1>2, <1>7, <1>8, <2>9, <2>12, <2>13 DEF InvAt
  <2> QED BY <2>14
<1> QED BY <1>14, <1>15

-------------------------------------------------------------------------------
(* The invariant holds; types and room in the buffers follow.                *)
Inv == \E l : InvAt(l)

\* What each rank starts with.
LEMMA FirstLocal ==
  ASSUME Init, NEW l, NEW r \in Ranks, l[r] = 0
  PROVE  Local(l, r)
<1>1. /\ setup \in Setups /\ pc[r] = "enter" /\ buffer[r] = Created(r) /\ sent[r] = <<>>
      /\ size0[r] = Len(Gnum(r)) /\ size1[r] = 0 /\ given[r] = <<>> /\ ended[r] = 0
  BY DEF Init
<1>2. N \in Nat /\ N > 1
  BY <1>1, SizeType
<1>3. Created(r) \in Seq(E1) /\ Len(Created(r)) = Len(Gnum(r)) /\ Gnum(r) \in Seq(Nat)
  BY <1>1, Give1
<1>4. H(0, 0, r) = Created(r)
  <2>1. 0 \in Flows /\ In(0) = In1
    BY DEF Flows, In
  <2>2. In1[r] = Created(r)
    BY DEF In1
  <2> QED BY <1>1, <2>1, <2>2, FlowFacts
<1>5. ~Working(r) /\ NGiven(r) = 0
  BY <1>1 DEF Working, NGiven
<1>6. SizesOK(r)
  BY <1>1, <1>3 DEF SizesOK
<1>7. PlaceOK(l, r)
  BY <1>5 DEF PlaceOK
<1>8. ContentsOK(l, r)
  BY <1>1, <1>4 DEF ContentsOK, Flows
<1>9. given[r] = GivenTo(r, NGiven(r))
  BY <1>1, <1>5 DEF GivenTo
<1> QED BY <1>1, <1>2, <1>6, <1>7, <1>8, <1>9 DEF Local

\* The invariant holds initially,
LEMMA InitInv == Init => Inv
<1> SUFFICES ASSUME Init PROVE Inv
  OBVIOUS
<1> DEFINE l == [r \in Ranks |-> 0]
<1>1. setup \in Setups
  BY DEF Init
<1>2. N \in Nat /\ N > 1
  BY <1>1, SizeType
<1>3. l \in [Ranks -> 0 .. N - 1] /\ \A r \in Ranks : l[r] = 0
  BY <1>2
<1> HIDE DEF l
<1>4. Shape
  BY DEF Init, Shape
<1>5. \A r \in Ranks : Local(l, r)
  BY <1>3, FirstLocal
<1>6. \A r \in Ranks : ~Working(r) /\ ended[r] = 0 /\ NGiven(r) = 0
  BY DEF Init, Working, NGiven
<1>7. Channels(l)
  <2> SUFFICES ASSUME NEW k \in 0 .. N - 1, NEW q \in Ranks, NEW r \in Ranks, Link(k, q, r)
               PROVE  ChannelOK(l, k, q, r)
    BY DEF Channels
  <2>1. SentN(l, q, k) = 0 /\ RecvN(l, r, q, k) = 0
    BY <1>6 DEF SentN, RecvN
  <2>2. chan[<<q, r>>] = <<>>
    BY DEF Init
  <2>3. Slice(Msgs(k, q), 0, 0) = <<>>
    BY SliceNone
  <2> QED BY <2>1, <2>2, <2>3 DEF ChannelOK
<1>8. Causal(l)
  BY <1>6 DEF Causal
<1>9. InvAt(l)
  BY <1>1, <1>3, <1>4, <1>5, <1>7, <1>8 DEF InvAt
<1> QED BY <1>9 DEF Inv

\* when nothing changes,
LEMMA StutterInv ==
  ASSUME NEW l, InvAt(l), UNCHANGED vars
  PROVE  InvAt(l)'
<1>1. /\ setup' = setup /\ pc' = pc /\ buffer' = buffer /\ sent' = sent /\ size0' = size0
      /\ size1' = size1 /\ b_low' = b_low /\ n_sub' = n_sub /\ got' = got /\ chan' = chan
      /\ given' = given /\ ended' = ended
  BY DEF vars, group
<1>2. \A q : SameAt(q)
  BY <1>1 DEF SameAt
<1>3. /\ N' = N /\ Ranks' = Ranks /\ \A k, r : Src(k, r)' = Src(k, r)
  BY <1>1, StaticsSame
<1>4. \A q \in Ranks : Local(l, q)'
  <2> SUFFICES ASSUME NEW q \in Ranks PROVE Local(l, q)'
    OBVIOUS
  <2>1. SameAt(q) /\ l[q] = l[q] /\ Local(l, q)
    BY <1>2 DEF InvAt
  <2> QED BY <1>1, <2>1, LocalSame
<1>5. MsgsSame(l, l)
  BY <1>2, CountsKept DEF MsgsSame
<1>6. Channels(l)'
  BY <1>1, <1>5, ChannelsKept DEF InvAt
<1>7. \A q : NGiven(q)' = NGiven(q) /\ (Working(q)' <=> Working(q)) /\ ended'[q] = ended[q]
  <2> SUFFICES ASSUME NEW q PROVE NGiven(q)' = NGiven(q) /\ (Working(q)' <=> Working(q)) /\ ended'[q] = ended[q]
    OBVIOUS
  <2>1. SameAt(q) /\ l[q] = l[q]
    BY <1>2
  <2> QED BY <2>1, CountsSame
<1>8. Causal(l)'
  BY <1>3, <1>7 DEF Causal, InvAt
<1>9. Shape'
  BY <1>1, <1>3 DEF Shape, InvAt
<1>10. setup' \in Setups /\ l \in [Ranks -> 0 .. N - 1]'
  BY <1>1, <1>3 DEF InvAt
<1> QED BY <1>4, <1>6, <1>8, <1>9, <1>10 DEF InvAt

\* and after each step.
LEMMA NextInv ==
  ASSUME Inv, [Next]_vars
  PROVE  Inv'
<1>1. PICK l : InvAt(l)
  BY DEF Inv
<1>2. CASE UNCHANGED vars
  <2>1. InvAt(l)'
    BY <1>1, <1>2, StutterInv
  <2> QED BY <2>1 DEF Inv
<1>3. ASSUME NEW r \in Ranks, Step(r) PROVE Inv'
  <2>1. CASE Enter(r)
    BY <1>1, <2>1, EnterInv DEF Inv
  <2>2. CASE Partition(r)
    <3>1. InvAt(l)'
      BY <1>1, <2>2, PartitionInv
    <3> QED BY <3>1 DEF Inv
  <2>3. CASE Receive(r)
    <3>1. InvAt(l)'
      BY <1>1, <2>3, ReceiveInv
    <3> QED BY <3>1 DEF Inv
  <2>4. CASE SendData(r)
    <3>1. InvAt(l)'
      BY <1>1, <2>4, SendDataInv
    <3> QED BY <3>1 DEF Inv
  <2>5. CASE EndStage(r)
    BY <1>1, <2>5, EndStageInv DEF Inv
  <2>6. CASE Edit(r)
    <3>1. InvAt(l)'
      BY <1>1, <2>6, EditInv
    <3> QED BY <3>1 DEF Inv
  <2>7. CASE Sort(r)
    <3>1. InvAt(l)'
      BY <1>1, <2>7, SortInv
    <3> QED BY <3>1 DEF Inv
  <2> QED BY <1>3, <2>1, <2>2, <2>3, <2>4, <2>5, <2>6, <2>7 DEF Step
<1> QED BY <1>2, <1>3 DEF Next

\* At all times each rank holds, keeps and sends what the flows say, each channel holds the
\* messages of one link, and no rank is ahead of one that it has elements of.
THEOREM InvHolds == Spec => []Inv
<1> QED BY InitInv, NextInv, PTL DEF Spec

-------------------------------------------------------------------------------
\* What a buffer holds comes from a rank, for a rank.
LEMMA ElementRanks ==
  ASSUME NEW f, NEW e \in Elements(f)
  PROVE  e.src \in Ranks /\ e.dest \in Ranks
  BY DEF Elements, E1, E2

\* The type of a sorted sequence.
LEMMA SortTyped ==
  ASSUME N \in Nat, NEW E, NEW s \in Seq(E)
  PROVE  BySource(s) \in Seq(E)
<1> DEFINE ss == [i \in 1 .. N |-> Select(s, {e \in Range(s) : e.src = i - 1})]
<1>1. PICK X : X = Seq(E)
  OBVIOUS
<1>2. \A i \in 1 .. N : Select(s, {e \in Range(s) : e.src = i - 1}) \in X
  BY <1>1, SelectTyped
<1>3. ss \in Seq(X)
  BY <1>2
<1>4. ss \in Seq(Seq(E))
  BY <1>1, <1>3
<1> HIDE DEF ss
<1>5. FlattenSeq(ss) \in Seq(E)
  BY <1>4, FlattenTyped
<1> QED BY <1>5 DEF BySource, ss

\* The elements of a buffer are those of one of the two exchanges.
LEMMA BufferTyped ==
  ASSUME NEW l, InvAt(l), NEW r \in Ranks
  PROVE  \E f \in Flows : buffer[r] \in Seq(Elements(f))
<1>1. /\ setup \in Setups /\ N \in Nat /\ N > 1 /\ Local(l, r)
      /\ ContentsOK(l, r) /\ PlaceOK(l, r) /\ l[r] \in 0 .. N - 1
  BY SizeType DEF InvAt, Local
<1>2. 0 \in Flows /\ 1 \in Flows /\ 0 \in 0 .. N /\ N \in 0 .. N /\ l[r] \in 0 .. N
  BY <1>1 DEF Flows
<1>3. \A f \in Flows : \A k \in 0 .. N : H(f, k, r) \in Seq(Elements(f))
  BY <1>1, FlowFacts
<1>4. \A f \in Flows : Kp(f, l[r], r) \in Seq(Elements(f))
  BY <1>1, StageFacts
<1>5. BySource(H(1, N, r)) \in Seq(Elements(1))
  BY <1>1, <1>2, <1>3, SortTyped
<1>6. CASE pc[r] = "enter"
  BY <1>1, <1>2, <1>3, <1>6 DEF ContentsOK
<1>7. CASE pc[r] = "stage"
  <2>1. ended[r] \in Flows
    BY <1>1, <1>7 DEF PlaceOK, Working
  <2> QED BY <1>1, <1>2, <1>3, <1>7, <2>1 DEF ContentsOK
<1>8. CASE pc[r] \in {"counts", "data"}
  <2>1. ended[r] \in Flows
    BY <1>1, <1>8 DEF PlaceOK, Working
  <2> QED BY <1>1, <1>4, <1>8, <2>1 DEF ContentsOK
<1>9. CASE pc[r] = "edit"
  BY <1>1, <1>2, <1>3, <1>9 DEF ContentsOK
<1>10. CASE pc[r] = "sort"
  BY <1>1, <1>2, <1>3, <1>10 DEF ContentsOK
<1>11. CASE pc[r] = "done"
  BY <1>1, <1>2, <1>5, <1>11 DEF ContentsOK
<1> QED BY <1>1, <1>6, <1>7, <1>8, <1>9, <1>10, <1>11 DEF Local

\* The types follow from the invariant,
LEMMA InvTypes == Inv /\ GroupsOK => TypeOK
<1> SUFFICES ASSUME Inv, GroupsOK PROVE TypeOK
  OBVIOUS
<1>1. PICK l : InvAt(l)
  BY DEF Inv
<1>2. setup \in Setups /\ \A r \in Ranks : Local(l, r)
  BY <1>1 DEF InvAt
<1> SUFFICES ASSUME NEW r \in Ranks
             PROVE  \A e \in Range(buffer[r]) : e.src \in Ranks /\ e.dest \in Ranks
  BY <1>2 DEF TypeOK, Local
<1>3. PICK f \in Flows : buffer[r] \in Seq(Elements(f))
  BY <1>1, BufferTyped
<1>4. PICK E : E = Elements(f)
  OBVIOUS
<1>5. \A e \in Range(buffer[r]) : e \in E
  BY <1>3, <1>4 DEF Range
<1> QED BY <1>4, <1>5, ElementRanks

\* Data that came by all receives is what arrives.
LEMMA ReceivedAll ==
  ASSUME NEW l, InvAt(l), NEW r \in Ranks, pc[r] = "data", DOMAIN got[r] = Sources(r)
  PROVE  Received(r) = Arrived(ended[r], l[r], r)
<1>1. Working(r)
  BY DEF Working
<1>2. PICK k \in 0 .. N - 1, f \in Flows :
        /\ k = l[r] /\ f = ended[r] /\ k \in 0 .. N /\ G(k, r)[2] > 1
        /\ Sources(r) = Senders(G(k, r), r)
        /\ target(r) = Target(G(k, r), r) /\ n_recv(r) = Count(G(k, r), r)
  BY <1>1, WorkOps
<1>3. GotElts(l, r)
  BY DEF InvAt, Local, ContentsOK
<1>4. setup \in Setups
  BY DEF InvAt
<1>5. \A i \in 1 .. Count(G(k, r), r) :
        got[r][Target(G(k, r), r) + i - 1].elts = Out(f, k, Target(G(k, r), r) + i - 1)
  <2> SUFFICES ASSUME NEW i \in 1 .. Count(G(k, r), r)
               PROVE  got[r][Target(G(k, r), r) + i - 1].elts = Out(f, k, Target(G(k, r), r) + i - 1)
    OBVIOUS
  <2>1. PICK q : q = Target(G(k, r), r) + i - 1
    OBVIOUS
  <2>2. q \in DOMAIN got[r]
    BY <1>2, <1>4, <2>1, SenderAt
  <2>3. got[r][q] = [elts |-> Out(f, k, q)]
    BY <1>2, <1>3, <2>2 DEF GotElts
  <2> QED BY <2>1, <2>3
<1> QED BY <1>2, <1>5 DEF Received, Arrived

\* and the room in the buffers.
LEMMA InvRoom == Inv => NoOverflow
<1> SUFFICES ASSUME Inv PROVE NoOverflow
  OBVIOUS
<1>1. PICK l : InvAt(l)
  BY DEF Inv
<1> SUFFICES ASSUME NEW r \in Ranks
             PROVE  /\ Len(sent[r]) <= size1[r]
                    /\ pc[r] = "data" /\ DOMAIN got[r] = Sources(r)
                         => Len(buffer[r]) + Len(Received(r)) <= size0[r]
                    /\ Len(buffer[r]) <= size0[r]
  BY DEF NoOverflow
<1>2. setup \in Setups /\ SizesOK(r) /\ ContentsOK(l, r)
  BY <1>1 DEF InvAt, Local
<1>3. ASSUME pc[r] = "data", DOMAIN got[r] = Sources(r)
      PROVE  Len(buffer[r]) + Len(Received(r)) <= size0[r]
  <2>1. Working(r)
    BY <1>3 DEF Working
  <2>2. PICK k \in 0 .. N - 1, f \in Flows : k = l[r] /\ f = ended[r] /\ G(k, r)[2] > 1
    BY <1>1, <2>1, WorkOps
  <2>3. Received(r) = Arrived(f, k, r)
    BY <1>1, <1>3, <2>2, ReceivedAll
  <2>4. buffer[r] = Kp(f, k, r) /\ Len(H(f, k + 1, r)) <= size0[r]
    BY <1>2, <1>3, <2>2 DEF ContentsOK
  <2>5. /\ H(f, k + 1, r) = Cat(Kp(f, k, r), Arrived(f, k, r))
        /\ Arrived(f, k, r) \in Seq(Elements(f)) /\ Kp(f, k, r) \in Seq(Elements(f))
    BY <1>2, <2>2, NextHeld, StageFacts
  <2>6. Len(Cat(Kp(f, k, r), Arrived(f, k, r))) = Len(Kp(f, k, r)) + Len(Arrived(f, k, r))
    BY <2>5, CatTyped
  <2> QED BY <2>3, <2>4, <2>5, <2>6
<1> QED BY <1>2, <1>3 DEF SizesOK

\* Every variable of the router has its type, its elements their ranks.
THEOREM TypesHold == Spec => []TypeOK
<1> QED BY InvHolds, GroupsKept, InvTypes, PTL

\* No rank writes beyond the end of its buffers, nor is sent more than it has made room for,
\* whatever the sizes and the interleaving (cs_all_to_all.c, _crystal_sendrecv_strided).
THEOREM NoneOverflows == Spec => []NoOverflow
<1> QED BY InvHolds, InvRoom, PTL

-------------------------------------------------------------------------------
(* Refinement of AllToAll.                                                   *)
\* What rank r gave to the exchange that it is in, or holds between two exchanges.
Holding(r) == IF Len(given[r]) > ended[r] THEN given[r][Len(given[r])] ELSE buffer[r]

\* The history given has one sequence per exchange entered.
LEMMA GivenLen ==
  ASSUME NEW l, InvAt(l), NEW r \in Ranks
  PROVE  /\ Len(given[r]) = NGiven(r) /\ NGiven(r) \in 0 .. 2 /\ ended[r] \in 0 .. 2
         /\ NGiven(r) = ended[r] + (IF Working(r) THEN 1 ELSE 0)
         /\ \A f \in Flows : NGiven(r) > f => given[r][f + 1] = H(f, 0, r)
<1>1. Local(l, r) /\ PlaceOK(l, r) /\ given[r] = GivenTo(r, NGiven(r)) /\ ended[r] \in 0 .. 2
  BY DEF InvAt, Local
<1>2. NGiven(r) \in 0 .. 2
  BY <1>1 DEF NGiven, PlaceOK, Flows
<1>3. CASE NGiven(r) = 0
  <2>1. Len(given[r]) = 0
    BY <1>1, <1>3 DEF GivenTo
  <2> QED BY <1>1, <1>2, <1>3, <2>1 DEF NGiven, Flows
<1>4. CASE NGiven(r) = 1
  <2>1. PICK x : x = H(0, 0, r)
    OBVIOUS
  <2>2. given[r] = <<x>>
    BY <1>1, <1>4, <2>1 DEF GivenTo
  <2>3. Len(given[r]) = 1 /\ given[r][1] = x
    BY <2>2
  <2>4. \A f \in Flows : NGiven(r) > f => f = 0 /\ given[r][f + 1] = H(f, 0, r)
    <3> SUFFICES ASSUME NEW f \in Flows, NGiven(r) > f PROVE f = 0 /\ given[r][f + 1] = H(f, 0, r)
      OBVIOUS
    <3>1. f = 0 /\ f + 1 = 1
      BY <1>4 DEF Flows
    <3> QED BY <2>1, <2>3, <3>1
  <2> QED BY <1>1, <1>2, <1>4, <2>1, <2>3, <2>4 DEF NGiven
<1>5. CASE NGiven(r) = 2
  <2>1. PICK x, y : x = H(0, 0, r) /\ y = H(1, 0, r)
    OBVIOUS
  <2>2. given[r] = <<x, y>>
    BY <1>1, <1>5, <2>1 DEF GivenTo
  <2>3. Len(given[r]) = 2 /\ given[r][1] = x /\ given[r][2] = y
    BY <2>2
  <2>4. \A f \in Flows : given[r][f + 1] = H(f, 0, r)
    BY <2>1, <2>3 DEF Flows
  <2> QED BY <1>1, <1>2, <1>5, <2>3, <2>4 DEF NGiven
<1> QED BY <1>2, <1>3, <1>4, <1>5

\* A rank gives elements of its own.
LEMMA Gives ==
  ASSUME setup \in Setups, NEW f \in Flows
  PROVE  /\ IsFlow(Held(f), In(f), Elements(f))
         /\ \A e \in Elements(f) : e.dest \in Ranks /\ e.src \in Ranks
         /\ \A q \in Ranks : /\ H(f, 0, q) = In(f)[q] /\ In(f)[q] \in Seq(Elements(f))
                             /\ In(f)[q] \in Seq(By(Elements(f), q))
<1>1. \A e \in Elements(f) : e.dest \in Ranks /\ e.src \in Ranks
  BY ElementRanks
<1>2. \A q \in Ranks : H(f, 0, q) = In(f)[q] /\ In(f)[q] \in Seq(Elements(f))
  <2>1. 0 \in 0 .. N
    BY SizeType
  <2> QED BY <2>1, FlowFacts
<1>3. IsFlow(Held(f), In(f), Elements(f)) /\ \A q \in Ranks : In(f)[q] \in Seq(By(Elements(f), q))
  <2>1. CASE f = 0
    <3>1. Held(f) = F1 /\ In(f) = In1 /\ Elements(f) = E1
      BY <2>1 DEF Held, In, Elements
    <3> QED BY <3>1, Flow1
  <2>2. CASE f = 1
    <3>1. Held(f) = F2 /\ In(f) = In2 /\ Elements(f) = E2
      BY <2>2 DEF Held, In, Elements
    <3> QED BY <3>1, Flow2
  <2> QED BY <2>1, <2>2 DEF Flows
<1> QED BY <1>1, <1>2, <1>3

-------------------------------------------------------------------------------
\* The operators of AllToAll.
LEMMA SameSelect == \A s, S : Exchanges!Select(s, S) = Select(s, S)
  BY DEF Exchanges!Select, Select

\* From and For select by source and by destination.
LEMMA RangeSelect ==
  ASSUME NEW E, NEW s \in Seq(E)
  PROVE  /\ \A q : Exchanges!From(s, q) = Select(s, By(E, q))
         /\ \A d : Exchanges!For(s, d) = Select(s, To(E, {d}))
         /\ \A e \in Exchanges!Range(s) : e \in E
<1>1. PICK R : R = Exchanges!Range(s)
  OBVIOUS
<1>2. s \in Seq(R) /\ R \subseteq E
  <2>1. \A i \in 1 .. Len(s) : s[i] \in R
    BY <1>1 DEF Exchanges!Range
  <2>2. Len(s) \in Nat /\ DOMAIN s = 1 .. Len(s) /\ s = [i \in 1 .. Len(s) |-> s[i]]
    OBVIOUS
  <2>3. R \subseteq E
    BY <1>1, <2>2 DEF Exchanges!Range
  <2> QED BY <2>1, <2>2, <2>3
<1>3. ASSUME NEW q PROVE Exchanges!From(s, q) = Select(s, By(E, q))
  <2> DEFINE A == {e \in Exchanges!Range(s) : e.src = q}  B == {e \in E : e.src = q}
  <2>1. \A e \in R : e \in A <=> e \in B
    BY <1>1, <1>2
  <2>2. Select(s, A) = Select(s, B)
    <3> HIDE DEF A, B
    <3> QED BY <1>2, <2>1, SelectSame
  <2>3. Exchanges!From(s, q) = Exchanges!Select(s, A)
    BY DEF Exchanges!From
  <2>4. By(E, q) = B
    BY DEF By
  <2> HIDE DEF A, B
  <2> QED BY <2>2, <2>3, <2>4, SameSelect
<1>4. ASSUME NEW d PROVE Exchanges!For(s, d) = Select(s, To(E, {d}))
  <2> DEFINE A == {e \in Exchanges!Range(s) : e.dest = d}  B == {e \in E : e.dest \in {d}}
  <2>1. \A e \in R : e \in A <=> e \in B
    BY <1>1, <1>2
  <2>2. Select(s, A) = Select(s, B)
    <3> HIDE DEF A, B
    <3> QED BY <1>2, <2>1, SelectSame
  <2>3. Exchanges!For(s, d) = Exchanges!Select(s, A)
    BY DEF Exchanges!For
  <2>4. To(E, {d}) = B
    BY DEF To
  <2> HIDE DEF A, B
  <2> QED BY <2>2, <2>3, <2>4, SameSelect
<1> QED BY <1>1, <1>2, <1>3, <1>4

-------------------------------------------------------------------------------
\* Entering an exchange is the Enter of AllToAll,
LEMMA EnterMaps ==
  ASSUME NEW l, InvAt(l), NEW r \in Ranks, Enter(r)
  PROVE  Exchanges!Enter(r)
<1>1. /\ pc[r] = "enter" /\ setup' = setup /\ buffer' = buffer /\ ended' = ended
      /\ given' = [given EXCEPT ![r] = Append(@, buffer[r])]
  BY DEF Enter
<1>2. setup \in Setups /\ Shape /\ Local(l, r)
  BY DEF InvAt
<1>3. /\ ~Working(r) /\ Len(given[r]) = ended[r] /\ ended[r] \in Flows
      /\ buffer[r] = H(ended[r], 0, r) /\ given[r] = GivenTo(r, ended[r])
  <2>1. ~Working(r)
    BY <1>1 DEF Working
  <2>2. ended[r] \in Flows /\ buffer[r] = H(ended[r], 0, r)
    BY <1>1, <1>2 DEF Local, ContentsOK
  <2>3. NGiven(r) = ended[r]
    BY <2>1, <2>2 DEF NGiven, Flows
  <2> QED BY <1>2, <2>1, <2>2, <2>3, GivenLen DEF Local
<1>4. Ranks' = Ranks
  BY <1>1, StaticsSame
<1>5. Holding(r) = buffer[r]
  BY <1>3 DEF Holding, Flows
<1>6. PICK f, E, b : f \in Flows /\ f = ended[r] /\ E = Elements(f) /\ b = buffer[r]
  BY <1>3
<1>7. b \in Seq(By(E, r)) /\ \A e \in E : e.dest \in Ranks
  BY <1>2, <1>3, <1>6, Gives
<1>8. \A e \in Exchanges!Range(b) : e.src = r /\ e.dest \in Ranks
  <2>1. \A e \in Exchanges!Range(b) : e \in By(E, r)
    BY <1>7, RangeSelect
  <2> QED BY <1>7, <2>1 DEF By
<1>9. given'[r] = Append(given[r], b) /\ \A q \in Ranks \ {r} : given'[q] = given[q]
  BY <1>1, <1>2, <1>6 DEF Shape
<1>10. Len(given'[r]) = f + 1 /\ given'[r][f + 1] = b
  <2>1. given'[r] = GivenTo(r, f + 1)
    BY <1>3, <1>6, <1>9, GivenNext
  <2>2. CASE f = 0
    <3>1. given'[r] = <<b>>
      BY <1>3, <1>6, <2>1, <2>2 DEF GivenTo
    <3> QED BY <2>2, <3>1
  <2>3. CASE f = 1
    <3>1. PICK x : x = H(0, 0, r)
      OBVIOUS
    <3>2. given'[r] = <<x, b>>
      BY <1>3, <1>6, <2>1, <2>3, <3>1 DEF GivenTo
    <3>3. Len(<<x, b>>) = 2 /\ <<x, b>>[2] = b
      OBVIOUS
    <3> QED BY <2>3, <3>2, <3>3
  <2> QED BY <1>6, <2>2, <2>3 DEF Flows
<1>11. Holding(r)' = b
  BY <1>1, <1>6, <1>10 DEF Holding, Flows
<1>12. \A q \in Ranks \ {r} : Holding(q)' = Holding(q)
  BY <1>1, <1>9 DEF Holding
<1>13. [q \in Ranks |-> Holding(q)]' = [q \in Ranks |-> Holding(q)]
  BY <1>4, <1>5, <1>6, <1>11, <1>12
<1>14. Holding(r) = [q \in Ranks |-> Holding(q)][r]
  OBVIOUS
<1> QED BY <1>1, <1>3, <1>4, <1>5, <1>6, <1>8, <1>13
        DEF Exchanges!Enter, Exchanges!Outside, Exchanges!Entered, Holding

\* The values that AllToAll has for a rank.
LEMMA HoldsSame ==
  ASSUME NEW l, InvAt(l), NEW r \in Ranks, setup' = setup, given' = given, ended' = ended,
         \A q \in Ranks \ {r} : buffer'[q] = buffer[q],
         Working(r) \/ buffer'[r] = buffer[r]
  PROVE  UNCHANGED Exchanges!exchangeVars
<1>1. Ranks' = Ranks
  BY StaticsSame
<1>2. \A q \in Ranks : Holding(q)' = Holding(q)
  <2> SUFFICES ASSUME NEW q \in Ranks PROVE Holding(q)' = Holding(q)
    OBVIOUS
  <2>1. CASE buffer'[q] = buffer[q]
    BY <2>1 DEF Holding
  <2>2. CASE q = r /\ Working(r)
    <3>1. Len(given[r]) > ended[r]
      BY <2>2, GivenLen
    <3> QED BY <2>2, <3>1 DEF Holding
  <2> QED BY <2>1, <2>2
<1>3. [q \in Ranks |-> Holding(q)]' = [q \in Ranks |-> Holding(q)]
  BY <1>1, <1>2
<1> QED BY <1>1, <1>3 DEF Exchanges!exchangeVars, Holding

\* a step between exchanges is an Edit,
LEMMA EditMaps ==
  ASSUME NEW l, InvAt(l), NEW r \in Ranks, ~Working(r), setup' = setup, given' = given,
         ended' = ended, \A q \in Ranks \ {r} : buffer'[q] = buffer[q]
  PROVE  Exchanges!Edit(r)
<1>1. Ranks' = Ranks
  BY StaticsSame
<1>2. Len(given[r]) = ended[r]
  BY GivenLen
<1>3. \A q \in Ranks \ {r} : Holding(q)' = Holding(q)
  BY DEF Holding
<1>4. \A q \in Ranks \ {r} : [p \in Ranks |-> Holding(p)]'[q] = [p \in Ranks |-> Holding(p)][q]
  BY <1>1, <1>3
<1> QED BY <1>1, <1>2, <1>4
        DEF Exchanges!Edit, Exchanges!Outside, Exchanges!Entered, Exchanges!HeldChanges, Holding

\* and the last stage is the End: all ranks have entered, and what rank q gave for r is there.
LEMMA EndMaps ==
  ASSUME NEW l, InvAt(l), NEW r \in Ranks, EndStage(r), ~(NextSize(r) > 1)
  PROVE  Exchanges!End(r)
<1>1. /\ pc[r] = "data" /\ setup' = setup /\ given' = given
      /\ buffer' = [buffer EXCEPT ![r] = @ \o Received(r)]
      /\ ended' = [ended EXCEPT ![r] = @ + 1]
  BY DEF EndStage
<1>2. setup \in Setups /\ Shape /\ N \in Nat /\ N > 1
  BY SizeType DEF InvAt
<1>3. Working(r)
  BY <1>1 DEF Working
<1>4. PICK k \in 0 .. N - 1, f \in Flows :
        /\ k = l[r] /\ f = ended[r] /\ k + 1 \in 0 .. N /\ NextSize(r) = G(k + 1, r)[2]
  BY <1>3, WorkOps
<1>5. G(k + 1, r)[2] <= 1
  <2>1. G(k + 1, r)[2] \in Nat
    BY <1>2, <1>4, RankGroup
  <2> QED BY <1>4, <2>1
<1>6. PICK b : b = H(f, N, r)
  OBVIOUS
<1>7. buffer'[r] = b
  <2>1. buffer[r] \o Received(r) = H(f, k + 1, r)
    BY <1>4, EndFacts
  <2>2. H(f, N, r) = H(f, k + 1, r)
    BY <1>2, <1>4, <1>5, FlowFacts
  <2> QED BY <1>1, <1>2, <1>6, <2>1, <2>2 DEF Shape
<1>8. \A q \in Ranks : NGiven(q) > f
  <2>1. \A q \in Src(k + 1, r) : NGiven(q) > f
    BY <1>4, EndFacts
  <2> QED BY <1>2, <1>4, <1>5, <2>1, SrcAll
<1>9. /\ \A q \in Ranks : Len(given[q]) > f /\ given[q][f + 1] = H(f, 0, q)
      /\ Len(given[r]) = f + 1
  BY <1>3, <1>4, <1>8, GivenLen
<1>10. PICK E : E = Elements(f)
  OBVIOUS
<1>11. b \in Seq(E)
  BY <1>2, <1>6, <1>10, FlowFacts
<1>12. \A e \in Exchanges!Range(b) : e.src \in Ranks
  BY <1>2, <1>10, <1>11, RangeSelect, Gives
<1>13. ASSUME NEW q \in Ranks
       PROVE  Exchanges!From(b, q) = Exchanges!For(given[q][f + 1], r)
  <2>1. Exchanges!From(b, q) = Select(b, By(E, q))
    BY <1>11, RangeSelect
  <2>2. PICK g : g = given[q][f + 1] /\ g = H(f, 0, q) /\ g = In(f)[q] /\ g \in Seq(E)
    BY <1>2, <1>9, <1>10, Gives
  <2>3. Exchanges!For(g, r) = Select(g, To(E, {r}))
    BY <2>2, RangeSelect
  <2>4. PICK h, in : h = Held(f) /\ in = In(f)
    OBVIOUS
  <2>5. /\ IsFlow(h, in, E) /\ \A e \in E : e.dest \in Ranks
        /\ \A p \in Ranks : in[p] \in Seq(By(E, p))
    BY <1>2, <1>10, <2>4, Gives
  <2>6. Select(h[N][r], By(E, q)) = Select(in[q], To(E, {r}))
    BY <1>2, <2>5, Delivered
  <2> QED BY <1>6, <2>1, <2>2, <2>3, <2>4, <2>6 DEF H
<1>14. Exchanges!IsDelivery(b, r, f + 1)
  BY <1>12, <1>13 DEF Exchanges!IsDelivery
<1>15. Ranks' = Ranks
  BY <1>1, StaticsSame
<1>16. Holding(r)' = b
  <2>1. given'[r] = given[r] /\ ended'[r] = f + 1
    BY <1>1, <1>2, <1>4 DEF Shape
  <2>2. ~(Len(given'[r]) > ended'[r])
    BY <1>9, <2>1 DEF Flows
  <2> QED BY <1>7, <2>2 DEF Holding
<1>17. \A q \in Ranks \ {r} : Holding(q)' = Holding(q)
  BY <1>1 DEF Holding
<1>18. \A q \in Ranks \ {r} : [p \in Ranks |-> Holding(p)]'[q] = [p \in Ranks |-> Holding(p)][q]
  BY <1>15, <1>17
<1>19. [p \in Ranks |-> Holding(p)]'[r] = b
  BY <1>15, <1>16
<1>20. ~Exchanges!Outside(r) /\ \A q \in Ranks : Exchanges!Entered(q) > ended[r]
  BY <1>4, <1>9 DEF Exchanges!Outside, Exchanges!Entered, Flows
<1>21. Exchanges!HeldChanges(r)
  BY <1>18 DEF Exchanges!HeldChanges, Holding
<1>22. PICK v : v = [p \in Ranks |-> Holding(p)]'[r]
  OBVIOUS
<1>23. Exchanges!IsDelivery(v, r, ended[r] + 1)
  BY <1>4, <1>14, <1>19, <1>22
<1> QED BY <1>1, <1>15, <1>20, <1>21, <1>22, <1>23 DEF Exchanges!End, Holding

\* What each step is for AllToAll.
LEMMA StepMaps ==
  ASSUME NEW l, InvAt(l), NEW r \in Ranks, Step(r)
  PROVE  [Exchanges!ExchangeNext]_(Exchanges!exchangeVars)
<1>1. Shape
  BY DEF InvAt
<1>2. CASE Enter(r)
  BY <1>2, EnterMaps DEF Exchanges!ExchangeNext
<1>3. CASE Partition(r)
  <2>1. Working(r) /\ setup' = setup /\ given' = given /\ ended' = ended
        /\ \A q \in Ranks \ {r} : buffer'[q] = buffer[q]
    BY <1>1, <1>3 DEF Partition, Working, Shape
  <2> QED BY <2>1, HoldsSame
<1>4. CASE Receive(r)
  <2>1. buffer' = buffer /\ setup' = setup /\ given' = given /\ ended' = ended
    BY <1>4 DEF Receive
  <2> QED BY <2>1, HoldsSame
<1>5. CASE SendData(r)
  <2>1. buffer' = buffer /\ setup' = setup /\ given' = given /\ ended' = ended
    BY <1>5 DEF SendData
  <2> QED BY <2>1, HoldsSame
<1>6. CASE EndStage(r)
  <2>1. CASE NextSize(r) > 1
    <3>1. Working(r) /\ setup' = setup /\ given' = given /\ ended' = ended
          /\ \A q \in Ranks \ {r} : buffer'[q] = buffer[q]
      BY <1>1, <1>6, <2>1 DEF EndStage, Working, Shape
    <3> QED BY <3>1, HoldsSame
  <2>2. CASE ~(NextSize(r) > 1)
    BY <1>6, <2>2, EndMaps DEF Exchanges!ExchangeNext
  <2> QED BY <2>1, <2>2
<1>7. CASE Edit(r)
  <2>1. ~Working(r) /\ setup' = setup /\ given' = given /\ ended' = ended
        /\ \A q \in Ranks \ {r} : buffer'[q] = buffer[q]
    BY <1>1, <1>7 DEF Edit, Working, Shape
  <2>2. Exchanges!Edit(r)
    BY <2>1, EditMaps
  <2> QED BY <2>2 DEF Exchanges!ExchangeNext
<1>8. CASE Sort(r)
  <2>1. ~Working(r) /\ setup' = setup /\ given' = given /\ ended' = ended
        /\ \A q \in Ranks \ {r} : buffer'[q] = buffer[q]
    BY <1>1, <1>8 DEF Sort, Working, Shape
  <2>2. Exchanges!Edit(r)
    BY <2>1, EditMaps
  <2> QED BY <2>2 DEF Exchanges!ExchangeNext
<1> QED BY <1>2, <1>3, <1>4, <1>5, <1>6, <1>7, <1>8 DEF Step

\* Each step is one of AllToAll, or a stutter.
LEMMA NextMaps ==
  ASSUME Inv, [Next]_vars
  PROVE  [Exchanges!ExchangeNext]_(Exchanges!exchangeVars)
<1>1. PICK l : InvAt(l)
  BY DEF Inv
<1>2. CASE UNCHANGED vars
  BY <1>2 DEF vars, group, Exchanges!exchangeVars, Ranks, N
<1>3. ASSUME NEW r \in Ranks, Step(r)
      PROVE  [Exchanges!ExchangeNext]_(Exchanges!exchangeVars)
  BY <1>1, <1>3, StepMaps
<1> QED BY <1>2, <1>3 DEF Next

\* Initial states are initial for AllToAll.
LEMMA InitMaps == Init => Exchanges!ExchangeInit
  BY DEF Init, Exchanges!ExchangeInit

\* The stages of the router implement one exchange of AllToAll after the other, for any number
\* of ranks: each rank gets the elements given for it, those of one source in order, and does
\* not end before all have entered (cs_all_to_all_exchange).
THEOREM StagesExchange == Spec => RefinesAllToAll
<1>1. Spec => []Inv
  BY InvHolds
<1>2. Inv /\ [Next]_vars => [Exchanges!ExchangeNext]_(Exchanges!exchangeVars)
  BY NextMaps
<1> QED BY <1>1, <1>2, InitMaps, PTL DEF Spec, RefinesAllToAll, Exchanges!ExchangeSpec

-------------------------------------------------------------------------------
(* The round trip, against the default algorithm.                            *)
\* In s, no element of B comes before one of A.
After(s, A, B) == \A i, j \in 1 .. Len(s) : i < j => ~(s[i] \in B /\ s[j] \in A)

\* Two selections, one after the other, are one when their elements come in this order.
LEMMA SelectOrdered ==
  ASSUME NEW E, NEW s \in Seq(E), NEW A, NEW B, A \cap B = {}, After(s, A, B)
  PROVE  Cat(Select(s, A), Select(s, B)) = Select(s, A \cup B)
<1> DEFINE Q == {t \in Seq(E) : After(t, A, B) =>
                   Cat(Select(t, A), Select(t, B)) = Select(t, A \cup B)}
<1>1. <<>> \in Q
  <2>1. Select(<<>>, A) = <<>> /\ Select(<<>>, B) = <<>> /\ Select(<<>>, A \cup B) = <<>>
    BY SelectEmpty
  <2>2. <<>> \in Seq(E)
    OBVIOUS
  <2>3. Cat(<<>>, <<>>) = <<>>
    BY <2>2, CatTyped
  <2> QED BY <2>1, <2>2, <2>3
<1>2. ASSUME NEW t \in Seq(E), NEW e \in E, t \in Q PROVE App(t, e) \in Q
  <2> DEFINE a == Select(t, A)  b == Select(t, B)  c == Select(t, A \cup B)
  <2>1. a \in Seq(E) /\ b \in Seq(E) /\ c \in Seq(E)
    BY SelectTyped
  <2>2. /\ Select(App(t, e), A) = IF e \in A THEN App(a, e) ELSE a
        /\ Select(App(t, e), B) = IF e \in B THEN App(b, e) ELSE b
        /\ Select(App(t, e), A \cup B) = IF e \in A \cup B THEN App(c, e) ELSE c
    BY SelectApp
  <2>3. /\ App(t, e) \in Seq(E) /\ Len(App(t, e)) = Len(t) + 1 /\ Len(t) \in Nat
        /\ App(t, e)[Len(t) + 1] = e /\ \A i \in 1 .. Len(t) : App(t, e)[i] = t[i]
    BY AppElements
  <2> SUFFICES ASSUME After(App(t, e), A, B)
               PROVE  Cat(Select(App(t, e), A), Select(App(t, e), B)) = Select(App(t, e), A \cup B)
    BY <2>3
  <2>4. After(t, A, B)
    <3>1. \A i \in 1 .. Len(t) : i \in 1 .. Len(App(t, e))
      BY <2>3
    <3> QED BY <2>3, <3>1 DEF After
  <2>5. Cat(a, b) = c
    BY <1>2, <2>4
  <2>6. CASE e \in A
    <3>1. e \notin B /\ e \in A \cup B
      BY <2>6
    <3>2. \A i \in 1 .. Len(t) : t[i] \in E \ B
      <4> SUFFICES ASSUME NEW i \in 1 .. Len(t), t[i] \in B PROVE FALSE
        OBVIOUS
      <4>1. i \in 1 .. Len(App(t, e)) /\ Len(t) + 1 \in 1 .. Len(App(t, e)) /\ i < Len(t) + 1
        BY <2>3
      <4> QED BY <2>3, <2>6, <4>1 DEF After
    <3>3. t \in Seq(E \ B)
      BY <3>2
    <3>4. b = <<>>
      <4>1. (E \ B) \cap B = {}
        OBVIOUS
      <4> QED BY <3>3, <4>1, SelectNone
    <3> HIDE DEF a, b, c, Q
    <3>5. a = c
      BY <2>1, <2>5, <3>4, CatTyped
    <3>6. Cat(App(a, e), <<>>) = App(a, e)
      BY <2>1, AppTyped, CatTyped
    <3> QED BY <2>2, <2>6, <3>1, <3>4, <3>5, <3>6
  <2>7. CASE e \in B
    <3>1. e \notin A /\ e \in A \cup B
      BY <2>7
    <3> HIDE DEF a, b, c, Q
    <3>2. App(Cat(a, b), e) = Cat(a, App(b, e))
      BY <2>1, CatApp
    <3> QED BY <2>2, <2>5, <2>7, <3>1, <3>2
  <2>8. CASE e \notin A \cup B
    <3>1. e \notin A /\ e \notin B
      BY <2>8
    <3> HIDE DEF a, b, c, Q
    <3> QED BY <2>2, <2>5, <2>8, <3>1
  <2> QED BY <2>6, <2>7, <2>8
<1>3. s \in Q
  <2> HIDE DEF Q
  <2> QED BY <1>1, <1>2, AppInduction
<1> QED BY <1>3

\* The same for the selections of several sets, which is all when they cover the sequence.
LEMMA FlattenOrdered ==
  ASSUME NEW E, NEW s \in Seq(E), NEW n \in Nat, NEW A,
         \A i, j \in 1 .. n : i < j => A[i] \cap A[j] = {} /\ After(s, A[i], A[j])
  PROVE  FlattenSeq(Selections(s, A, n)) = Select(s, AllOf(A, n))
<1> DEFINE F(m) == FlattenSeq([i \in 1 .. m |-> Select(s, A[i])])
           U(m) == UNION {A[i] : i \in 1 .. m}
           J == {m \in Nat : m <= n => F(m) = Select(s, U(m))}
<1>1. 0 \in J
  <2>1. [i \in 1 .. 0 |-> Select(s, A[i])] = <<>>
    OBVIOUS
  <2>2. F(0) = <<>>
    BY <2>1, FlattenEmpty
  <2>3. E \cap U(0) = {}
    OBVIOUS
  <2>4. Select(s, U(0)) = <<>>
    <3> HIDE DEF U
    <3> QED BY <2>3, SelectNone
  <2> HIDE DEF F, U
  <2> QED BY <2>2, <2>4
<1>2. ASSUME NEW m \in Nat, m \in J PROVE m + 1 \in J
  <2> SUFFICES ASSUME m + 1 <= n PROVE F(m + 1) = Select(s, U(m + 1))
    OBVIOUS
  <2>1. F(m) = Select(s, U(m))
    BY <1>2
  <2>2. F(m + 1) = Cat(F(m), Select(s, A[m + 1]))
    <3> DEFINE f == [i \in 1 .. m + 1 |-> Select(s, A[i])]
    <3>1. \A i \in 1 .. m + 1 : f[i] \in Seq(E) /\ f[i] = Select(s, A[i])
      BY SelectTyped
    <3>2. m + 1 \in 1 .. m + 1 /\ \A i \in 1 .. m : i \in 1 .. m + 1
      OBVIOUS
    <3>3. F(m) = FlattenSeq([i \in 1 .. m |-> f[i]])
      BY <3>2
    <3>4. F(m + 1) = FlattenSeq([i \in 1 .. m + 1 |-> f[i]])
      OBVIOUS
    <3> HIDE DEF F, f
    <3>5. /\ FlattenSeq([i \in 1 .. m + 1 |-> f[i]]) = Cat(FlattenSeq([i \in 1 .. m |-> f[i]]), f[m + 1])
      BY <3>1, FlattenStep
    <3> QED BY <3>1, <3>2, <3>3, <3>4, <3>5
  <2>3. U(m + 1) = U(m) \cup A[m + 1]
    <3>1. \A i : i \in 1 .. m + 1 <=> i \in 1 .. m \/ i = m + 1
      OBVIOUS
    <3> QED BY <3>1
  <2>4. U(m) \cap A[m + 1] = {} /\ After(s, U(m), A[m + 1])
    <3>1. \A i \in 1 .. m : i \in 1 .. n /\ m + 1 \in 1 .. n /\ i < m + 1
      OBVIOUS
    <3>2. \A i \in 1 .. m : A[i] \cap A[m + 1] = {} /\ After(s, A[i], A[m + 1])
      BY <3>1
    <3>3. After(s, U(m), A[m + 1])
      BY <3>2 DEF After
    <3> QED BY <3>2, <3>3
  <2> HIDE DEF F, U
  <2>5. Cat(Select(s, U(m)), Select(s, A[m + 1])) = Select(s, U(m) \cup A[m + 1])
    BY <2>4, SelectOrdered
  <2> QED BY <2>1, <2>2, <2>3, <2>5
<1>3. n \in J
  <2> HIDE DEF J
  <2> QED BY <1>1, <1>2, Induction
<1> QED BY <1>3 DEF AllOf, Selections

\* Destinations are in the order of the global numbers.
LEMMA DestInOrder ==
  ASSUME NEW b \in Nat \ {0}, NEW x \in Nat, NEW y \in Nat, x <= y
  PROVE  (x - 1) \div b <= (y - 1) \div b
  OBVIOUS

\* The edition of all elements of an exchange.
Ed == [e \in E1 |-> Edited(e)]

\* What the edition of an element gives.
LEMMA EdFacts ==
  /\ Ed \in Maps(E1, E2)
  /\ \A e \in E1 : Ed[e] = Edited(e) /\ Ed[e] \in E2
                   /\ Ed[e].dest = e.src /\ Ed[e].src = e.dest /\ Ed[e].val = NewGnum[e.val]
<1>1. ASSUME NEW e \in E1
      PROVE  Edited(e) = [dest |-> e.src, src |-> e.dest, val |-> NewGnum[e.val]] /\ Edited(e) \in E2
  <2>1. PICK d \in Ranks, s \in Ranks, v \in Nat : e = [dest |-> d, src |-> s, val |-> v]
    BY DEF E1
  <2>2. e.val = v /\ e.src = s /\ e.dest = d
    BY <2>1
  <2>3. Edited(e) = [[[e EXCEPT !.val = NewGnum[v]] EXCEPT !.src = d] EXCEPT !.dest = s]
    BY <2>2 DEF Edited
  <2>4. [e EXCEPT !.val = NewGnum[v]] = [dest |-> d, src |-> s, val |-> NewGnum[v]]
    BY <2>1
  <2>5. Edited(e) = [dest |-> s, src |-> d, val |-> NewGnum[v]]
    BY <2>3, <2>4
  <2> QED BY <2>2, <2>5 DEF E2
<1> QED BY <1>1 DEF Ed, Maps

\* Selections among the elements of a sequence.
LEMMA SelectRange ==
  ASSUME NEW E, NEW s \in Seq(E), NEW S
  PROVE  Select(s, Range(s) \cap S) = Select(s, S)
<1>1. PICK R : R = Range(s)
  OBVIOUS
<1>2. s \in Seq(R)
  <2>1. \A i \in 1 .. Len(s) : s[i] \in R
    BY <1>1 DEF Range
  <2>2. Len(s) \in Nat /\ DOMAIN s = 1 .. Len(s) /\ s = [i \in 1 .. Len(s) |-> s[i]]
    OBVIOUS
  <2> QED BY <2>1, <2>2
<1>3. Select(s, R) = s
  BY <1>2, SelectAll
<1> QED BY <1>1, <1>2, <1>3, SelectTwice

\* Selections by destination and by source, as the code writes them.
LEMMA SelectField ==
  ASSUME NEW E, NEW s \in Seq(E), NEW q
  PROVE  /\ Select(s, {e \in Range(s) : e.dest = q}) = Select(s, To(E, {q}))
         /\ Select(s, {e \in Range(s) : e.src = q}) = Select(s, By(E, q))
<1>1. Range(s) \subseteq E
  <2>1. DOMAIN s = 1 .. Len(s) /\ \A i \in 1 .. Len(s) : s[i] \in E
    OBVIOUS
  <2> QED BY <2>1 DEF Range
<1>2. {e \in Range(s) : e.dest = q} = Range(s) \cap To(E, {q})
  BY <1>1 DEF To
<1>3. {e \in Range(s) : e.src = q} = Range(s) \cap By(E, q)
  BY <1>1 DEF By
<1> QED BY <1>2, <1>3, SelectRange

\* What rank r gets back from rank q.
Piece(q, r) == Each(Select(In1[r], To(E1, {q})), Ed)

\* The first call of MPI_Alltoallv.
There == Alltoallv([r \in Ranks |-> Created(r)])

\* What rank q has then from rank r.
LEMMA ThereFrom ==
  ASSUME setup \in Setups, NEW q \in Ranks, NEW r \in Ranks
  PROVE  There[q] \in Seq(E1) /\ Select(There[q], By(E1, r)) = Select(In1[r], To(E1, {q}))
<1> DEFINE ss == [i \in 1 .. N |-> Select(In1[i - 1], To(E1, {q}))]
<1>1. N \in Nat /\ N > 1
  BY SizeType
<1>2. \A i \in 1 .. N : i - 1 \in Ranks
  BY <1>1 DEF Ranks
<1>3. \A p \in Ranks : /\ In1[p] = Created(p) /\ In1[p] \in Seq(E1) /\ In1[p] \in Seq(By(E1, p))
  BY Give1 DEF In1
<1>4. There[q] = FlattenSeq(ss)
  <2>1. There = Alltoallv(In1)
    BY DEF There, In1
  <2>2. PICK b : b = In1
    OBVIOUS
  <2>3. There[q] = FlattenSeq([i \in 1 .. N |-> Select(b[i - 1], {e \in Range(b[i - 1]) : e.dest = q})])
    BY <2>1, <2>2 DEF Alltoallv
  <2>4. ASSUME NEW i \in 1 .. N
        PROVE  Select(b[i - 1], {e \in Range(b[i - 1]) : e.dest = q}) = ss[i]
    <3>1. PICK s \in Seq(E1) : s = b[i - 1]
      BY <1>2, <1>3, <2>2
    <3>2. Select(s, {e \in Range(s) : e.dest = q}) = Select(s, To(E1, {q}))
      BY SelectField
    <3> QED BY <2>2, <3>1, <3>2
  <2>5. [i \in 1 .. N |-> Select(b[i - 1], {e \in Range(b[i - 1]) : e.dest = q})] = ss
    BY <2>4
  <2> HIDE DEF ss
  <2> QED BY <2>3, <2>5
<1>5. ss \in Seq(Seq(E1)) /\ Len(ss) = N
  <2>1. PICK X : X = Seq(E1)
    OBVIOUS
  <2>2. \A i \in 1 .. N : Select(In1[i - 1], To(E1, {q})) \in X
    BY <1>2, <1>3, <2>1, SelectTyped
  <2>3. ss \in Seq(X) /\ Len(ss) = N
    BY <1>1, <2>2
  <2> QED BY <2>1, <2>3
<1>6. There[q] \in Seq(E1)
  <2> HIDE DEF ss
  <2> QED BY <1>4, <1>5, FlattenTyped
<1>7. \A i \in 1 .. N : ss[i] \in Seq(By(E1, i - 1))
  BY <1>2, <1>3, SelectTyped
<1>8. ss[r + 1] = Select(In1[r], To(E1, {q})) /\ r + 1 \in 1 .. N
  BY <1>1 DEF Ranks
<1> HIDE DEF ss
<1>9. ASSUME NEW i \in 1 .. N, i # r + 1 PROVE Select(ss[i], By(E1, r)) = <<>>
  <2>1. By(E1, i - 1) \cap By(E1, r) = {}
    <3>1. i - 1 # r
      BY <1>9 DEF Ranks
    <3> QED BY <3>1 DEF By
  <2> QED BY <1>7, <2>1, SelectNone
<1>10. Select(ss[r + 1], By(E1, r)) = ss[r + 1]
  <2>1. ss[r + 1] \in Seq(By(E1, r))
    BY <1>3, <1>8, SelectTyped
  <2>2. By(E1, r) \subseteq By(E1, r)
    OBVIOUS
  <2> QED BY <2>1, <2>2, SelectAll
<1>11. PICK tt : tt = [i \in 1 .. Len(ss) |-> Select(ss[i], By(E1, r))]
  OBVIOUS
<1>12. Select(FlattenSeq(ss), By(E1, r)) = FlattenSeq(tt) /\ tt \in Seq(Seq(E1))
  BY <1>5, <1>11, SelectFlatten
<1>13. /\ Len(tt) = N /\ tt[r + 1] = ss[r + 1]
       /\ \A i \in 1 .. Len(tt) : i # r + 1 => tt[i] = <<>>
  BY <1>1, <1>5, <1>8, <1>9, <1>10, <1>11
<1>14. FlattenSeq(tt) = tt[r + 1]
  BY <1>8, <1>12, <1>13, FlattenOne
<1> QED BY <1>4, <1>6, <1>8, <1>12, <1>13, <1>14

\* The default algorithm gives the pieces one after the other.
LEMMA DefaultIs ==
  ASSUME setup \in Setups, NEW r \in Ranks
  PROVE  ByDefault[r] = FlattenSeq([i \in 1 .. N |-> Piece(i - 1, r)])
<1>1. PICK back : back = [q \in Ranks |-> [k \in DOMAIN There[q] |-> Edited(There[q][k])]]
  OBVIOUS
<1>2. ASSUME NEW q \in Ranks PROVE back[q] = Each(There[q], Ed) /\ back[q] \in Seq(E2)
  <2>1. PICK s \in Seq(E1) : s = There[q]
    BY ThereFrom
  <2>2. back[q] = [k \in 1 .. Len(s) |-> Edited(s[k])]
    BY <1>1, <2>1
  <2>3. \A k \in 1 .. Len(s) : Ed[s[k]] = Edited(s[k])
    BY EdFacts
  <2>4. back[q] = Each(s, Ed)
    BY <2>2, <2>3 DEF Each
  <2> QED BY <2>1, <2>4, EdFacts, EachTyped
<1>3. ByDefault[r] = FlattenSeq([i \in 1 .. N |->
                       Select(back[i - 1], {e \in Range(back[i - 1]) : e.dest = r})])
  BY <1>1 DEF ByDefault, Alltoallv, There
<1>4. ASSUME NEW i \in 1 .. N
      PROVE  Select(back[i - 1], {e \in Range(back[i - 1]) : e.dest = r}) = Piece(i - 1, r)
  <2>1. PICK q \in Ranks : q = i - 1
    BY SizeType DEF Ranks
  <2>2. PICK s \in Seq(E1) : s = There[q]
    BY ThereFrom
  <2>3. PICK b \in Seq(E2) : b = back[q] /\ b = Each(s, Ed)
    BY <1>2, <2>2
  <2>4. Select(b, {e \in Range(b) : e.dest = r}) = Select(b, To(E2, {r}))
    BY SelectField
  <2>5. \A e \in E1 : e \in By(E1, r) <=> Ed[e] \in To(E2, {r})
    BY EdFacts DEF By, To
  <2>6. Select(Each(s, Ed), To(E2, {r})) = Each(Select(s, By(E1, r)), Ed)
    <3>1. PICK f \in Maps(E1, E2) : f = Ed
      BY EdFacts
    <3>2. PICK A, B : A = By(E1, r) /\ B = To(E2, {r})
      OBVIOUS
    <3>3. \A e \in E1 : e \in A <=> f[e] \in B
      BY <2>5, <3>1, <3>2
    <3>4. Select(Each(s, f), B) = Each(Select(s, A), f)
      BY <3>3, SelectEach
    <3> QED BY <3>1, <3>2, <3>4
  <2>7. Select(s, By(E1, r)) = Select(In1[r], To(E1, {q}))
    BY <2>2, ThereFrom
  <2> QED BY <2>1, <2>3, <2>4, <2>6, <2>7 DEF Piece
<1>5. [i \in 1 .. N |-> Select(back[i - 1], {e \in Range(back[i - 1]) : e.dest = r})]
        = [i \in 1 .. N |-> Piece(i - 1, r)]
  BY <1>4
<1> QED BY <1>3, <1>5

\* So do the two exchanges of the router, and the sort.
LEMMA SortedIs ==
  ASSUME setup \in Setups, NEW r \in Ranks
  PROVE  BySource(H(1, N, r)) = FlattenSeq([i \in 1 .. N |-> Piece(i - 1, r)])
<1>1. N \in Nat /\ N > 1 /\ 1 \in Flows /\ N \in 0 .. N
  BY SizeType DEF Flows
<1>2. PICK s : s = H(1, N, r)
  OBVIOUS
<1>3. s \in Seq(E2) /\ s = F2[N][r]
  <2>1. Elements(1) = E2 /\ Held(1) = F2
    BY DEF Elements, Held
  <2> QED BY <1>1, <1>2, <2>1, FlowFacts DEF H
<1>4. ASSUME NEW i \in 1 .. N
      PROVE  Select(s, {e \in Range(s) : e.src = i - 1}) = Piece(i - 1, r)
  <2>1. PICK q \in Ranks : q = i - 1
    BY SizeType DEF Ranks
  <2>2. Select(s, {e \in Range(s) : e.src = q}) = Select(s, By(E2, q))
    BY <1>3, SelectField
  <2>3. Select(s, By(E2, q)) = Select(In2[q], To(E2, {r}))
    <3>1. /\ IsFlow(F2, In2, E2) /\ \A e \in E2 : e.dest \in Ranks
          /\ \A p \in Ranks : In2[p] \in Seq(By(E2, p))
      BY Flow2
    <3> QED BY <1>3, <3>1, Delivered
  <2>4. PICK t \in Seq(E1) : t = F1[N][q]
    <3>1. 0 \in Flows /\ Elements(0) = E1 /\ Held(0) = F1
      BY DEF Flows, Elements, Held
    <3>2. H(0, N, q) = F1[N][q] /\ H(0, N, q) \in Seq(Elements(0))
      BY <1>1, <3>1, FlowFacts DEF H
    <3> QED BY <3>1, <3>2
  <2>5. In2[q] = Each(t, Ed)
    <3>1. In2[q] = [k \in 1 .. Len(t) |-> Edited(t[k])]
      BY <2>4 DEF In2
    <3>2. \A k \in 1 .. Len(t) : Ed[t[k]] = Edited(t[k])
      BY EdFacts
    <3> QED BY <3>1, <3>2 DEF Each
  <2>6. \A e \in E1 : e \in By(E1, r) <=> Ed[e] \in To(E2, {r})
    BY EdFacts DEF By, To
  <2>7. Select(Each(t, Ed), To(E2, {r})) = Each(Select(t, By(E1, r)), Ed)
    <3>1. PICK f \in Maps(E1, E2) : f = Ed
      BY EdFacts
    <3>2. PICK A, B : A = By(E1, r) /\ B = To(E2, {r})
      OBVIOUS
    <3>3. \A e \in E1 : e \in A <=> f[e] \in B
      BY <2>6, <3>1, <3>2
    <3>4. Select(Each(t, f), B) = Each(Select(t, A), f)
      BY <3>3, SelectEach
    <3> QED BY <3>1, <3>2, <3>4
  <2>8. Select(t, By(E1, r)) = Select(In1[r], To(E1, {q}))
    <3>1. /\ IsFlow(F1, In1, E1) /\ \A e \in E1 : e.dest \in Ranks
          /\ \A p \in Ranks : In1[p] \in Seq(By(E1, p))
      BY Flow1
    <3> QED BY <2>4, <3>1, Delivered
  <2> QED BY <2>1, <2>2, <2>3, <2>5, <2>7, <2>8 DEF Piece
<1>5. [i \in 1 .. N |-> Select(s, {e \in Range(s) : e.src = i - 1})]
        = [i \in 1 .. N |-> Piece(i - 1, r)]
  BY <1>4
<1> QED BY <1>2, <1>5 DEF BySource

\* The pieces of a rank whose numbers are in order are what it gave, edited.
LEMMA PiecesInOrder ==
  ASSUME setup \in Setups, NEW r \in Ranks, InOrder(Gnum(r))
  PROVE  FlattenSeq([i \in 1 .. N |-> Piece(i - 1, r)]) = Each(In1[r], Ed)
<1>1. N \in Nat /\ N > 1
  BY SizeType
<1>2. PICK c \in Seq(E1) : c = In1[r] /\ c = Created(r) /\ Len(c) = Len(Gnum(r))
  BY Give1 DEF In1
<1>3. PICK s \in Seq(E2) : /\ s = Each(c, Ed) /\ Len(s) = Len(c)
                           /\ \A k \in 1 .. Len(c) : s[k] = Ed[c[k]]
  BY EdFacts, EachTyped
<1>4. PICK A : A = [i \in 1 .. N |-> By(E2, i - 1)]
  OBVIOUS
<1>5. ASSUME NEW i \in 1 .. N PROVE Piece(i - 1, r) = Select(s, A[i])
  <2>1. PICK q : q = i - 1
    OBVIOUS
  <2>2. \A e \in E1 : e \in To(E1, {q}) <=> Ed[e] \in By(E2, q)
    BY EdFacts DEF By, To
  <2>3. Select(Each(c, Ed), By(E2, q)) = Each(Select(c, To(E1, {q})), Ed)
    <3>1. PICK f \in Maps(E1, E2) : f = Ed
      BY EdFacts
    <3>2. PICK C, D : C = To(E1, {q}) /\ D = By(E2, q)
      OBVIOUS
    <3>3. \A e \in E1 : e \in C <=> f[e] \in D
      BY <2>2, <3>1, <3>2
    <3>4. Select(Each(c, f), D) = Each(Select(c, C), f)
      BY <3>3, SelectEach
    <3> QED BY <3>1, <3>2, <3>4
  <2> QED BY <1>2, <1>3, <1>4, <2>1, <2>3 DEF Piece
<1>6. ASSUME NEW i \in 1 .. N, NEW j \in 1 .. N, i < j
      PROVE  A[i] \cap A[j] = {} /\ After(s, A[i], A[j])
  <2>1. A[i] = By(E2, i - 1) /\ A[j] = By(E2, j - 1)
    BY <1>4
  <2>2. A[i] \cap A[j] = {}
    <3>1. i - 1 # j - 1
      BY <1>6
    <3> QED BY <2>1, <3>1 DEF By
  <2>3. ASSUME NEW a \in 1 .. Len(s), NEW b \in 1 .. Len(s), a < b, s[a] \in A[j], s[b] \in A[i]
        PROVE  FALSE
    <3>1. a \in 1 .. Len(c) /\ b \in 1 .. Len(c) /\ c[a] \in E1 /\ c[b] \in E1
      BY <1>3
    <3>2. s[a].src = j - 1 /\ s[b].src = i - 1
      BY <2>1, <2>3 DEF By
    <3>3. c[a].dest = j - 1 /\ c[b].dest = i - 1
      BY <1>3, <3>1, <3>2, EdFacts
    <3>4. PICK x, y : x = Gnum(r)[a] /\ y = Gnum(r)[b]
      OBVIOUS
    <3>5. c[a].dest = (x - 1) \div setup.block /\ c[b].dest = (y - 1) \div setup.block
      BY <1>2, <3>1, <3>4 DEF Created, DestRank
    <3>6. setup.block \in Nat \ {0}
      BY SetupAssumption
    <3>7. Gnum(r) \in Seq(Nat) /\ a \in DOMAIN Gnum(r) /\ b \in DOMAIN Gnum(r)
      BY <1>2, <3>1, Give1
    <3>8. x \in Nat /\ y \in Nat
      <4>1. PICK g \in Seq(Nat) : g = Gnum(r)
        BY <3>7
      <4> QED BY <3>4, <3>7, <4>1
    <3>10. x <= y
      BY <2>3, <3>4, <3>7 DEF InOrder
    <3>9. (x - 1) \div setup.block <= (y - 1) \div setup.block
      BY <3>6, <3>8, <3>10, DestInOrder
    <3> QED BY <1>6, <3>3, <3>5, <3>9
  <2> QED BY <2>2, <2>3 DEF After
<1>7. E2 \subseteq AllOf(A, N)
  <2> SUFFICES ASSUME NEW e \in E2 PROVE \E i \in 1 .. N : e \in A[i]
    BY DEF AllOf
  <2>1. e.src \in 0 .. N - 1
    BY DEF E2, Ranks
  <2>2. e.src + 1 \in 1 .. N /\ (e.src + 1) - 1 = e.src
    BY <1>1, <2>1
  <2>3. e \in A[e.src + 1]
    BY <1>4, <2>2 DEF By
  <2> QED BY <2>2, <2>3
<1>8. FlattenSeq(Selections(s, A, N)) = Select(s, AllOf(A, N))
  BY <1>1, <1>6, FlattenOrdered
<1>9. Select(s, AllOf(A, N)) = s
  BY <1>7, SelectAll
<1>10. [i \in 1 .. N |-> Piece(i - 1, r)] = Selections(s, A, N)
  BY <1>5 DEF Selections
<1> QED BY <1>2, <1>3, <1>8, <1>9, <1>10

\* The values of what it gave, edited, are the new numbers.
LEMMA ValuesInOrder ==
  ASSUME setup \in Setups, NEW r \in Ranks, NEW s, s = Each(In1[r], Ed)
  PROVE  [k \in DOMAIN s |-> s[k].val] = [k \in DOMAIN Gnum(r) |-> NewGnum[Gnum(r)[k]]]
<1>1. PICK c \in Seq(E1) : c = In1[r] /\ c = Created(r) /\ Len(c) = Len(Gnum(r))
  BY Give1 DEF In1
<1>2. s \in Seq(E2) /\ Len(s) = Len(c) /\ \A k \in 1 .. Len(c) : s[k] = Ed[c[k]]
  BY <1>1, EdFacts, EachTyped
<1>3. DOMAIN s = 1 .. Len(c) /\ DOMAIN Gnum(r) = 1 .. Len(c)
  <2>1. PICK g \in Seq(Nat) : g = Gnum(r)
    BY Give1
  <2> QED BY <1>1, <1>2, <2>1
<1>4. ASSUME NEW k \in 1 .. Len(c) PROVE s[k].val = NewGnum[Gnum(r)[k]]
  <2>1. c[k] \in E1 /\ s[k] = Ed[c[k]]
    BY <1>2
  <2>2. c[k].val = Gnum(r)[k]
    BY <1>1 DEF Created
  <2> QED BY <2>1, <2>2, EdFacts
<1> QED BY <1>3, <1>4

\* At the end each rank holds what the default algorithm would leave.
LEMMA InvRenumbered == Inv => Renumbered
<1> SUFFICES ASSUME Inv, NEW r \in Ranks, pc[r] = "done"
             PROVE  /\ InOrder(Gnum(r)) => [k \in DOMAIN buffer[r] |-> buffer[r][k].val]
                                           = [k \in DOMAIN Gnum(r) |-> NewGnum[Gnum(r)[k]]]
                    /\ SameAsDefault(r)
  BY DEF Renumbered
<1>1. PICK l : InvAt(l)
  BY DEF Inv
<1>2. setup \in Setups /\ buffer[r] = BySource(H(1, N, r))
  BY <1>1 DEF InvAt, Local, ContentsOK
<1>3. buffer[r] = FlattenSeq([i \in 1 .. N |-> Piece(i - 1, r)])
  BY <1>2, SortedIs
<1>4. SameAsDefault(r)
  BY <1>2, <1>3, DefaultIs DEF SameAsDefault
<1>5. ASSUME InOrder(Gnum(r))
      PROVE  [k \in DOMAIN buffer[r] |-> buffer[r][k].val]
               = [k \in DOMAIN Gnum(r) |-> NewGnum[Gnum(r)[k]]]
  <2>1. buffer[r] = Each(In1[r], Ed)
    BY <1>2, <1>3, <1>5, PiecesInOrder
  <2> QED BY <1>2, <2>1, ValuesInOrder
<1> QED BY <1>4, <1>5

\* After the round trip each rank holds what MPI_Alltoallv would have left, in the same order; so
\* the new number of its i-th vertex is in the i-th place if its vertices are in order.
THEOREM RoundTrip == Spec => []Renumbered
<1> QED BY InvHolds, InvRenumbered, PTL
===============================================================================
