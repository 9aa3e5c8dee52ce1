--------------------------- MODULE LoopProgramProofs ---------------------------
(***************************************************************************)
(* Loops of MPI_Sendrecv over partners in ascending order never block and  *)
(* never mix their messages, for any set of ranks and any loops decided    *)
(* together, as long as the relation between ranks is symmetric.           *)
(*                                                                         *)
(* For each pair, Past(r, q, m) says that r ended exchange m with q, and   *)
(* Sent(r, q, m) that it posted its message.  What is in transit from r to *)
(* q is, in ascending order, what r sent and q has not taken.  If all      *)
(* ranks waited, take the least rank u of those in the earliest loop, and  *)
(* v that it waits for: v has not come to u in that loop, so it waits for  *)
(* a lesser rank w, in the same loop, which contradicts the choice of u.   *)
(***************************************************************************)
EXTENDS LoopProgram, FiniteSetTheorems, SequenceTheorems, WellFoundedInduction, TLAPS

Due(r, q) == {m \in 0 .. Len(plan) - 1 : q \in plan[m + 1].with[r]}
InLoop(r, m) == m = pass[r] \/ (m = pass[r] + 1 /\ Twice(r))
Past(r, q, m) == \/ m < pass[r]
                 \/ InLoop(r, m) /\ q \notin left[r]
                 \/ second[r] /\ q = Partner(r) /\ m = pass[r]
Sent(r, q, m) == Past(r, q, m) \/ (posted[r] /\ q = Partner(r) /\ m = Stamp(r))
OnTheWay(r, q) == {m \in Due(r, q) : Sent(r, q, m) /\ ~Past(q, r, m)}

\* c is the set S in ascending order.
Holds(c, S) == /\ \A i, j \in 1 .. Len(c) : i < j => c[i] < c[j]
               /\ \A i \in 1 .. Len(c) : c[i] \in S
               /\ \A m \in S : \E i \in 1 .. Len(c) : c[i] = m

LoopTyped ==
  /\ WellFormed(plan)
  /\ pass \in [Ranks -> Nat]
  /\ left \in [Ranks -> SUBSET Ranks]
  /\ posted \in [Ranks -> BOOLEAN] /\ second \in [Ranks -> BOOLEAN]
  /\ chan \in [Ranks \X Ranks -> Seq(Nat)]

Positions ==
  \A r \in Ranks :
    /\ pass[r] <= Len(plan)
    /\ left[r] # {} => pass[r] < Len(plan)
    /\ pass[r] < Len(plan) => /\ plan[pass[r] + 1].part # "second"
                              /\ left[r] \subseteq plan[pass[r] + 1].with[r]
    /\ posted[r] => left[r] # {}
    /\ second[r] => left[r] # {} /\ Twice(r)

InTransit ==
  \A r, q \in Ranks : /\ Holds(chan[<<r, q>>], OnTheWay(r, q))
                      /\ \A m \in Due(r, q) : Past(q, r, m) => Sent(r, q, m)

LoopInv == LoopTyped /\ Positions /\ InTransit

-------------------------------------------------------------------------------
\* A non-empty set of naturals has a least element: among the intervals 0 .. n
\* for n in the set, one is minimal for inclusion.
LEMMA LeastExists ==
  ASSUME NEW S, S \subseteq Nat, S # {}
  PROVE  \E m \in S : \A n \in S : m <= n
<1> DEFINE T == {0 .. n : n \in S}
<1>1. T \subseteq FiniteSubsetsOf(Nat) /\ T # {}
  <2>1. ASSUME NEW n \in S PROVE 0 .. n \in FiniteSubsetsOf(Nat)
    <3>1. n \in Nat
      OBVIOUS
    <3>2. IsFiniteSet(0 .. n)
      BY <3>1, FS_Interval
    <3>3. QED
      BY <3>1, <3>2 DEF FiniteSubsetsOf
  <2>2. QED
    BY <2>1
<1>2. IsWellFoundedOn(StrictSubsetOrdering(Nat), FiniteSubsetsOf(Nat))
  BY FS_StrictSubsetOrderingWellFounded
<1>3. PICK x \in T : \A y \in T : ~(<<y, x>> \in StrictSubsetOrdering(Nat))
  BY <1>1, <1>2, WFMin
<1>4. PICK m \in S : x = 0 .. m
  OBVIOUS
<1>5. ASSUME NEW n \in S, ~(m <= n) PROVE FALSE
  <2>1. m \in Nat /\ n \in Nat /\ n < m
    BY <1>5
  <2>2. /\ 0 .. n \subseteq 0 .. m /\ 0 .. n # 0 .. m
        /\ 0 .. n \in SUBSET Nat /\ 0 .. m \in SUBSET Nat
    BY <2>1
  <2>3. <<0 .. n, 0 .. m>> \in StrictSubsetOrdering(Nat)
    BY <2>2 DEF StrictSubsetOrdering
  <2>4. QED
    BY <2>3, <1>3, <1>4
<1>6. QED
  BY <1>5

LEMMA PartnerIsLeast ==
  ASSUME NEW r \in Ranks, left \in [Ranks -> SUBSET Ranks], left[r] # {}
  PROVE  Partner(r) \in left[r] /\ \A s \in left[r] : Partner(r) <= s
<1>1. \E q \in left[r] : \A s \in left[r] : q <= s
  BY LeastExists, RanksAssumption
<1>2. QED
  BY <1>1 DEF Partner

LEMMA HoldsAppend ==
  ASSUME NEW c \in Seq(Nat), NEW S, NEW n \in Nat,
         Holds(c, S), \A m \in S : m < n
  PROVE  Holds(Append(c, n), S \cup {n})
<1> DEFINE e == Append(c, n)
<1>1. /\ Len(c) \in Nat /\ Len(e) = Len(c) + 1 /\ e[Len(c) + 1] = n
      /\ \A i \in 1 .. Len(c) : e[i] = c[i]
  OBVIOUS
<1>2. \A i \in 1 .. Len(e) : i \in 1 .. Len(c) \/ i = Len(c) + 1
  BY <1>1
<1>3. ASSUME NEW i \in 1 .. Len(e), NEW j \in 1 .. Len(e), i < j PROVE e[i] < e[j]
  <2>1. i \in 1 .. Len(c) /\ e[i] = c[i]
    BY <1>1, <1>3
  <2>2. CASE j \in 1 .. Len(c)
    BY <1>1, <1>3, <2>1, <2>2 DEF Holds
  <2>3. CASE j = Len(c) + 1
    BY <1>1, <2>1, <2>3 DEF Holds
  <2>4. QED
    BY <1>2, <2>2, <2>3
<1>4. ASSUME NEW i \in 1 .. Len(e) PROVE e[i] \in S \cup {n}
  BY <1>1, <1>2 DEF Holds
<1>5. ASSUME NEW m \in S \cup {n} PROVE \E i \in 1 .. Len(e) : e[i] = m
  <2>1. CASE m = n
    <3>1. Len(c) + 1 \in 1 .. Len(e)
      BY <1>1
    <3>2. QED
      BY <1>1, <2>1, <3>1
  <2>2. CASE m \in S
    <3>1. PICK i \in 1 .. Len(c) : c[i] = m
      BY <2>2 DEF Holds
    <3>2. i \in 1 .. Len(e) /\ e[i] = m
      BY <1>1, <3>1
    <3>3. QED
      BY <3>2
  <2>3. QED
    BY <2>1, <2>2
<1>6. QED
  BY <1>3, <1>4, <1>5 DEF Holds

LEMMA HoldsTail ==
  ASSUME NEW c \in Seq(Nat), NEW S, NEW n \in S,
         Holds(c, S), \A m \in S : n <= m
  PROVE  Head(c) = n /\ Holds(Tail(c), S \ {n})
<1> DEFINE e == Tail(c)
<1>1. PICK k \in 1 .. Len(c) : c[k] = n
  BY DEF Holds
<1>2. /\ Len(c) \in Nat /\ Len(c) >= 1 /\ c # <<>> /\ Head(c) = c[1]
      /\ Len(e) = Len(c) - 1 /\ \A i \in 1 .. Len(e) : e[i] = c[i + 1]
  BY <1>1
<1>3. \A i \in 1 .. Len(c) : c[i] \in Nat /\ c[i] \in S
  BY DEF Holds
<1>4. c[1] = n
  <2>1. 1 \in 1 .. Len(c) /\ n <= c[1] /\ n \in Nat
    BY <1>1, <1>2, <1>3
  <2>2. CASE k = 1
    BY <1>1, <2>2
  <2>3. CASE k # 1
    <3>1. 1 < k
      BY <1>1, <2>3
    <3>2. c[1] < c[k]
      BY <2>1, <3>1 DEF Holds
    <3>3. QED
      BY <1>1, <1>3, <2>1, <3>2
  <2>4. QED
    BY <2>2, <2>3
<1>5. \A i \in 1 .. Len(e) : i + 1 \in 1 .. Len(c) /\ 1 < i + 1
  BY <1>2
<1>6. ASSUME NEW i \in 1 .. Len(e), NEW j \in 1 .. Len(e), i < j PROVE e[i] < e[j]
  <2>1. i + 1 < j + 1
    BY <1>6
  <2>2. c[i + 1] < c[j + 1]
    BY <1>5, <2>1 DEF Holds
  <2>3. QED
    BY <1>2, <2>2
<1>7. ASSUME NEW i \in 1 .. Len(e) PROVE e[i] \in S \ {n}
  <2>1. c[1] < c[i + 1] /\ c[i + 1] \in S /\ c[i + 1] \in Nat
    BY <1>2, <1>3, <1>5 DEF Holds
  <2>2. QED
    BY <1>2, <1>4, <2>1
<1>8. ASSUME NEW m \in S \ {n} PROVE \E i \in 1 .. Len(e) : e[i] = m
  <2>1. PICK j \in 1 .. Len(c) : c[j] = m
    BY DEF Holds
  <2>2. j # 1
    BY <1>4, <2>1
  <2>3. j - 1 \in 1 .. Len(e) /\ (j - 1) + 1 = j
    BY <1>2, <2>2
  <2>4. e[j - 1] = m
    BY <1>2, <2>1, <2>3
  <2>5. QED
    BY <2>3, <2>4
<1>9. QED
  BY <1>2, <1>4, <1>6, <1>7, <1>8 DEF Holds

-------------------------------------------------------------------------------
LEMMA DueIsSymmetric ==
  ASSUME LoopTyped, NEW r \in Ranks, NEW q \in Ranks
  PROVE  Due(r, q) = Due(q, r) /\ Due(r, q) \subseteq Nat
<1>1. Len(plan) \in Nat /\ \A m \in 0 .. Len(plan) - 1 : m + 1 \in 1 .. Len(plan)
  BY DEF LoopTyped, WellFormed
<1>2. ASSUME NEW m \in 0 .. Len(plan) - 1
      PROVE  q \in plan[m + 1].with[r] <=> r \in plan[m + 1].with[q]
  BY <1>1 DEF LoopTyped, WellFormed, Symmetric
<1>3. QED
  BY <1>1, <1>2 DEF Due

\* The exchange that a rank is at is the first one it has not ended with its partner.
LEMMA CurrentExchange ==
  ASSUME LoopTyped, Positions, NEW u \in Ranks, NEW v, left[u] # {}, v = Partner(u)
  PROVE  /\ v \in left[u] /\ v \in Ranks /\ Stamp(u) \in Due(u, v)
         /\ \A m \in Due(u, v) : Past(u, v, m) <=> m < Stamp(u)
<1>1. v \in left[u] /\ v \in Ranks
  BY PartnerIsLeast DEF LoopTyped
<1>2. /\ pass[u] \in Nat /\ pass[u] < Len(plan) /\ Len(plan) \in Nat
      /\ v \in plan[pass[u] + 1].with[u]
  BY <1>1 DEF LoopTyped, Positions, WellFormed
<1>3. Stamp(u) \in Due(u, v)
  <2>1. CASE second[u]
    <3>1. plan[pass[u] + 1].part = "first"
      BY <2>1 DEF Positions, Twice
    <3>2. pass[u] + 1 \in 1 .. Len(plan)
      BY <1>2
    <3>3. pass[u] + 1 < Len(plan) /\ plan[pass[u] + 2].with = plan[pass[u] + 1].with
      BY <1>2, <3>1, <3>2 DEF LoopTyped, WellFormed
    <3>4. pass[u] + 1 \in 0 .. Len(plan) - 1 /\ (pass[u] + 1) + 1 = pass[u] + 2
      BY <1>2, <3>3
    <3>5. QED
      BY <1>2, <2>1, <3>3, <3>4 DEF Stamp, Due
  <2>2. CASE ~second[u]
    BY <1>2, <2>2 DEF Stamp, Due
  <2>3. QED
    BY <2>1, <2>2
<1>4. ASSUME NEW m \in Due(u, v) PROVE Past(u, v, m) <=> m < Stamp(u)
  <2>1. m \in Nat
    BY <1>2 DEF Due
  <2>2. CASE second[u]
    <3>1. Stamp(u) = pass[u] + 1
      BY <2>2 DEF Stamp
    <3>2. Past(u, v, m) <=> m < pass[u] \/ m = pass[u]
      BY <1>1, <2>2 DEF Past
    <3>3. QED
      BY <1>2, <2>1, <3>1, <3>2
  <2>3. CASE ~second[u]
    BY <1>1, <2>3 DEF Stamp, Past
  <2>4. QED
    BY <2>2, <2>3
<1>5. QED
  BY <1>1, <1>3, <1>4

\* What was sent before something that was sent.
LEMMA SentBefore ==
  ASSUME LoopTyped, Positions, NEW r \in Ranks, NEW q \in Ranks,
         NEW m \in Due(r, q), NEW n \in Due(r, q), m <= n, Sent(r, q, n)
  PROVE  Sent(r, q, m)
<1>1. m \in Nat /\ n \in Nat /\ pass[r] \in Nat
  BY DEF Due, LoopTyped
<1>2. CASE m = n \/ m < pass[r]
  BY <1>2 DEF Sent, Past
<1>3. CASE m # n /\ ~(m < pass[r])
  <2>1. n > pass[r] /\ n > m
    BY <1>1, <1>3
  <2>2. (InLoop(r, n) /\ q \notin left[r]) \/ (posted[r] /\ q = Partner(r) /\ n = Stamp(r))
    BY <1>1, <2>1 DEF Sent, Past
  <2>3. n = pass[r] + 1
    BY <1>1, <2>1, <2>2 DEF InLoop, Stamp
  <2>4. m = pass[r]
    BY <1>1, <1>3, <2>1, <2>3
  <2>5. CASE q \notin left[r]
    BY <2>4, <2>5 DEF Sent, Past, InLoop
  <2>6. CASE q = Partner(r) /\ n = Stamp(r)
    <3>1. second[r]
      BY <1>1, <2>3, <2>6 DEF Stamp
    <3>2. QED
      BY <2>4, <2>6, <3>1 DEF Sent, Past
  <2>7. QED
    BY <2>2, <2>5, <2>6
<1>4. QED
  BY <1>2, <1>3

\* What arrives was sent at or after the exchange that the rank is at, hence the message
\* of that exchange was, and it is the first one on the way.
LEMMA NextMessage ==
  ASSUME LoopTyped, Positions, InTransit, NEW u \in Ranks, NEW v, left[u] # {},
         v = Partner(u), chan[<<v, u>>] # <<>>
  PROVE  Stamp(u) \in OnTheWay(v, u) /\ \A m \in OnTheWay(v, u) : Stamp(u) <= m
<1>1. /\ v \in Ranks /\ Stamp(u) \in Due(u, v)
      /\ \A m \in Due(u, v) : Past(u, v, m) <=> m < Stamp(u)
  BY CurrentExchange
<1>2. /\ Due(u, v) = Due(v, u) /\ Due(u, v) \subseteq Nat
      /\ Holds(chan[<<v, u>>], OnTheWay(v, u)) /\ chan[<<v, u>>] \in Seq(Nat)
  BY <1>1, DueIsSymmetric DEF InTransit, LoopTyped
<1>3. PICK k \in OnTheWay(v, u) : TRUE
  <2>1. 1 \in 1 .. Len(chan[<<v, u>>])
    BY <1>2
  <2>2. QED
    BY <1>2, <2>1 DEF Holds
<1>4. \A m \in OnTheWay(v, u) : m \in Due(v, u) /\ Stamp(u) <= m /\ Sent(v, u, m)
  BY <1>1, <1>2 DEF OnTheWay
<1>5. Sent(v, u, Stamp(u))
  BY <1>1, <1>2, <1>3, <1>4, SentBefore
<1>6. ~Past(u, v, Stamp(u))
  BY <1>1, <1>2
<1>7. QED
  BY <1>1, <1>2, <1>4, <1>5, <1>6 DEF OnTheWay

-------------------------------------------------------------------------------
LEMMA LoopInvInit == LoopInit => LoopInv
<1> SUFFICES ASSUME LoopInit PROVE LoopInv
  OBVIOUS
<1>0. /\ plan = <<>> /\ Len(plan) = 0 /\ chan = [p \in Ranks \X Ranks |-> <<>>]
      /\ left = [r \in Ranks |-> {}] /\ posted = [r \in Ranks |-> FALSE]
      /\ pass = [r \in Ranks |-> 0] /\ second = [r \in Ranks |-> FALSE]
  BY DEF LoopInit
<1>1. LoopTyped
  <2>1. WellFormed(plan)
    BY <1>0 DEF WellFormed
  <2>2. QED
    BY <1>0, <2>1 DEF LoopTyped
<1>2. Positions
  <2>1. /\ 0 <= Len(plan) /\ ~(0 < Len(plan))
        /\ \A r \in Ranks : pass[r] = 0 /\ left[r] = {} /\ ~posted[r] /\ ~second[r]
    BY <1>0
  <2>2. QED
    BY <2>1, Zenon DEF Positions
<1>3. InTransit
  <2> SUFFICES ASSUME NEW r \in Ranks, NEW q \in Ranks
               PROVE  /\ Holds(chan[<<r, q>>], OnTheWay(r, q))
                      /\ \A m \in Due(r, q) : Past(q, r, m) => Sent(r, q, m)
    BY DEF InTransit
  <2>1. Due(r, q) = {} /\ OnTheWay(r, q) = {} /\ chan[<<r, q>>] = <<>>
    BY <1>0 DEF Due, OnTheWay
  <2>2. QED
    BY <2>1 DEF Holds
<1>4. QED
  BY <1>1, <1>2, <1>3 DEF LoopInv

\* Nothing that is yet to come was posted.
LEMMA LoopInvDecide ==
  ASSUME LoopInv, Decide
  PROVE  LoopInv'
<1>1. LoopTyped /\ Positions /\ InTransit
  BY DEF LoopInv
<1>2. /\ posted' = posted /\ chan' = chan /\ pass' = pass /\ second' = second
      /\ WellFormed(plan') /\ Len(plan) \in Nat /\ Len(plan') \in Nat
      /\ Len(plan) <= Len(plan') /\ \A k \in 1 .. Len(plan) : plan'[k] = plan[k]
      /\ left' = [r \in Ranks |-> Begins(plan', pass[r], r)]
  BY <1>1 DEF Decide, LoopTyped, WellFormed
<1>3. \A r \in Ranks : pass[r] = Len(plan) /\ left[r] = {} /\ ~posted[r] /\ ~second[r]
  BY <1>1, <1>2 DEF Decide, Positions
<1>4. ASSUME NEW r \in Ranks
      PROVE  /\ pass[r] < Len(plan') => left'[r] = plan'[pass[r] + 1].with[r]
                                        /\ left'[r] \subseteq Ranks
                                        /\ plan'[pass[r] + 1].part # "second"
             /\ ~(pass[r] < Len(plan')) => left'[r] = {}
  <2>1. CASE pass[r] < Len(plan')
    <3>1. pass[r] + 1 \in 1 .. Len(plan') /\ pass[r] = Len(plan)
      BY <1>2, <1>3, <2>1
    <3>2. plan'[pass[r] + 1].with[r] \subseteq Ranks
      <4>0. plan' \in Seq([with : [Ranks -> SUBSET Ranks], part : Parts])
        BY <1>2 DEF WellFormed
      <4>1. plan'[pass[r] + 1] \in [with : [Ranks -> SUBSET Ranks], part : Parts]
        BY <3>1, <4>0, ElementOfSeq
      <4>2. plan'[pass[r] + 1].with \in [Ranks -> SUBSET Ranks]
        BY <4>1
      <4>3. QED
        BY <4>2
    <3>3. ASSUME plan'[pass[r] + 1].part = "second" PROVE FALSE
      <4>1. Len(plan) \in 1 .. Len(plan) /\ plan'[Len(plan)].part = "first"
        BY <1>2, <3>1, <3>3 DEF WellFormed
      <4>2. plan[Len(plan)].part = "first"
        BY <1>2, <4>1
      <4>3. QED
        BY <1>1, <4>1, <4>2 DEF LoopTyped, WellFormed
    <3>4. QED
      BY <1>2, <2>1, <3>2, <3>3 DEF Begins
  <2>2. CASE ~(pass[r] < Len(plan'))
    BY <1>2, <2>2 DEF Begins
  <2>3. QED
    BY <2>1, <2>2
<1>5. LoopTyped'
  <2>1. left' \in [Ranks -> SUBSET Ranks]
    BY <1>2, <1>4
  <2>2. QED
    BY <1>1, <1>2, <2>1 DEF LoopTyped
<1>6. Positions'
  BY <1>2, <1>3, <1>4 DEF Positions
<1>7. InTransit'
  <2> SUFFICES ASSUME NEW r \in Ranks, NEW q \in Ranks
               PROVE  /\ Holds(chan'[<<r, q>>], OnTheWay(r, q)')
                      /\ \A m \in Due(r, q)' : Past(q, r, m)' => Sent(r, q, m)'
    BY DEF InTransit, Holds
  <2>1. \A m \in Due(r, q) : m \in Due(r, q)' /\ m < Len(plan)
    BY <1>2 DEF Due
  <2>2. \A m \in Due(r, q)' : m \in Nat /\ (m < Len(plan) => m \in Due(r, q))
    BY <1>2 DEF Due
  <2>3. \A m \in Due(r, q)' : /\ Past(q, r, m)' <=> m < Len(plan)
                              /\ Sent(r, q, m)' <=> m < Len(plan)
    <3> SUFFICES ASSUME NEW a \in Ranks, NEW b \in Ranks, NEW m \in Due(r, q)',
                        \/ a = r /\ b = q
                        \/ a = q /\ b = r
                 PROVE  Past(a, b, m)' <=> m < Len(plan)
      BY <1>2, <1>3 DEF Sent
    <3>1. m \in 0 .. Len(plan') - 1 /\ m + 1 \in 1 .. Len(plan') /\ q \in plan'[m + 1].with[r]
      BY <1>2 DEF Due
    <3>2. b \in plan'[m + 1].with[a]
      BY <1>2, <3>1 DEF WellFormed, Symmetric
    <3>3. CASE m < Len(plan)
      BY <1>2, <1>3, <3>3 DEF Past
    <3>4. CASE m = Len(plan)
      BY <1>2, <1>3, <1>4, <3>1, <3>2, <3>4 DEF Past, InLoop
    <3>5. CASE m > Len(plan)
      <4>1. ASSUME InLoop(a, m)', b \notin left'[a] PROVE FALSE
        <5>1. m = Len(plan) + 1 /\ plan'[Len(plan) + 1].part = "first"
          BY <1>2, <1>3, <3>5, <4>1 DEF InLoop, Twice
        <5>2. plan'[Len(plan) + 2].with = plan'[Len(plan) + 1].with
          BY <1>2, <3>1, <5>1 DEF WellFormed
        <5>3. QED
          BY <1>2, <1>3, <1>4, <3>1, <3>2, <4>1, <5>1, <5>2
      <4>2. QED
        BY <1>2, <1>3, <3>1, <3>5, <4>1 DEF Past
    <3>6. QED
      BY <1>2, <3>1, <3>3, <3>4, <3>5
  <2>4. \A m \in Due(r, q) : Past(q, r, m)
    BY <1>3, <2>1 DEF Past
  <2>5. OnTheWay(r, q) = {} /\ OnTheWay(r, q)' = {}
    BY <2>3, <2>4 DEF OnTheWay
  <2>6. Holds(chan'[<<r, q>>], OnTheWay(r, q)')
    BY <1>1, <1>2, <2>5 DEF InTransit
  <2>7. QED
    BY <2>3, <2>6
<1>8. QED
  BY <1>5, <1>6, <1>7 DEF LoopInv

\* Posting sends the current exchange of u and v, and nothing else changes.
LEMMA LoopInvEnter ==
  ASSUME LoopInv, NEW u \in Ranks, Enter(u)
  PROVE  LoopInv'
<1>1. LoopTyped /\ Positions /\ InTransit /\ left[u] # {} /\ ~posted[u]
  BY DEF LoopInv, Enter, Post
<1>2. PICK v \in Ranks : v = Partner(u)
  BY <1>1, PartnerIsLeast DEF LoopTyped
<1> DEFINE n == Stamp(u)
<1>3. /\ v \in left[u] /\ n \in Due(u, v)
      /\ \A m \in Due(u, v) : Past(u, v, m) <=> m < n
  BY <1>1, <1>2, CurrentExchange
<1>4. /\ plan' = plan /\ pass' = pass /\ second' = second /\ left' = left
      /\ posted' = [posted EXCEPT ![u] = TRUE]
      /\ chan' = [chan EXCEPT ![<<u, v>>] = Append(@, n)]
  BY <1>2 DEF Enter, Post
<1>5. n \in Nat
  BY DEF Stamp, LoopTyped, LoopInv
<1>6. LoopTyped' /\ Positions'
  BY <1>1, <1>4, <1>5 DEF LoopTyped, Positions, Twice
<1>7. /\ \A r, q : Due(r, q)' = Due(r, q)
      /\ \A r, q, m : Past(r, q, m)' <=> Past(r, q, m)
      /\ \A r : Partner(r)' = Partner(r) /\ Stamp(r)' = Stamp(r)
  BY <1>4 DEF Due, Past, InLoop, Twice, Partner, Stamp
<1>8. ASSUME NEW r \in Ranks, NEW q \in Ranks, NEW m
      PROVE  Sent(r, q, m)' <=> Sent(r, q, m) \/ (r = u /\ q = v /\ m = n)
  <2>1. CASE r = u
    BY <1>1, <1>2, <1>4, <1>7, <2>1 DEF Sent, LoopTyped
  <2>2. CASE r # u
    BY <1>1, <1>4, <1>7, <2>2 DEF Sent, LoopTyped
  <2>3. QED
    BY <2>1, <2>2
<1>9. InTransit'
  <2> SUFFICES ASSUME NEW r \in Ranks, NEW q \in Ranks
               PROVE  /\ Holds(chan'[<<r, q>>], OnTheWay(r, q)')
                      /\ \A m \in Due(r, q) : Past(q, r, m) => Sent(r, q, m)'
    BY <1>7 DEF InTransit, Holds
  <2>1. /\ Holds(chan[<<r, q>>], OnTheWay(r, q)) /\ chan[<<r, q>>] \in Seq(Nat)
        /\ \A m \in Due(r, q) : Past(q, r, m) => Sent(r, q, m)
    BY <1>1 DEF InTransit, LoopTyped
  <2>2. \A m \in Due(r, q) : Past(q, r, m) => Sent(r, q, m)'
    BY <1>8, <2>1
  <2>3. CASE r = u /\ q = v
    <3>1. \A m \in Due(u, v) : Sent(u, v, m) <=> m < n
      BY <1>1, <1>3 DEF Sent
    <3>2. ~Past(v, u, n)
      BY <1>3, <1>5, <2>1, <2>3, <3>1
    <3>3. OnTheWay(r, q)' = OnTheWay(r, q) \cup {n}
      BY <1>3, <1>7, <1>8, <2>3, <3>2 DEF OnTheWay
    <3>4. \A m \in OnTheWay(r, q) : m < n
      BY <2>3, <3>1 DEF OnTheWay
    <3>5. chan'[<<r, q>>] = Append(chan[<<r, q>>], n)
      BY <1>1, <1>4, <2>3 DEF LoopTyped
    <3>6. Holds(Append(chan[<<r, q>>], n), OnTheWay(r, q) \cup {n})
      BY <1>5, <2>1, <3>4, HoldsAppend
    <3>7. QED
      BY <2>2, <3>3, <3>5, <3>6
  <2>4. CASE ~(r = u /\ q = v)
    <3>1. OnTheWay(r, q)' = OnTheWay(r, q)
      BY <1>7, <1>8, <2>4 DEF OnTheWay
    <3>2. chan'[<<r, q>>] = chan[<<r, q>>]
      BY <1>1, <1>4, <2>4 DEF LoopTyped
    <3>3. QED
      BY <2>1, <2>2, <3>1, <3>2
  <2>5. QED
    BY <2>3, <2>4
<1>10. QED
  BY <1>6, <1>9 DEF LoopInv

\* Taking a message ends the current exchange of u and v, and what was sent stays so.
LEMMA LoopInvLeave ==
  ASSUME LoopInv, NEW u \in Ranks, Leave(u)
  PROVE  LoopInv'
<1>1. LoopTyped /\ Positions /\ InTransit /\ left[u] # {} /\ posted[u]
  BY DEF LoopInv, Leave, Take, Arrived
<1>2. PICK v \in Ranks : v = Partner(u)
  BY <1>1, PartnerIsLeast DEF LoopTyped
<1>3. PICK n : n = Stamp(u)
  OBVIOUS
<1>4. /\ v \in left[u] /\ n \in Due(u, v) /\ n \in Nat
      /\ \A m \in Due(u, v) : Past(u, v, m) <=> m < n
  BY <1>1, <1>2, <1>3, CurrentExchange DEF Stamp, LoopTyped
<1>5. /\ plan' = plan /\ pass' = pass
      /\ posted' = [posted EXCEPT ![u] = FALSE]
      /\ chan[<<v, u>>] # <<>> /\ chan' = [chan EXCEPT ![<<v, u>>] = Tail(@)]
  BY <1>2 DEF Leave, Take, Arrived
<1>6. \/ /\ Twice(u) /\ ~second[u] /\ n = pass[u]
         /\ second' = [second EXCEPT ![u] = TRUE] /\ left' = left
      \/ /\ ~(Twice(u) /\ ~second[u]) /\ second' = [second EXCEPT ![u] = FALSE]
         /\ left' = [left EXCEPT ![u] = @ \ {v}]
  BY <1>2, <1>3 DEF Leave, Visit, Stamp
<1>7. LoopTyped'
  <2>1. chan[<<v, u>>] \in Seq(Nat) /\ Tail(chan[<<v, u>>]) \in Seq(Nat)
    BY <1>1, <1>5 DEF LoopTyped
  <2>2. chan' \in [Ranks \X Ranks -> Seq(Nat)]
    BY <1>1, <1>5, <2>1 DEF LoopTyped
  <2>3. left' \in [Ranks -> SUBSET Ranks] /\ second' \in [Ranks -> BOOLEAN]
    BY <1>1, <1>6 DEF LoopTyped
  <2>4. QED
    BY <1>1, <1>5, <2>2, <2>3 DEF LoopTyped
<1>8. Positions'
  BY <1>1, <1>5, <1>6 DEF Positions, LoopTyped, Twice
<1>9. \A r, q : Due(r, q)' = Due(r, q)
  BY <1>5 DEF Due
\* Only what u has ended with v changes, by the current exchange.
<1>10. ASSUME NEW r \in Ranks, NEW q \in Ranks, r # u
       PROVE  /\ Stamp(r)' = Stamp(r) /\ posted'[r] = posted[r] /\ Partner(r)' = Partner(r)
              /\ \A m : Past(r, q, m)' <=> Past(r, q, m)
  <2>1. left'[r] = left[r] /\ second'[r] = second[r] /\ posted'[r] = posted[r]
    BY <1>1, <1>5, <1>6, <1>10 DEF LoopTyped
  <2>2. QED
    BY <1>5, <2>1 DEF Past, InLoop, Twice, Partner, Stamp
<1>11. ASSUME NEW q \in Ranks, q # v, NEW m
       PROVE  Past(u, q, m)' <=> Past(u, q, m)
  <2>1. CASE Twice(u) /\ ~second[u]
    <3>1. left' = left /\ Partner(u)' = v /\ pass' = pass
      BY <1>2, <1>5, <1>6, <2>1 DEF Partner
    <3>2. InLoop(u, m)' <=> InLoop(u, m)
      BY <1>5 DEF InLoop, Twice
    <3>3. QED
      BY <1>2, <1>11, <3>1, <3>2 DEF Past
  <2>2. CASE ~(Twice(u) /\ ~second[u])
    <3>1. (q \in left'[u] <=> q \in left[u]) /\ ~second'[u] /\ pass' = pass
      BY <1>1, <1>5, <1>6, <1>11, <2>2 DEF LoopTyped
    <3>2. InLoop(u, m)' <=> InLoop(u, m)
      BY <1>5 DEF InLoop, Twice
    <3>3. QED
      BY <1>2, <1>11, <3>1, <3>2 DEF Past
  <2>3. QED
    BY <2>1, <2>2
<1>12. ASSUME NEW m \in Due(u, v)
       PROVE  Past(u, v, m)' <=> m <= n
  <2>1. m \in Nat /\ pass[u] \in Nat
    BY <1>1 DEF Due, LoopTyped
  <2>2. CASE Twice(u) /\ ~second[u]
    <3>1. left' = left /\ Partner(u)' = v /\ pass' = pass /\ second'[u] /\ n = pass[u]
      BY <1>1, <1>2, <1>5, <1>6, <2>2 DEF Partner, LoopTyped
    <3>2. Past(u, v, m)' <=> m < pass[u] \/ m = pass[u]
      BY <1>4, <3>1 DEF Past
    <3>3. QED
      BY <2>1, <3>1, <3>2
  <2>3. CASE ~(Twice(u) /\ ~second[u])
    <3>1. v \notin left'[u] /\ ~second'[u] /\ pass' = pass
      BY <1>1, <1>5, <1>6, <2>3 DEF LoopTyped
    <3>2. Past(u, v, m)' <=> m < pass[u] \/ InLoop(u, m)
      BY <1>5, <3>1 DEF Past, InLoop, Twice
    <3>3. n = IF Twice(u) THEN pass[u] + 1 ELSE pass[u]
      BY <1>1, <1>3, <2>3 DEF Stamp, Positions
    <3>4. QED
      BY <2>1, <3>2, <3>3 DEF InLoop
  <2>4. QED
    BY <2>2, <2>3
<1>13. ASSUME NEW r \in Ranks, NEW q \in Ranks, NEW m \in Due(r, q)
       PROVE  Sent(r, q, m)' <=> Sent(r, q, m)
  <2>1. m \in Nat
    BY <1>13 DEF Due
  <2>2. CASE r # u
    BY <1>10, <2>2 DEF Sent
  <2>3. CASE r = u /\ q # v
    <3>1. ~posted'[u] /\ q # Partner(u)
      BY <1>1, <1>2, <1>5, <2>3 DEF LoopTyped
    <3>2. QED
      BY <1>11, <2>3, <3>1 DEF Sent
  <2>4. CASE r = u /\ q = v
    <3>1. ~posted'[u]
      BY <1>1, <1>5 DEF LoopTyped
    <3>2. Sent(u, v, m)' <=> m <= n
      BY <1>12, <2>4, <3>1 DEF Sent
    <3>3. Sent(u, v, m) <=> m < n \/ m = n
      BY <1>1, <1>2, <1>3, <1>4, <2>4 DEF Sent
    <3>4. QED
      BY <1>4, <2>1, <2>4, <3>2, <3>3
  <2>5. QED
    BY <2>2, <2>3, <2>4
<1>14. InTransit'
  <2> SUFFICES ASSUME NEW r \in Ranks, NEW q \in Ranks
               PROVE  /\ Holds(chan'[<<r, q>>], OnTheWay(r, q)')
                      /\ \A m \in Due(r, q) : Past(q, r, m)' => Sent(r, q, m)
    BY <1>9, <1>13 DEF InTransit, Holds
  <2>1. /\ Holds(chan[<<r, q>>], OnTheWay(r, q)) /\ chan[<<r, q>>] \in Seq(Nat)
        /\ \A m \in Due(r, q) : Past(q, r, m) => Sent(r, q, m)
        /\ Due(r, q) = Due(q, r) /\ Due(r, q) \subseteq Nat
    BY <1>1, DueIsSymmetric DEF InTransit, LoopTyped
  <2>2. CASE r = v /\ q = u
    <3>1. n \in OnTheWay(r, q) /\ \A m \in OnTheWay(r, q) : n <= m
      BY <1>1, <1>2, <1>3, <1>5, <2>2, NextMessage
    <3>2. Sent(r, q, n)
      BY <3>1 DEF OnTheWay
    <3>5. Holds(Tail(chan[<<r, q>>]), OnTheWay(r, q) \ {n})
      BY <2>1, <3>1, HoldsTail
    <3>6. chan'[<<r, q>>] = Tail(chan[<<r, q>>])
      BY <1>1, <1>5, <2>2 DEF LoopTyped
    <3>7. \A m \in Due(r, q) : Past(q, r, m)' <=> Past(q, r, m) \/ m = n
      <4>1. \A m \in Due(r, q) : m \in Nat /\ (m <= n <=> m < n \/ m = n)
        BY <1>4, <2>1
      <4>2. QED
        BY <1>4, <1>12, <2>1, <2>2, <4>1
    <3>8. OnTheWay(r, q)' = OnTheWay(r, q) \ {n}
      BY <1>9, <1>13, <3>7 DEF OnTheWay
    <3>9. QED
      BY <2>1, <3>2, <3>5, <3>6, <3>7, <3>8
  <2>3. CASE ~(r = v /\ q = u)
    <3>1. \A m \in Due(r, q) : Past(q, r, m)' <=> Past(q, r, m)
      BY <1>10, <1>11, <2>3
    <3>2. OnTheWay(r, q)' = OnTheWay(r, q)
      BY <1>9, <1>13, <3>1 DEF OnTheWay
    <3>3. chan'[<<r, q>>] = chan[<<r, q>>]
      BY <1>1, <1>5, <2>3 DEF LoopTyped
    <3>4. QED
      BY <2>1, <3>1, <3>2, <3>3
  <2>4. QED
    BY <2>2, <2>3
<1>15. QED
  BY <1>7, <1>8, <1>14 DEF LoopInv

\* A new loop begins where nothing was posted, and the former one is past.
LEMMA LoopInvEndLoop ==
  ASSUME LoopInv, NEW u \in Ranks, EndLoop(u)
  PROVE  LoopInv'
<1>1. LoopTyped /\ Positions /\ InTransit
  BY DEF LoopInv
<1>2. /\ pass[u] \in Nat /\ Len(plan) \in Nat /\ pass[u] < Len(plan) /\ left[u] = {}
      /\ ~posted[u] /\ ~second[u]
  BY <1>1 DEF EndLoop, Positions, LoopTyped, WellFormed
<1>3. PICK n : n = IF Twice(u) THEN pass[u] + 2 ELSE pass[u] + 1
  OBVIOUS
<1>4. /\ plan' = plan /\ posted' = posted /\ chan' = chan /\ second' = second
      /\ pass' = [pass EXCEPT ![u] = n]
      /\ left' = [left EXCEPT ![u] = Begins(plan, n, u)]
  BY <1>1, <1>3 DEF EndLoop, LoopTyped
<1>5. n \in Nat /\ n <= Len(plan) /\ (n < Len(plan) => plan[n + 1].part # "second")
  <2>1. CASE Twice(u)
    <3>1. pass[u] + 1 \in 1 .. Len(plan) /\ plan[pass[u] + 1].part = "first"
      BY <1>2, <2>1 DEF Twice
    <3>2. pass[u] + 1 < Len(plan) /\ plan[pass[u] + 2].part = "second"
      BY <1>1, <1>2, <3>1 DEF LoopTyped, WellFormed
    <3>3. ASSUME pass[u] + 2 < Len(plan), plan[pass[u] + 3].part = "second" PROVE FALSE
      <4>1. pass[u] + 3 \in 1 .. Len(plan) /\ (pass[u] + 3) - 1 = pass[u] + 2
        BY <1>2, <3>3
      <4>2. plan[pass[u] + 2].part = "first"
        BY <1>1, <3>3, <4>1 DEF LoopTyped, WellFormed
      <4>3. QED
        BY <3>2, <4>2
    <3>4. n = pass[u] + 2 /\ n + 1 = pass[u] + 3
      BY <1>2, <1>3, <2>1
    <3>5. QED
      BY <1>2, <3>2, <3>3, <3>4
  <2>2. CASE ~Twice(u)
    <3>1. ASSUME pass[u] + 1 < Len(plan), plan[pass[u] + 2].part = "second" PROVE FALSE
      <4>1. pass[u] + 2 \in 1 .. Len(plan) /\ (pass[u] + 2) - 1 = pass[u] + 1
        BY <1>2, <3>1
      <4>2. plan[pass[u] + 1].part = "first"
        BY <1>1, <3>1, <4>1 DEF LoopTyped, WellFormed
      <4>3. QED
        BY <2>2, <4>2 DEF Twice
    <3>2. n = pass[u] + 1 /\ n + 1 = pass[u] + 2
      BY <1>2, <1>3, <2>2
    <3>3. QED
      BY <1>2, <3>1, <3>2
  <2>3. QED
    BY <2>1, <2>2
<1>6. /\ n < Len(plan) => left'[u] = plan[n + 1].with[u] /\ left'[u] \subseteq Ranks
      /\ ~(n < Len(plan)) => left'[u] = {}
  <2>1. left'[u] = Begins(plan, n, u)
    BY <1>1, <1>4 DEF LoopTyped
  <2>2. CASE n < Len(plan)
    <3>1. plan \in Seq([with : [Ranks -> SUBSET Ranks], part : Parts])
      BY <1>1 DEF LoopTyped, WellFormed
    <3>2. n + 1 \in 1 .. Len(plan)
      BY <1>2, <1>5, <2>2
    <3>3. plan[n + 1] \in [with : [Ranks -> SUBSET Ranks], part : Parts]
      BY <3>1, <3>2, ElementOfSeq
    <3>4. plan[n + 1].with \in [Ranks -> SUBSET Ranks]
      BY <3>3
    <3>5. QED
      BY <2>1, <2>2, <3>4 DEF Begins
  <2>3. CASE ~(n < Len(plan))
    BY <2>1, <2>3 DEF Begins
  <2>4. QED
    BY <2>2, <2>3
<1>7. LoopTyped'
  <2>1. Begins(plan, n, u) \in SUBSET Ranks
    BY <1>1, <1>4, <1>6 DEF LoopTyped
  <2>2. QED
    BY <1>1, <1>4, <1>5, <2>1 DEF LoopTyped
<1>8. Positions'
  <2> SUFFICES ASSUME NEW r \in Ranks
               PROVE  /\ pass'[r] <= Len(plan)
                      /\ left'[r] # {} => pass'[r] < Len(plan)
                      /\ pass'[r] < Len(plan) =>
                           /\ plan[pass'[r] + 1].part # "second"
                           /\ left'[r] \subseteq plan[pass'[r] + 1].with[r]
                      /\ posted[r] => left'[r] # {}
                      /\ second[r] => left'[r] # {} /\ Twice(r)'
    BY <1>4 DEF Positions
  <2>1. CASE r = u
    <3>1. pass'[u] = n
      BY <1>1, <1>4 DEF LoopTyped
    <3>2. QED
      BY <1>2, <1>5, <1>6, <2>1, <3>1
  <2>2. CASE r # u
    <3>1. pass'[r] = pass[r] /\ left'[r] = left[r] /\ (Twice(r)' <=> Twice(r))
      BY <1>1, <1>4, <2>2 DEF LoopTyped, Twice
    <3>2. QED
      BY <1>1, <3>1 DEF Positions
  <2>3. QED
    BY <2>1, <2>2
<1>9. \A r, q : Due(r, q)' = Due(r, q)
  BY <1>4 DEF Due
<1>10. ASSUME NEW q \in Ranks, NEW m \in Due(u, q)
       PROVE  (Past(u, q, m) <=> m < n) /\ (Past(u, q, m)' <=> m < n)
  <2>1. m \in Nat /\ m + 1 \in 1 .. Len(plan) /\ q \in plan[m + 1].with[u]
    BY <1>2 DEF Due
  <2>2. Past(u, q, m) <=> m < n
    BY <1>2, <1>3, <2>1 DEF Past, InLoop
  <2>3. pass'[u] = n /\ ~second'[u]
    BY <1>1, <1>2, <1>4 DEF LoopTyped
  <2>4. ASSUME InLoop(u, m)' PROVE q \in left'[u]
    <3>1. CASE m = n
      BY <1>2, <1>6, <2>1, <3>1
    <3>2. CASE m = n + 1 /\ Twice(u)'
      <4>1. n + 1 \in 1 .. Len(plan) /\ n < Len(plan) /\ plan[n + 1].part = "first"
        BY <1>2, <1>4, <1>5, <2>1, <2>3, <3>2 DEF Twice
      <4>2. plan[m + 1].with = plan[n + 1].with
        BY <1>1, <3>2, <4>1 DEF LoopTyped, WellFormed
      <4>3. QED
        BY <1>6, <2>1, <4>1, <4>2
    <3>3. QED
      BY <2>3, <2>4, <3>1, <3>2 DEF InLoop
  <2>5. Past(u, q, m)' <=> m < n
    BY <2>3, <2>4 DEF Past
  <2>6. QED
    BY <2>2, <2>5
<1>11. ASSUME NEW r \in Ranks, NEW q \in Ranks, NEW m \in Due(r, q)
       PROVE  (Past(r, q, m)' <=> Past(r, q, m)) /\ (Sent(r, q, m)' <=> Sent(r, q, m))
  <2>1. CASE r = u
    <3>1. Past(r, q, m)' <=> Past(r, q, m)
      BY <1>10, <2>1
    <3>2. QED
      BY <1>2, <1>4, <2>1, <3>1 DEF Sent
  <2>2. CASE r # u
    <3>1. left'[r] = left[r] /\ pass'[r] = pass[r]
      BY <1>1, <1>4, <2>2 DEF LoopTyped
    <3>2. (Past(r, q, m)' <=> Past(r, q, m)) /\ Partner(r)' = Partner(r) /\ Stamp(r)' = Stamp(r)
      BY <1>4, <3>1 DEF Past, InLoop, Twice, Partner, Stamp
    <3>3. QED
      BY <1>4, <3>2 DEF Sent
  <2>3. QED
    BY <2>1, <2>2
<1>12. InTransit'
  <2> SUFFICES ASSUME NEW r \in Ranks, NEW q \in Ranks
               PROVE  /\ Holds(chan[<<r, q>>], OnTheWay(r, q)')
                      /\ \A m \in Due(r, q) : Past(q, r, m)' => Sent(r, q, m)'
    BY <1>4, <1>9 DEF InTransit, Holds
  <2>1. Due(r, q) = Due(q, r)
    BY <1>1, DueIsSymmetric
  <2>2. \A m \in Due(r, q) : /\ Past(q, r, m)' <=> Past(q, r, m)
                             /\ Sent(r, q, m)' <=> Sent(r, q, m)
    BY <1>11, <2>1
  <2>3. OnTheWay(r, q)' = OnTheWay(r, q)
    BY <1>9, <2>2 DEF OnTheWay
  <2>4. QED
    BY <1>1, <2>2, <2>3 DEF InTransit
<1>13. QED
  BY <1>7, <1>8, <1>12 DEF LoopInv

THEOREM LoopInvInductive == LoopSpec => []LoopInv
<1>1. LoopInv /\ [LoopNext]_loopVars => LoopInv'
  <2> SUFFICES ASSUME LoopInv, [LoopNext]_loopVars PROVE LoopInv'
    OBVIOUS
  <2>1. CASE Decide
    BY <2>1, LoopInvDecide
  <2>2. ASSUME NEW u \in Ranks, Enter(u) PROVE LoopInv'
    BY <2>2, LoopInvEnter
  <2>3. ASSUME NEW u \in Ranks, Leave(u) PROVE LoopInv'
    BY <2>3, LoopInvLeave
  <2>4. ASSUME NEW u \in Ranks, EndLoop(u) PROVE LoopInv'
    BY <2>4, LoopInvEndLoop
  <2>5. CASE UNCHANGED loopVars
    <3>1. /\ plan' = plan /\ left' = left /\ posted' = posted /\ chan' = chan
          /\ pass' = pass /\ second' = second
      BY <2>5 DEF loopVars
    <3>2. LoopTyped' /\ Positions'
      BY <3>1 DEF LoopInv, LoopTyped, Positions, Twice
    <3>3. /\ \A r, q : Due(r, q)' = Due(r, q)
          /\ \A r, q, m : (Past(r, q, m)' <=> Past(r, q, m)) /\ (Sent(r, q, m)' <=> Sent(r, q, m))
      BY <3>1 DEF Due, Sent, Past, InLoop, Twice, Partner, Stamp
    <3>4. \A r, q : OnTheWay(r, q)' = OnTheWay(r, q)
      BY <3>3 DEF OnTheWay
    <3>5. InTransit'
      BY <3>1, <3>3, <3>4 DEF LoopInv, InTransit, Holds
    <3>6. QED
      BY <3>2, <3>5 DEF LoopInv
  <2>6. QED
    BY <2>1, <2>2, <2>3, <2>4, <2>5 DEF LoopNext
<1>2. QED
  BY <1>1, LoopInvInit, PTL DEF LoopSpec

\* No rank takes a message for another: all carry the same tag in the code, and what
\* makes them match is the order in which both ends visit their partners.
THEOREM MessagesPaired == LoopSpec => []Paired
<1>1. LoopInv => Paired
  <2> SUFFICES ASSUME LoopInv, NEW r \in Ranks, Arrived(r)
               PROVE  Incoming(r) = Stamp(r)
    BY DEF Paired
  <2>1. LoopTyped /\ Positions /\ InTransit /\ left[r] # {}
    BY DEF LoopInv, Arrived
  <2>2. PICK q \in Ranks : q = Partner(r)
    BY <2>1, PartnerIsLeast DEF LoopTyped
  <2>3. /\ chan[<<q, r>>] # <<>> /\ chan[<<q, r>>] \in Seq(Nat)
        /\ Holds(chan[<<q, r>>], OnTheWay(q, r))
    BY <2>1, <2>2 DEF Arrived, LoopTyped, InTransit
  <2>4. Stamp(r) \in OnTheWay(q, r) /\ \A m \in OnTheWay(q, r) : Stamp(r) <= m
    BY <2>1, <2>2, <2>3, NextMessage
  <2>5. Head(chan[<<q, r>>]) = Stamp(r)
    BY <2>3, <2>4, HoldsTail
  <2>6. QED
    BY <2>2, <2>5 DEF Incoming
<1>2. QED
  BY <1>1, LoopInvInductive, PTL

\* A rank of the earliest loop that waits for v, with v waiting too: v is in that loop, is
\* yet to come to it, and waits for a lesser rank.
LEMMA WaitsForLesser ==
  ASSUME LoopInv, NEW u \in Ranks,
         \A r \in Ranks : pass[r] < Len(plan) =>
           pass[u] <= pass[r] /\ left[r] # {} /\ posted[r] /\ ~Arrived(r),
         pass[u] < Len(plan)
  PROVE  \E v \in Ranks : /\ pass[v] = pass[u] /\ left[v] # {}
                          /\ Partner(v) \in Ranks /\ Partner(v) < u
                          /\ v = Partner(u)
<1>1. LoopTyped /\ Positions /\ InTransit
  BY DEF LoopInv
<1>2. left[u] # {} /\ posted[u] /\ ~Arrived(u)
  BY <1>1
<1>3. PICK v \in Ranks : v = Partner(u)
  BY <1>1, <1>2, PartnerIsLeast DEF LoopTyped
<1>4. PICK p \in Nat : p = pass[u]
  BY <1>1 DEF LoopTyped
<1>5. PICK n \in Nat : n = Stamp(u)
  BY <1>1 DEF LoopTyped, Stamp
<1>6. /\ Len(plan) \in Nat /\ pass[v] \in Nat
      /\ plan[p + 1].part # "second"
      /\ second[u] => n = p + 1 /\ Twice(u)
      /\ ~second[u] => n = p
  BY <1>1, <1>2, <1>4, <1>5 DEF LoopTyped, WellFormed, Positions, Stamp
<1>7. n \in Due(v, u) /\ ~Past(u, v, n) /\ n < Len(plan) /\ Due(u, v) = Due(v, u)
  <2>1. n \in Due(u, v) /\ (Past(u, v, n) <=> n < n)
    BY <1>1, <1>2, <1>3, <1>5, CurrentExchange
  <2>2. n < Len(plan)
    BY <1>6, <2>1 DEF Due
  <2>3. Due(u, v) = Due(v, u)
    BY <1>1, DueIsSymmetric
  <2>4. QED
    BY <2>1, <2>2, <2>3
\* Nothing is on the way to u from v, which has thus not sent what u waits for.
<1>8. ~Sent(v, u, n)
  <2>1. Holds(chan[<<v, u>>], OnTheWay(v, u)) /\ chan[<<v, u>>] = <<>>
    BY <1>1, <1>2, <1>3 DEF InTransit, Arrived
  <2>2. n \notin OnTheWay(v, u)
    BY <2>1 DEF Holds
  <2>3. QED
    BY <1>7, <2>2 DEF OnTheWay
<1>9. ~Past(v, u, n) /\ ~(posted[v] /\ u = Partner(v) /\ n = Stamp(v))
  BY <1>8 DEF Sent
<1>10. pass[v] = p
  <2>1. pass[v] <= n /\ p <= pass[v] /\ plan[pass[v] + 1].part # "second"
    BY <1>1, <1>4, <1>6, <1>7, <1>9 DEF Past, Positions
  <2>2. CASE n = p
    BY <1>6, <2>1, <2>2
  <2>3. CASE n = p + 1 /\ Twice(u)
    <3>1. p + 1 \in 1 .. Len(plan) /\ plan[p + 1].part = "first"
      BY <1>4, <1>6, <1>7, <2>3 DEF Twice
    <3>2. plan[p + 2].part = "second"
      BY <1>1, <3>1 DEF LoopTyped, WellFormed
    <3>3. pass[v] # p + 1
      BY <2>1, <3>2
    <3>4. QED
      BY <1>6, <2>1, <2>3, <3>3
  <2>4. QED
    BY <1>6, <2>2, <2>3
<1>11. u \in left[v]
  <2>1. InLoop(v, n)
    BY <1>4, <1>6, <1>10 DEF InLoop, Twice
  <2>2. QED
    BY <1>9, <2>1 DEF Past
<1>12. posted[v] /\ ~Arrived(v)
  BY <1>4, <1>10
<1>13. Partner(v) \in Ranks /\ Partner(v) <= u
  BY <1>1, <1>11, PartnerIsLeast DEF LoopTyped
<1>14. ASSUME Partner(v) = u PROVE FALSE
  <2>1. Stamp(v) # n
    BY <1>9, <1>12, <1>14
  <2>2. CASE second[v]
    <3>1. n = p
      BY <1>6, <1>10, <2>1, <2>2 DEF Stamp
    <3>2. QED
      BY <1>9, <1>10, <1>14, <2>2, <3>1 DEF Past
  <2>3. CASE ~second[v]
    <3>1. second[u] /\ Twice(u)
      BY <1>6, <1>10, <2>1, <2>3 DEF Stamp
    <3>2. Sent(u, v, p) /\ ~Past(v, u, p)
      BY <1>3, <1>4, <1>6, <1>10, <1>11, <2>3, <3>1 DEF Sent, Past
    <3>3. p \in Due(u, v)
      <4>1. v \in left[u]
        BY <1>1, <1>2, <1>3, PartnerIsLeast DEF LoopTyped
      <4>2. v \in plan[p + 1].with[u] /\ p < Len(plan)
        BY <1>1, <1>4, <4>1 DEF Positions
      <4>3. QED
        BY <1>6, <4>2 DEF Due
    <3>4. Holds(chan[<<u, v>>], OnTheWay(u, v)) /\ chan[<<u, v>>] = <<>>
      BY <1>1, <1>11, <1>12, <1>14 DEF InTransit, Arrived
    <3>5. p \notin OnTheWay(u, v)
      BY <3>4 DEF Holds
    <3>6. QED
      BY <3>2, <3>3, <3>5 DEF OnTheWay
  <2>4. QED
    BY <2>2, <2>3
<1>15. Partner(v) < u
  BY <1>13, <1>14, RanksAssumption
<1>16. QED
  BY <1>3, <1>4, <1>10, <1>11, <1>13, <1>15

\* The loops never end in a cycle of ranks that wait for each other, however many ranks
\* and partners there are: the order of the visits is enough, with no other synchronisation.
THEOREM RanksNeverStuck == LoopSpec => []NeverStuck
<1>1. LoopInv => NeverStuck
  <2> SUFFICES ASSUME LoopInv,
                      NEW r0 \in Ranks, pass[r0] < Len(plan),
                      \A r \in Ranks : pass[r] < Len(plan) =>
                        left[r] # {} /\ posted[r] /\ ~Arrived(r)
               PROVE  FALSE
    BY DEF NeverStuck
  <2>1. pass \in [Ranks -> Nat] /\ Len(plan) \in Nat
    BY DEF LoopInv, LoopTyped, WellFormed
  <2> DEFINE S == {pass[r] : r \in {s \in Ranks : pass[s] < Len(plan)}}
  <2>2. PICK p \in S : \A k \in S : p <= k
    <3>1. S \subseteq Nat /\ S # {}
      BY <2>1
    <3>2. QED
      BY <3>1, LeastExists
  <2>3. p < Len(plan) /\ \A r \in Ranks : pass[r] < Len(plan) => p <= pass[r]
    BY <2>2
  <2> DEFINE U == {r \in Ranks : pass[r] = p}
  <2>4. PICK u \in U : \A w \in U : u <= w
    <3>1. U \subseteq Nat /\ U # {}
      BY <2>2, RanksAssumption
    <3>2. QED
      BY <3>1, LeastExists
  <2> DEFINE Least(r) == /\ \A s \in Ranks : pass[s] < Len(plan) =>
                              pass[r] <= pass[s] /\ left[s] # {} /\ posted[s] /\ ~Arrived(s)
                         /\ pass[r] < Len(plan)
  <2>5. \A r \in Ranks : pass[r] = p => Least(r)
    BY <2>3
  <2>6. ASSUME NEW r \in Ranks, pass[r] = p
        PROVE  \E v \in Ranks : /\ pass[v] = p /\ left[v] # {}
                               /\ Partner(v) \in Ranks /\ Partner(v) < r
                               /\ v = Partner(r)
    <3>1. Least(r)
      BY <2>5, <2>6
    <3>2. QED
      BY <2>6, <3>1, WaitsForLesser, Zenon
  <2>7. PICK v \in Ranks : pass[v] = p /\ Partner(v) \in Ranks /\ Partner(v) < u
    BY <2>4, <2>6
  <2>8. PICK x \in Ranks : pass[x] = p /\ x = Partner(v)
    BY <2>7, <2>6
  <2>9. u <= x /\ x < u
    BY <2>4, <2>7, <2>8
  <2>10. QED
    BY <2>4, <2>8, <2>9, RanksAssumption
<1>2. QED
  BY <1>1, LoopInvInductive, PTL
===============================================================================
