----------------------------- MODULE LocatorProofs -----------------------------
(***************************************************************************)
(* The locator runs a program of loops over partners, for any ranks, any   *)
(* points, elements, tolerances and calls: each collective operation       *)
(* decides on loops whose relation between ranks is symmetric, whatever    *)
(* each rank computes of it.  What LoopProgramProofs shows of such a       *)
(* program then holds for the locator.                                     *)
(***************************************************************************)
EXTENDS Locator, SequenceTheorems, FiniteSetTheorems, FunctionTheorems, TLAPS

Theory == INSTANCE LoopProgramProofs WITH plan <- Relations, chan <- Stamps

\* An entry of the plan, and a plan whose loops are complete.
Phases == {"transfer", "search", "counts", "points", "exchange"}
Single == {"transfer", "counts", "points"}
Entries == [with : [Ranks -> SUBSET Ranks], phase : Phases, part : Loop!Parts, call : Nat]

\* The second exchange of the visits of a loop.
Follows(e, f) == /\ f.part = "second" /\ f.with = e.with
                 /\ f.phase = e.phase /\ f.call = e.call

PlanOK(p) ==
  /\ p \in Seq(Entries)
  /\ \A k \in 1 .. Len(p) :
       /\ Loop!Symmetric(p[k].with)
       /\ p[k].part = "first" => k < Len(p) /\ Follows(p[k], p[k + 1])
       /\ p[k].part = "second" => k > 1 /\ p[k - 1].part = "first"
       /\ p[k].part = "only" <=> p[k].phase \in Single

Positioned == pass \in [Ranks -> Nat] /\ left \in [Ranks -> SUBSET Ranks]

Related == partners \in [Ranks -> SUBSET Ranks] /\ Loop!Symmetric(partners)

Transit == /\ chan = [p \in Ranks \X Ranks |-> chan[p]]
           /\ \A p \in Ranks \X Ranks : \E S : chan[p] \in Seq(S)

LocatorInv ==
  setup \in Setups /\ PlanOK(plan) /\ Positioned /\ Related /\ Transit

-------------------------------------------------------------------------------
\* Loops that follow those already decided.
LEMMA PlanAppend ==
  ASSUME NEW p, PlanOK(p), NEW s, PlanOK(s)
  PROVE  /\ PlanOK(p \o s)
         /\ Len(p \o s) \in Nat /\ Len(p) \in Nat /\ Len(p) <= Len(p \o s)
         /\ \A k \in 1 .. Len(p) : (p \o s)[k] = p[k]
<1> DEFINE t == p \o s
<1>1. p \in Seq(Entries) /\ s \in Seq(Entries)
  BY DEF PlanOK
<1>2. /\ Len(p) \in Nat /\ Len(s) \in Nat /\ Len(t) = Len(p) + Len(s)
      /\ \A k \in 1 .. Len(p) : t[k] = p[k]
      /\ \A k \in 1 .. Len(s) : t[Len(p) + k] = s[k]
  <2>1. /\ Len(t) = Len(p) + Len(s)
        /\ \A i \in 1 .. Len(p) + Len(s) : t[i] = IF i <= Len(p) THEN p[i]
                                                 ELSE s[i - Len(p)]
    BY <1>1, ConcatProperties
  <2>2. Len(p) \in Nat /\ Len(s) \in Nat
    BY <1>1
  <2> HIDE DEF t
  <2>3. \A k \in 1 .. Len(p) : t[k] = p[k]
    BY <2>1, <2>2
  <2>4. ASSUME NEW k \in 1 .. Len(s) PROVE t[Len(p) + k] = s[k]
    <3>1. /\ Len(p) + k \in 1 .. Len(p) + Len(s) /\ ~(Len(p) + k <= Len(p))
          /\ (Len(p) + k) - Len(p) = k
      BY <2>2
    <3>2. QED
      BY <2>1, <3>1
  <2>5. QED
    BY <2>1, <2>2, <2>3, <2>4
<1>3. t \in Seq(Entries)
  BY <1>1
<1> HIDE DEF t
<1>4. ASSUME NEW k \in 1 .. Len(t)
      PROVE  /\ Loop!Symmetric(t[k].with)
             /\ t[k].part = "first" => k < Len(t) /\ Follows(t[k], t[k + 1])
             /\ t[k].part = "second" => k > 1 /\ t[k - 1].part = "first"
             /\ t[k].part = "only" <=> t[k].phase \in Single
  <2>1. CASE k <= Len(p)
    <3>1. k \in 1 .. Len(p) /\ t[k] = p[k]
      BY <1>2, <2>1
    <3>2. k + 1 \in 1 .. Len(p) => t[k + 1] = p[k + 1]
      BY <1>2
    <3>3. k - 1 \in 1 .. Len(p) => t[k - 1] = p[k - 1]
      BY <1>2
    <3>4. QED
      BY <1>2, <3>1, <3>2, <3>3 DEF PlanOK
  <2>2. CASE k > Len(p)
    <3>1. PICK j \in 1 .. Len(s) : k = Len(p) + j
      <4>1. k - Len(p) \in 1 .. Len(s) /\ k = Len(p) + (k - Len(p))
        BY <1>2, <2>2
      <4>2. QED
        BY <4>1
    <3>2. t[k] = s[j]
      BY <1>2, <3>1
    <3>3. j + 1 \in 1 .. Len(s) => t[k + 1] = s[j + 1]
      <4>1. k + 1 = Len(p) + (j + 1)
        BY <1>2, <3>1
      <4>2. QED
        BY <1>2, <4>1
    <3>4. j - 1 \in 1 .. Len(s) => t[k - 1] = s[j - 1]
      <4>1. k - 1 = Len(p) + (j - 1)
        BY <1>2, <3>1
      <4>2. QED
        BY <1>2, <4>1
    <3>5. /\ Loop!Symmetric(s[j].with)
          /\ s[j].part = "first" => j < Len(s) /\ Follows(s[j], s[j + 1])
          /\ s[j].part = "second" => j > 1 /\ s[j - 1].part = "first"
          /\ s[j].part = "only" <=> s[j].phase \in Single
      BY DEF PlanOK
    <3>6. /\ j < Len(s) => j + 1 \in 1 .. Len(s) /\ k < Len(t)
          /\ j > 1 => j - 1 \in 1 .. Len(s) /\ k > 1
      BY <1>2, <3>1
    <3>7. QED
      BY <3>2, <3>3, <3>4, <3>5, <3>6
  <2>3. QED
    BY <1>2, <2>1, <2>2
<1>5. QED
  BY <1>2, <1>3, <1>4 DEF PlanOK, t

\* What such a plan says of the program of loops.
Rels(p) == [k \in 1 .. Len(p) |-> [with |-> p[k].with, part |-> p[k].part]]

LEMMA PlanRelations ==
  ASSUME NEW p, PlanOK(p)
  PROVE  /\ Loop!WellFormed(Rels(p))
         /\ Len(Rels(p)) = Len(p) /\ Len(p) \in Nat
         /\ \A k \in 1 .. Len(p) : /\ Rels(p)[k] = [with |-> p[k].with, part |-> p[k].part]
                                   /\ Rels(p)[k].with = p[k].with
                                   /\ Rels(p)[k].part = p[k].part
                                   /\ p[k].with \in [Ranks -> SUBSET Ranks]
<1>1. p \in Seq(Entries) /\ Len(p) \in Nat
  BY DEF PlanOK
<1>2. \A k \in 1 .. Len(p) : p[k] \in Entries
  BY <1>1
<1>3. \A k \in 1 .. Len(p) : [with |-> p[k].with, part |-> p[k].part]
                               \in [with : [Ranks -> SUBSET Ranks], part : Loop!Parts]
  BY <1>2 DEF Entries
<1>4. /\ Rels(p) \in Seq([with : [Ranks -> SUBSET Ranks], part : Loop!Parts])
      /\ Len(Rels(p)) = Len(p)
      /\ \A k \in 1 .. Len(p) : Rels(p)[k] = [with |-> p[k].with, part |-> p[k].part]
  BY <1>1, <1>3 DEF Rels
<1>5. ASSUME NEW k \in 1 .. Len(p)
      PROVE  Rels(p)[k].with = p[k].with /\ Rels(p)[k].part = p[k].part
  <2>1. Rels(p)[k] = [with |-> p[k].with, part |-> p[k].part]
    BY <1>4
  <2>2. [with |-> p[k].with, part |-> p[k].part].with = p[k].with
    OBVIOUS
  <2>3. [with |-> p[k].with, part |-> p[k].part].part = p[k].part
    OBVIOUS
  <2>4. QED
    BY <2>1, <2>2, <2>3, Zenon
<1>6. ASSUME NEW k \in 1 .. Len(p)
      PROVE  /\ Loop!Symmetric(Rels(p)[k].with)
             /\ Rels(p)[k].part = "first"
                  => /\ k < Len(p) /\ Rels(p)[k + 1].part = "second"
                     /\ Rels(p)[k + 1].with = Rels(p)[k].with
             /\ Rels(p)[k].part = "second" => k > 1 /\ Rels(p)[k - 1].part = "first"
  <2>1. /\ k < Len(p) => k + 1 \in 1 .. Len(p)
        /\ k > 1 => k - 1 \in 1 .. Len(p)
    BY <1>1
  <2>2. k < Len(p) => /\ Rels(p)[k + 1].with = p[k + 1].with
                      /\ Rels(p)[k + 1].part = p[k + 1].part
    BY <2>1, <1>5
  <2>3. k > 1 => Rels(p)[k - 1].part = p[k - 1].part
    BY <2>1, <1>5
  <2>4. QED
    BY <1>5, <2>2, <2>3 DEF PlanOK, Follows
<1>7. \A k \in 1 .. Len(p) : p[k].with \in [Ranks -> SUBSET Ranks]
  BY <1>2 DEF Entries
<1>8. QED
  BY <1>1, <1>4, <1>5, <1>6, <1>7 DEF Loop!WellFormed

LEMMA EntryType ==
  ASSUME NEW w \in [Ranks -> SUBSET Ranks], NEW ph \in Phases, NEW part \in Loop!Parts,
         NEW c \in Nat
  PROVE  /\ Entry(w, ph, part, c) \in Entries
         /\ Entry(w, ph, part, c).with = w
         /\ Entry(w, ph, part, c).part = part
         /\ Entry(w, ph, part, c).phase = ph
         /\ Entry(w, ph, part, c).call = c
  BY DEF Entry, Entries

\* The loops that the collective operations decide on.
LEMMA OncePlan ==
  ASSUME NEW w \in [Ranks -> SUBSET Ranks], Loop!Symmetric(w), NEW ph \in Single
  PROVE  PlanOK(Once(w, ph)) /\ Len(Once(w, ph)) = 1
         /\ Once(w, ph)[1] = Entry(w, ph, "only", 0)
<1> DEFINE o == Once(w, ph)
<1>1. /\ Entry(w, ph, "only", 0) \in Entries
      /\ Entry(w, ph, "only", 0).with = w /\ Entry(w, ph, "only", 0).part = "only"
      /\ Entry(w, ph, "only", 0).phase = ph
  <2>1. ph \in Phases /\ "only" \in Loop!Parts /\ 0 \in Nat
    BY DEF Single, Phases, Loop!Parts
  <2>2. QED
    BY <2>1, EntryType
<1>2. o \in Seq(Entries) /\ Len(o) = 1 /\ o[1] = Entry(w, ph, "only", 0)
  BY <1>1 DEF Once
<1> HIDE DEF o
<1>3. PlanOK(o)
  BY <1>1, <1>2 DEF PlanOK
<1>4. QED
  BY <1>2, <1>3 DEF o

LEMMA BothPlan ==
  ASSUME NEW w \in [Ranks -> SUBSET Ranks], Loop!Symmetric(w)
  PROVE  /\ PlanOK(Both(w, "search")) /\ Len(Both(w, "search")) = 2
         /\ Both(w, "search")[1] = Entry(w, "search", "first", 0)
         /\ Both(w, "search")[2] = Entry(w, "search", "second", 0)
<1> DEFINE b == Both(w, "search")
<1>1. /\ "search" \in Phases /\ "search" \notin Single
      /\ "first" \in Loop!Parts /\ "second" \in Loop!Parts /\ 0 \in Nat
  BY DEF Single, Phases, Loop!Parts
<1>2. \A part \in Loop!Parts :
        LET e == Entry(w, "search", part, 0)
        IN  e \in Entries /\ e.with = w /\ e.part = part /\ e.phase = "search" /\ e.call = 0
  BY <1>1, EntryType
<1>3. /\ b \in Seq(Entries) /\ Len(b) = 2
      /\ b[1] = Entry(w, "search", "first", 0) /\ b[2] = Entry(w, "search", "second", 0)
  BY <1>1, <1>2 DEF Both
<1> HIDE DEF b
<1>4. /\ b[1].with = w /\ b[1].part = "first" /\ b[1].phase = "search" /\ b[1].call = 0
      /\ b[2].with = w /\ b[2].part = "second" /\ b[2].phase = "search" /\ b[2].call = 0
  BY <1>1, <1>2, <1>3
<1>5. \A k \in 1 .. 2 : (k = 1 /\ k + 1 = 2) \/ (k = 2 /\ k - 1 = 1)
  OBVIOUS
<1>6. PlanOK(b)
  BY <1>1, <1>3, <1>4, <1>5 DEF PlanOK, Follows
<1>7. QED
  BY <1>3, <1>6 DEF b

LEMMA NoPlan == PlanOK(<<>>)
  BY DEF PlanOK

LEMMA ExchangesPlan ==
  ASSUME setup \in Setups, NEW w \in [Ranks -> SUBSET Ranks], Loop!Symmetric(w)
  PROVE  /\ PlanOK(Exchanges(w))
         /\ \A k \in 1 .. Len(Exchanges(w)) : /\ Exchanges(w)[k].phase = "exchange"
                                              /\ Exchanges(w)[k].with = w
<1> DEFINE e == Exchanges(w)
           n == 2 * Len(setup.calls)
           part(k) == IF k % 2 = 1 THEN "first" ELSE "second"
<1>1. Len(setup.calls) \in Nat /\ n \in Nat
  BY SetupAssumption
<1> HIDE DEF n
<1>2. ASSUME NEW k \in 1 .. n
      PROVE  /\ Entry(w, "exchange", part(k), (k + 1) \div 2) \in Entries
             /\ Entry(w, "exchange", part(k), (k + 1) \div 2).with = w
             /\ Entry(w, "exchange", part(k), (k + 1) \div 2).part = part(k)
             /\ Entry(w, "exchange", part(k), (k + 1) \div 2).phase = "exchange"
             /\ Entry(w, "exchange", part(k), (k + 1) \div 2).call = (k + 1) \div 2
  <2>1. (k + 1) \div 2 \in Nat
    BY <1>1
  <2>2. part(k) \in Loop!Parts
    BY DEF Loop!Parts
  <2>3. "exchange" \in Phases
    BY DEF Phases
  <2> HIDE DEF part
  <2>4. QED
    BY <2>1, <2>2, <2>3, EntryType
<1>3. /\ e \in Seq(Entries) /\ Len(e) = n
      /\ \A k \in 1 .. n : e[k] = Entry(w, "exchange", part(k), (k + 1) \div 2)
  BY <1>1, <1>2 DEF Exchanges, n
<1>4. \A k \in 1 .. n : /\ e[k].with = w /\ e[k].part = part(k)
                        /\ e[k].phase = "exchange" /\ e[k].call = (k + 1) \div 2
  BY <1>2, <1>3
<1> HIDE DEF e
<1>5. ASSUME NEW k \in 1 .. n
      PROVE  /\ part(k) = "first" => /\ k + 1 \in 1 .. n /\ part(k + 1) = "second"
                                     /\ ((k + 1) + 1) \div 2 = (k + 1) \div 2
             /\ part(k) = "second" => k - 1 \in 1 .. n /\ part(k - 1) = "first"
             /\ part(k) # "only" /\ "exchange" \notin Single
  BY <1>1 DEF n, Single
<1>6. ASSUME NEW k \in 1 .. n
      PROVE  /\ Loop!Symmetric(e[k].with)
             /\ e[k].part = "first" => k < n /\ Follows(e[k], e[k + 1])
             /\ e[k].part = "second" => k > 1 /\ e[k - 1].part = "first"
             /\ e[k].part = "only" <=> e[k].phase \in Single
  <2>1. e[k].with = w /\ e[k].part = part(k)
    BY <1>4
  <2>2. CASE part(k) = "first"
    <3>1. k + 1 \in 1 .. n /\ part(k + 1) = "second"
      BY <1>5, <2>2
    <3>2. Follows(e[k], e[k + 1])
      BY <1>4, <1>5, <2>2, <3>1 DEF Follows
    <3>3. k < n
      BY <1>1, <3>1
    <3>4. QED
      BY <1>4, <1>5, <2>1, <2>2, <3>2, <3>3
  <2>3. CASE part(k) = "second"
    <3>1. k - 1 \in 1 .. n /\ part(k - 1) = "first"
      BY <1>5, <2>3
    <3>2. e[k - 1].part = "first"
      BY <1>4, <3>1
    <3>3. k > 1
      BY <1>1, <3>1
    <3>4. QED
      BY <1>4, <1>5, <2>1, <2>3, <3>2, <3>3
  <2>4. QED
    BY <2>2, <2>3
<1>7. PlanOK(e)
  BY <1>3, <1>6 DEF PlanOK
<1>8. QED
  BY <1>3, <1>4, <1>7 DEF e

\* Ranks agree on who exchanges with whom: what one computes of its extents and of those
\* of the other, or of the flags of both, the other computes with the places swapped.
LEMMA IntersectsSymmetric ==
  ASSUME setup \in Setups, NEW n
  PROVE  Intersects(n) \in [Ranks -> SUBSET Ranks] /\ Loop!Symmetric(Intersects(n))
<1>1. /\ setup.far \in [Ranks -> SUBSET Ranks]
      /\ \A r, q \in Ranks : q \in setup.far[r] <=> r \in setup.far[q]
  BY SetupAssumption
<1>2. \A r, q : Intersect(r, q, n) <=> Intersect(q, r, n)
  BY DEF Intersect, Meet
<1>3. QED
  BY <1>1, <1>2 DEF Intersects, Loop!Symmetric

LEMMA LinkedSymmetric ==
  ASSUME setup \in Setups
  PROVE  LET p == [r \in Ranks |-> {q \in setup.far[r] : Linked(r, q)}]
         IN  p \in [Ranks -> SUBSET Ranks] /\ Loop!Symmetric(p)
<1>1. /\ setup.far \in [Ranks -> SUBSET Ranks]
      /\ \A r, q \in Ranks : q \in setup.far[r] <=> r \in setup.far[q]
  BY SetupAssumption
<1>2. \A r, q : Linked(r, q) <=> Linked(q, r)
  BY DEF Linked
<1>3. QED
  BY <1>1, <1>2 DEF Loop!Symmetric

\* What a collective operation does to the program of loops.
LEMMA DecideLoops ==
  ASSUME LocatorInv, NEW next, NEW loops, PlanOK(loops), Decide(next, loops)
  PROVE  /\ Loop!Decide
         /\ setup' \in Setups /\ PlanOK(plan') /\ Positioned' /\ Transit'
<1>1. /\ PlanOK(plan) /\ plan' = plan \o loops /\ \A r \in Ranks : pass[r] = Len(plan)
      /\ left' = [r \in Ranks |-> Loop!Begins(plan', pass[r], r)]
      /\ UNCHANGED <<setup, posted, chan, pass, second>>
  BY DEF LocatorInv, Decide
<1>2. /\ PlanOK(plan') /\ Len(plan) \in Nat /\ Len(plan') \in Nat /\ Len(plan) <= Len(plan')
      /\ \A k \in 1 .. Len(plan) : plan'[k] = plan[k]
  BY <1>1, PlanAppend
<1>3. Relations = Rels(plan) /\ Relations' = Rels(plan')
  BY DEF Relations, Rels
<1>4. /\ Loop!WellFormed(Relations')
      /\ Len(Relations) = Len(plan) /\ Len(Relations') = Len(plan')
      /\ \A k \in 1 .. Len(plan) : Relations[k] = [with |-> plan[k].with, part |-> plan[k].part]
      /\ \A k \in 1 .. Len(plan') :
           /\ Relations'[k] = [with |-> plan'[k].with, part |-> plan'[k].part]
           /\ Relations'[k].with = plan'[k].with
           /\ plan'[k].with \in [Ranks -> SUBSET Ranks]
  BY <1>1, <1>2, <1>3, PlanRelations
<1>5. \A k \in 1 .. Len(plan) : Relations'[k] = Relations[k]
  <2>1. ASSUME NEW k \in 1 .. Len(plan) PROVE Relations'[k] = Relations[k]
    <3>1. k \in 1 .. Len(plan') /\ plan'[k] = plan[k]
      BY <1>2
    <3>2. QED
      BY <1>4, <3>1
  <2>2. QED
    BY <2>1
<1>6. ASSUME NEW r \in Ranks
      PROVE  /\ Loop!Begins(plan', pass[r], r) = Loop!Begins(Relations', pass[r], r)
             /\ Loop!Begins(plan', pass[r], r) \in SUBSET Ranks
  <2>1. pass[r] + 1 \in 1 .. Len(plan') \/ ~(pass[r] < Len(plan'))
    BY <1>1, <1>2
  <2>2. QED
    BY <2>1, <1>4 DEF Loop!Begins
<1>7. UNCHANGED Stamps
  BY <1>1 DEF Stamps
<1>8. Loop!Decide
  BY <1>1, <1>2, <1>4, <1>5, <1>6, <1>7 DEF Loop!Decide
<1>9. Positioned' /\ Transit'
  BY <1>1, <1>6 DEF LocatorInv, Positioned, Transit
<1>10. QED
  BY <1>1, <1>2, <1>8, <1>9 DEF LocatorInv

-------------------------------------------------------------------------------
LEMMA LocatorInit == Init => LocatorInv /\ Loop!LoopInit
<1> SUFFICES ASSUME Init PROVE LocatorInv /\ Loop!LoopInit
  OBVIOUS
<1>1. setup \in Setups /\ plan = <<>> /\ pass = [r \in Ranks |-> 0]
      /\ second = [r \in Ranks |-> FALSE] /\ left = [r \in Ranks |-> {}]
      /\ posted = [r \in Ranks |-> FALSE] /\ chan = [p \in Ranks \X Ranks |-> <<>>]
      /\ partners = [r \in Ranks |-> {}]
  BY DEF Init
<1>2. Relations = <<>>
  BY <1>1 DEF Relations
<1>3. Stamps = [p \in Ranks \X Ranks |-> <<>>]
  BY <1>1 DEF Stamps
<1>4. PlanOK(plan)
  BY <1>1 DEF PlanOK
<1>5. Related
  BY <1>1 DEF Related, Loop!Symmetric
<1>6. Transit
  <2>1. <<>> \in Seq({})
    OBVIOUS
  <2>2. QED
    BY <1>1, <2>1 DEF Transit
<1>7. Positioned
  BY <1>1 DEF Positioned
<1>8. QED
  BY <1>1, <1>2, <1>3, <1>4, <1>5, <1>6, <1>7 DEF LocatorInv, Loop!LoopInit

\* The collective operations.
LEMMA CollectiveStep ==
  ASSUME LocatorInv, Flags \/ GatherExtents \/ LocationRanks \/ Located
  PROVE  LocatorInv' /\ Loop!Decide
<1>1. setup \in Setups /\ Related /\ partners \in [Ranks -> SUBSET Ranks]
      /\ Loop!Symmetric(partners)
  BY DEF LocatorInv, Related
<1>2. PlanOK(<<>>)
  BY DEF PlanOK
<1>3. CASE Flags
  <2>1. PlanOK(Once(partners, "transfer"))
    BY <1>1, OncePlan DEF Single
  <2>2. \E loops : PlanOK(loops) /\ \E next : Decide(next, loops)
    BY <1>2, <1>3, <2>1 DEF Flags
  <2>3. UNCHANGED partners
    BY <1>3 DEF Flags, lists
  <2>4. QED
    BY <1>1, <2>2, <2>3, DecideLoops DEF LocatorInv, Related
<1>4. CASE GatherExtents
  <2> DEFINE w == Intersects([r \in Ranks |-> Len(todo'[r])])
  <2>1. PlanOK(Both(w, "search"))
    BY <1>1, BothPlan, IntersectsSymmetric
  <2>2. \E next : Decide(next, Both(w, "search"))
    BY <1>4 DEF GatherExtents
  <2>3. partners' = [r \in Ranks |-> {}]
    BY <1>4 DEF GatherExtents
  <2>4. Related'
    BY <2>3 DEF Related, Loop!Symmetric
  <2>5. QED
    BY <2>1, <2>2, <2>4, DecideLoops DEF LocatorInv
<1>5. CASE LocationRanks
  <2>1. partners' = [r \in Ranks |-> {q \in setup.far[r] : Linked(r, q)}]
    BY <1>5 DEF LocationRanks
  <2>2. partners' \in [Ranks -> SUBSET Ranks] /\ Loop!Symmetric(partners')
    BY <1>1, <2>1, LinkedSymmetric
  <2>3. PlanOK(Once(partners', "counts")) /\ PlanOK(Once(partners', "points"))
    BY <2>2, OncePlan DEF Single
  <2>4. PlanOK(Once(partners', "counts") \o Once(partners', "points"))
    BY <2>3, PlanAppend
  <2>5. \E next : Decide(next, Once(partners', "counts") \o Once(partners', "points"))
    BY <1>5 DEF LocationRanks
  <2>6. Related'
    BY <2>2 DEF Related
  <2>7. QED
    BY <2>4, <2>5, <2>6, DecideLoops DEF LocatorInv
<1>6. CASE Located
  <2>1. PlanOK(Exchanges(partners))
    BY <1>1, ExchangesPlan
  <2>2. \E loops : PlanOK(loops) /\ \E next : Decide(next, loops)
    BY <1>2, <1>6, <2>1 DEF Located
  <2>3. UNCHANGED partners
    BY <1>6 DEF Located
  <2>4. QED
    BY <1>1, <2>2, <2>3, DecideLoops DEF LocatorInv, Related
<1>7. QED
  BY <1>3, <1>4, <1>5, <1>6

\* The stamps of a sequence of messages, when one is added or taken.
StampsOf(c) == [k \in 1 .. Len(c) |-> c[k].stamp]

LEMMA StampsAppend ==
  ASSUME NEW S, NEW c \in Seq(S), NEW m \in S
  PROVE  StampsOf(Append(c, m)) = Append(StampsOf(c), m.stamp)
<1> DEFINE t == [k \in 1 .. Len(c) |-> c[k].stamp]
           R == {e.stamp : e \in S}
           u == [k \in 1 .. Len(c) + 1 |-> Append(c, m)[k].stamp]
<1>1. /\ Len(c) \in Nat /\ Len(Append(c, m)) = Len(c) + 1
      /\ \A k \in 1 .. Len(c) : Append(c, m)[k] = c[k] /\ c[k] \in S
      /\ Append(c, m)[Len(c) + 1] = m
  BY AppendProperties
<1>2. t \in Seq(R) /\ Len(t) = Len(c) /\ m.stamp \in R
  BY <1>1
<1>3. /\ Append(t, m.stamp) \in Seq(R) /\ Len(Append(t, m.stamp)) = Len(c) + 1
      /\ \A k \in 1 .. Len(c) : Append(t, m.stamp)[k] = t[k]
      /\ Append(t, m.stamp)[Len(c) + 1] = m.stamp
  BY <1>2, AppendProperties
<1>4. u \in Seq(R) /\ Len(u) = Len(c) + 1
  BY <1>1
<1>5. \A k \in 1 .. Len(c) + 1 : u[k] = Append(t, m.stamp)[k]
  BY <1>1, <1>3
<1>6. Append(t, m.stamp) = u
  BY <1>3, <1>4, <1>5, SeqEqual
<1>7. QED
  BY <1>1, <1>6 DEF StampsOf

LEMMA StampsTail ==
  ASSUME NEW S, NEW c \in Seq(S), c # <<>>
  PROVE  StampsOf(c) # <<>> /\ StampsOf(Tail(c)) = Tail(StampsOf(c))
<1> DEFINE t == [k \in 1 .. Len(c) |-> c[k].stamp]
           R == {e.stamp : e \in S}
           u == [k \in 1 .. Len(c) - 1 |-> Tail(c)[k].stamp]
<1>1. /\ Len(c) \in Nat /\ Len(c) # 0 /\ Len(Tail(c)) = Len(c) - 1 /\ Len(c) - 1 \in Nat
      /\ \A k \in 1 .. Len(c) : c[k] \in S
      /\ \A k \in 1 .. Len(c) - 1 : Tail(c)[k] = c[k + 1] /\ k + 1 \in 1 .. Len(c)
  BY EmptySeq, HeadTailProperties
<1>2. t \in Seq(R) /\ Len(t) = Len(c) /\ t # <<>>
  BY <1>1
<1>3. /\ Tail(t) \in Seq(R) /\ Len(Tail(t)) = Len(c) - 1
      /\ \A k \in 1 .. Len(c) - 1 : Tail(t)[k] = t[k + 1]
  BY <1>2, HeadTailProperties
<1>4. u \in Seq(R) /\ Len(u) = Len(c) - 1
  BY <1>1
<1>5. \A k \in 1 .. Len(c) - 1 : u[k] = Tail(t)[k]
  BY <1>1, <1>3
<1>6. Tail(t) = u
  BY <1>3, <1>4, <1>5, SeqEqual
<1>7. QED
  BY <1>1, <1>2, <1>6 DEF StampsOf

\* The exchanges.
LEMMA EnterStep ==
  ASSUME LocatorInv, NEW r \in Ranks, Enter(r)
  PROVE  LocatorInv' /\ Loop!Enter(r)
<1> DEFINE m == [stamp |-> Loop!Stamp(r), data |-> Message(r, Partner(r))]
           w == <<r, Partner(r)>>
<1>1. /\ left[r] # {} /\ ~posted[r]
      /\ chan' = [chan EXCEPT ![w] = Append(@, m)]
      /\ posted' = [posted EXCEPT ![r] = TRUE]
      /\ UNCHANGED <<setup, plan, pass, second, left, partners>>
  BY DEF Enter, Post, lists
<1>2. m.stamp = Loop!Stamp(r)
  OBVIOUS
<1> HIDE DEF m
<1>3. Transit /\ DOMAIN chan = Ranks \X Ranks
  BY DEF LocatorInv, Transit
<1>4. ASSUME NEW p \in Ranks \X Ranks
      PROVE  /\ \E S : chan'[p] \in Seq(S)
             /\ Stamps'[p] = IF p = w THEN Append(Stamps[p], m.stamp) ELSE Stamps[p]
  <2>1. PICK S : chan[p] \in Seq(S)
    BY <1>3 DEF Transit
  <2>2. /\ Stamps[p] = [k \in 1 .. Len(chan[p]) |-> chan[p][k].stamp]
        /\ Stamps'[p] = [k \in 1 .. Len(chan'[p]) |-> chan'[p][k].stamp]
    BY DEF Stamps
  <2>3. CASE p = w
    <3> DEFINE T == S \cup {m}
               c == chan[p]
    <3>1. chan'[p] = Append(c, m)
      BY <1>1, <1>3, <2>3
    <3>2. c \in Seq(T)
      BY <2>1, SeqMonotonic
    <3>3. /\ Append(c, m) \in Seq(T) /\ Len(c) \in Nat
          /\ Len(Append(c, m)) = Len(c) + 1
          /\ \A k \in 1 .. Len(c) : Append(c, m)[k] = c[k]
          /\ Append(c, m)[Len(c) + 1] = m
      BY <3>2, AppendProperties
    <3>4. Stamps'[p] = Append(Stamps[p], m.stamp)
      BY <2>2, <3>1, <3>2, StampsAppend DEF StampsOf
    <3>5. QED
      BY <2>3, <3>1, <3>3, <3>4
  <2>4. CASE p # w
    <3>1. chan'[p] = chan[p]
      BY <1>1, <1>3, <2>4
    <3>2. QED
      BY <2>1, <2>2, <2>4, <3>1
  <2>5. QED
    BY <2>3, <2>4
<1>5. Stamps' = [Stamps EXCEPT ![w] = Append(@, Loop!Stamp(r))]
  <2>1. /\ Stamps = [p \in Ranks \X Ranks |-> Stamps[p]]
        /\ Stamps' = [p \in Ranks \X Ranks |-> Stamps'[p]]
    BY DEF Stamps
  <2>2. QED
    BY <1>2, <1>4, <2>1
<1>6. chan' = [p \in Ranks \X Ranks |-> chan'[p]]
  BY <1>1, <1>3 DEF Transit
<1>7. LocatorInv'
  BY <1>1, <1>4, <1>6 DEF LocatorInv, Positioned, Related, Transit
<1>8. UNCHANGED Relations
  BY <1>1 DEF Relations
<1>9. QED
  BY <1>1, <1>5, <1>7, <1>8 DEF Loop!Enter, Loop!Post, Loop!Partner, Partner

LEMMA LeaveStep ==
  ASSUME LocatorInv, NEW r \in Ranks, Leave(r)
  PROVE  LocatorInv' /\ Loop!Leave(r)
<1> DEFINE w == <<Partner(r), r>>
<1>1. /\ left[r] # {} /\ posted[r] /\ chan[w] # <<>>
      /\ chan' = [chan EXCEPT ![w] = Tail(@)]
      /\ posted' = [posted EXCEPT ![r] = FALSE]
      /\ Loop!Visit(r)
      /\ UNCHANGED <<setup, plan, pass>>
  BY DEF Leave, Take, Arrived
<1>2. UNCHANGED partners
  BY DEF Leave, Transfer, Asked, Answered, Counted, Listed, Flagged, Exchanged, lists
<1>3. Transit /\ DOMAIN chan = Ranks \X Ranks /\ left \in [Ranks -> SUBSET Ranks]
  BY DEF LocatorInv, Transit, Positioned
<1>4. w \in Ranks \X Ranks
  <2>1. Loop!Partner(r) \in left[r]
    BY <1>1, <1>3, RanksAssumption, Theory!PartnerIsLeast DEF Loop!Partner, Theory!Partner
  <2>2. QED
    BY <1>3, <2>1 DEF Loop!Partner, Partner
<1>5. ASSUME NEW p \in Ranks \X Ranks
      PROVE  /\ \E S : chan'[p] \in Seq(S)
             /\ Stamps'[p] = IF p = w THEN Tail(Stamps[p]) ELSE Stamps[p]
             /\ p = w => Stamps[p] # <<>>
  <2>1. PICK S : chan[p] \in Seq(S)
    BY <1>3 DEF Transit
  <2>2. Stamps[p] = StampsOf(chan[p]) /\ Stamps'[p] = StampsOf(chan'[p])
    BY DEF Stamps, StampsOf
  <2>3. CASE p = w
    <3>1. chan'[p] = Tail(chan[p]) /\ chan[p] # <<>>
      BY <1>1, <1>3, <2>3
    <3>2. StampsOf(chan[p]) # <<>> /\ StampsOf(Tail(chan[p])) = Tail(StampsOf(chan[p]))
      BY <2>1, <3>1, StampsTail
    <3>3. Tail(chan[p]) \in Seq(S)
      BY <2>1, <3>1, HeadTailProperties
    <3>4. QED
      BY <2>2, <2>3, <3>1, <3>2, <3>3
  <2>4. CASE p # w
    <3>1. chan'[p] = chan[p]
      BY <1>1, <1>3, <2>4
    <3>2. QED
      BY <2>1, <2>2, <2>4, <3>1
  <2>5. QED
    BY <2>3, <2>4
<1>6. Stamps' = [Stamps EXCEPT ![w] = Tail(@)] /\ Stamps[w] # <<>>
  <2>1. /\ Stamps = [p \in Ranks \X Ranks |-> Stamps[p]]
        /\ Stamps' = [p \in Ranks \X Ranks |-> Stamps'[p]]
    BY DEF Stamps
  <2>2. QED
    BY <1>4, <1>5, <2>1
<1>7. chan' = [p \in Ranks \X Ranks |-> chan'[p]]
  BY <1>1, <1>3 DEF Transit
<1>8. left' \in [Ranks -> SUBSET Ranks]
  BY <1>1, <1>3 DEF Loop!Visit
<1>9. LocatorInv'
  BY <1>1, <1>2, <1>5, <1>7, <1>8 DEF LocatorInv, Positioned, Related, Transit
<1>10. UNCHANGED Relations
  BY <1>1 DEF Relations
<1>11. QED
  BY <1>1, <1>6, <1>9, <1>10
     DEF Loop!Leave, Loop!Take, Loop!Arrived, Loop!Partner, Partner

LEMMA EndLoopStep ==
  ASSUME LocatorInv, NEW r \in Ranks, EndLoop(r)
  PROVE  LocatorInv' /\ Loop!EndLoop(r)
<1>1. Loop!EndLoop(r) /\ UNCHANGED <<setup, plan, chan, partners>>
  BY DEF EndLoop, lists
<1>2. PlanOK(plan) /\ Positioned /\ Relations = Rels(plan)
  BY DEF LocatorInv, Relations, Rels
<1>3. /\ Len(Relations) = Len(plan) /\ Len(plan) \in Nat
      /\ \A k \in 1 .. Len(plan) : Relations[k].with \in [Ranks -> SUBSET Ranks]
  BY <1>2, PlanRelations
<1>4. pass' \in [Ranks -> Nat]
  BY <1>1, <1>2 DEF Loop!EndLoop, Positioned
<1>5. Loop!Begins(Relations, pass'[r], r) \in SUBSET Ranks
  <2>1. pass'[r] \in Nat
    BY <1>4
  <2>2. pass'[r] < Len(plan) => pass'[r] + 1 \in 1 .. Len(plan)
    BY <1>3, <2>1
  <2>3. QED
    BY <1>3, <2>2 DEF Loop!Begins
<1>6. left' \in [Ranks -> SUBSET Ranks]
  BY <1>1, <1>2, <1>5 DEF Loop!EndLoop, Positioned
<1>7. QED
  BY <1>1, <1>4, <1>6 DEF LocatorInv, Positioned, Related, Transit

LEMMA LocatorStep ==
  ASSUME LocatorInv, [Next]_vars
  PROVE  LocatorInv' /\ [Loop!LoopNext]_(Loop!loopVars)
<1>1. CASE Flags \/ GatherExtents \/ LocationRanks \/ Located
  BY <1>1, CollectiveStep DEF Loop!LoopNext
<1>2. ASSUME NEW r \in Ranks, Enter(r) \/ Leave(r) \/ EndLoop(r)
      PROVE  LocatorInv' /\ Loop!LoopNext
  BY <1>2, EnterStep, LeaveStep, EndLoopStep DEF Loop!LoopNext
<1>3. CASE UNCHANGED vars
  <2>1. UNCHANGED <<setup, plan, pass, second, left, posted, chan, partners>>
    BY <1>3 DEF vars, lists
  <2>2. UNCHANGED <<Relations, Stamps>>
    BY <2>1 DEF Relations, Stamps
  <2>3. QED
    BY <2>1, <2>2 DEF LocatorInv, Positioned, Related, Transit, Loop!loopVars
<1>4. QED
  BY <1>1, <1>2, <1>3 DEF Next

-------------------------------------------------------------------------------
\* The plan is made of complete loops, over relations on which the two ranks agree.
THEOREM PlansAgree == Spec => []LocatorInv
<1>1. Init => LocatorInv
  BY LocatorInit
<1>2. LocatorInv /\ [Next]_vars => LocatorInv'
  BY LocatorStep
<1>3. QED
  BY <1>1, <1>2, PTL DEF Spec

\* The exchanges of the locator, those of a search, of its extensions and of the values,
\* are loops that all ranks have decided together, for any ranks, meshes and calls.
THEOREM LocatorRunsLoops == Spec => RefinesLoopProgram
<1>1. Init => Loop!LoopInit
  BY LocatorInit
<1>2. LocatorInv /\ [Next]_vars => [Loop!LoopNext]_(Loop!loopVars)
  BY LocatorStep
<1>3. QED
  BY <1>1, <1>2, PlansAgree, PTL DEF Spec, RefinesLoopProgram, Loop!LoopSpec

\* What LoopProgramProofs shows of a program of loops holds of the locator.
LEMMA LocatorLoops == Spec => Theory!LoopSpec
<1>1. Init => Theory!LoopInit
  BY LocatorInit DEF Loop!LoopInit, Theory!LoopInit
<1>2. LocatorInv /\ [Next]_vars => [Theory!LoopNext]_(Theory!loopVars)
  <2>1. Loop!LoopNext <=> Theory!LoopNext
    <3>1. Loop!Decide <=> Theory!Decide
      BY DEF Loop!Decide, Theory!Decide, Loop!WellFormed, Theory!WellFormed, Loop!Begins,
             Theory!Begins, Loop!Parts, Theory!Parts, Loop!Symmetric, Theory!Symmetric
    <3>2. ASSUME NEW r
          PROVE  /\ Loop!Enter(r) <=> Theory!Enter(r)
                 /\ Loop!Leave(r) <=> Theory!Leave(r)
                 /\ Loop!EndLoop(r) <=> Theory!EndLoop(r)
      BY DEF Loop!Enter, Theory!Enter, Loop!Post, Theory!Post, Loop!Stamp, Theory!Stamp,
             Loop!Partner, Theory!Partner, Loop!Leave, Theory!Leave, Loop!Take, Theory!Take,
             Loop!Arrived, Theory!Arrived, Loop!Visit, Theory!Visit, Loop!Twice,
             Theory!Twice, Loop!EndLoop, Theory!EndLoop, Loop!Begins, Theory!Begins
    <3>3. QED
      BY <3>1, <3>2 DEF Loop!LoopNext, Theory!LoopNext
  <2>2. QED
    BY <2>1, LocatorStep DEF Loop!loopVars, Theory!loopVars
<1>3. QED
  BY <1>1, <1>2, PlansAgree, PTL DEF Spec, Theory!LoopSpec

\* Hence its ranks never all wait for each other, and never take a message for another.
THEOREM LocatorNeverStuck == Spec => [](Loop!NeverStuck /\ Loop!Paired)
<1>1. Theory!NeverStuck /\ Theory!Paired => Loop!NeverStuck /\ Loop!Paired
  BY DEF Theory!NeverStuck, Loop!NeverStuck, Theory!Paired, Loop!Paired, Theory!Arrived,
         Loop!Arrived, Theory!Incoming, Loop!Incoming, Theory!Stamp, Loop!Stamp,
         Theory!Partner, Loop!Partner
<1>2. Theory!LoopSpec => []Theory!NeverStuck
  BY Theory!RanksNeverStuck, RanksAssumption
<1>3. Theory!LoopSpec => []Theory!Paired
  BY Theory!MessagesPaired, RanksAssumption
<1>4. QED
  BY <1>1, <1>2, <1>3, LocatorLoops, PTL

-------------------------------------------------------------------------------
(***************************************************************************)
(* What the messages hold.  A rank computes each of them from lists that   *)
(* the loops of a collective operation leave alone: Said(q, r, k) is what  *)
(* q says to r in exchange k, before it says it, while it is on its way,   *)
(* and until r has used it.  The lists of both ends then fit: each is made *)
(* of what the other end made its own of.                                  *)
(***************************************************************************)

\* What the ranks exchange after each collective operation.
PhasesOf == [flags |-> {}, extents |-> {"transfer"}, ranks |-> {"search"},
             located |-> {"counts", "points"}, done |-> {"exchange"}]
Stages == {"flags", "extents", "ranks", "located", "done"}

Staged ==
  /\ stage \in Stages /\ round \in Nat /\ aborted \in BOOLEAN
  /\ \A r \in Ranks : \A k \in pass[r] + 1 .. Len(plan) :
       /\ plan[k].phase \in PhasesOf[stage]
       /\ stage # "ranks" => plan[k].with = partners
       /\ plan[k].phase = "counts" => k < Len(plan) /\ plan[k + 1].phase = "points"
       /\ plan[k].phase = "points" => k = Len(plan)

\* The lists of each rank, and those it keeps for each other rank.
Listlike(s) == Len(s) \in Nat /\ s = [k \in 1 .. Len(s) |-> s[k]]
ByRank(f) == f = [r \in Ranks |-> f[r]]
Sized ==
  /\ ByRank(loc) /\ ByRank(todo) /\ ByRank(got) /\ ByRank(interior)
  /\ ByRank(local_ids) /\ ByRank(n_dist) /\ ByRank(distants)
  /\ \A r \in Ranks :
       /\ partners[r] \subseteq setup.far[r]
       /\ DOMAIN loc[r] \in {{}, DOMAIN setup.pts[r]}
       /\ todo[r] \in Seq(DOMAIN setup.pts[r]) /\ Len(todo[r]) <= Len(setup.pts[r])
       /\ interior[r] \in Seq(DOMAIN setup.pts[r]) /\ Len(interior[r]) <= Len(setup.pts[r])
       /\ ByRank(local_ids[r]) /\ ByRank(n_dist[r]) /\ ByRank(distants[r])
       /\ \A q \in Ranks : /\ Listlike(local_ids[r][q]) /\ Listlike(distants[r][q])
                           /\ Len(local_ids[r][q]) <= Len(interior[r])

\* What r tells q of the points it has located there.
Told(r, q) == [k \in DOMAIN PointsOn(r, q) |->
                 LET p == PointsOn(r, q)[k]
                 IN  [elt |-> loc[r][p].elt, x |-> setup.pts[r][p]]]

\* r has heard how many points q has located on it; it has heard which ones.
HasCount(r, q) ==
  /\ q \in partners[r] /\ pass[r] < Len(plan)
  /\ At(r, "counts") => q \notin left[r]
HasList(r, q) ==
  /\ q \in partners[r]
  /\ pass[r] < Len(plan) => At(r, "points") /\ q \notin left[r]

\* The lists that both ends keep agree, except while they are exchanged.
Filling(r, q) ==
  /\ HasCount(r, q) => n_dist[r][q] = Len(PointsOn(q, r))
  /\ HasList(r, q) => local_ids[r][q] = PointsOn(r, q) /\ distants[r][q] = Told(q, r)
  /\ ~HasList(r, q) => local_ids[r][q] = <<>> /\ distants[r][q] = <<>>
  /\ Len(PointsOn(r, q)) <= Len(interior[r])
Matched(r, q) ==
  /\ Len(distants[r][q]) = Len(local_ids[q][r])
  /\ stage = "ranks" => distants[r][q] = <<>> /\ local_ids[r][q] = <<>>
Lists == \A r, q \in Ranks : IF stage = "located" THEN Filling(r, q) ELSE Matched(r, q)

\* What q says to r in exchange k, of all that does not change while it may be on its way.
FlagOf(r, q, c) == r \in setup.calls[c].dist /\ distants[r][q] # <<>>
Said(q, r, k) ==
  LET e == plan[k + 1]
  IN  CASE e.phase = "transfer" -> [j \in DOMAIN distants[q][r] |-> distants[q][r][j].elt]
        [] e.phase = "search" ->
             IF e.part = "first" THEN Coords(q, r)
             ELSE [j \in DOMAIN Coords(r, q) |-> Locate(q, Coords(r, q)[j])]
        [] e.phase = "counts" -> <<Len(PointsOn(q, r))>>
        [] e.phase = "points" -> Told(q, r)
        [] e.phase = "exchange" ->
             IF e.part = "first" THEN <<FlagOf(q, r, e.call)>>
             ELSE IF setup.calls[e.call].reverse
             THEN IF FlagOf(r, q, e.call) THEN LocalVar(q, r) ELSE <<>>
             ELSE IF FlagOf(q, r, e.call) THEN DistantVar(q, r) ELSE <<>>

Spoken == \A q, r \in Ranks : \A m \in Range(chan[<<q, r>>]) :
            m.data = Said(q, r, m.stamp)
Heard == \A r \in Ranks : second[r] => got[r] = Said(Partner(r), r, pass[r])

ContentInv == Staged /\ Sized /\ Lists /\ Spoken /\ Heard

-------------------------------------------------------------------------------
\* The sorted list of a finite set of naturals: its length, and what it holds.
LEMMA AscendingLength ==
  ASSUME NEW S, S \subseteq Nat, IsFiniteSet(S)
  PROVE  /\ Cardinality(S) \in Nat
         /\ Len(Ascending(S)) = Cardinality(S)
         /\ DOMAIN Ascending(S) = 1 .. Cardinality(S)
<1>1. Cardinality(S) \in Nat
  BY FS_CardinalityType
<1>2. QED
  BY <1>1 DEF Ascending

\* The place of a number of S among them: there is one number at each place.
Place(S) == [i \in S |-> Cardinality({j \in S : j <= i})]

LEMMA OneAtEachPlace ==
  ASSUME NEW S, S \subseteq Nat, IsFiniteSet(S)
  PROVE  /\ Place(S) \in Injection(S, 1 .. Cardinality(S))
         /\ Place(S) \in Surjection(S, 1 .. Cardinality(S))
         /\ Cardinality(S) \in Nat
<1> DEFINE n == Cardinality(S)
           upto(i) == {j \in S : j <= i}
           f == [i \in S |-> Cardinality(upto(i))]
<1>1. n \in Nat /\ IsFiniteSet(1 .. n) /\ Cardinality(1 .. n) = n
  <2>1. n \in Nat
    BY FS_CardinalityType
  <2>2. IsFiniteSet(1 .. n) /\ Cardinality(1 .. n) = IF 1 > n THEN 0 ELSE n - 1 + 1
    BY <2>1, FS_Interval
  <2>3. QED
    BY <2>1, <2>2
<1>2. ASSUME NEW i \in S
      PROVE  /\ IsFiniteSet(upto(i)) /\ Cardinality(upto(i)) \in 1 .. n
  <2>1. upto(i) \in SUBSET S /\ i \in upto(i)
    OBVIOUS
  <2>2. IsFiniteSet(upto(i)) /\ Cardinality(upto(i)) <= n
    BY <2>1, FS_Subset
  <2>3. Cardinality(upto(i)) \in Nat /\ Cardinality(upto(i)) # 0
    BY <2>1, <2>2, FS_CardinalityType, FS_EmptySet
  <2>4. QED
    BY <1>1, <2>2, <2>3
<1>3. ASSUME NEW i \in S, NEW j \in S, i < j PROVE f[i] # f[j]
  <2>1. upto(i) \in SUBSET upto(j) /\ upto(j) # upto(i)
    <3>1. j \in upto(j) /\ j \notin upto(i)
      BY <1>3
    <3>2. \A x \in S : x <= i => x <= j
      BY <1>3
    <3>3. upto(i) # upto(j)
      BY <3>1
    <3>4. upto(i) \subseteq upto(j)
      BY <3>2
    <3> HIDE DEF upto
    <3>5. QED
      BY <3>3, <3>4
  <2>2. IsFiniteSet(upto(j))
    BY <1>2
  <2>3. f[i] = Cardinality(upto(i)) /\ f[j] = Cardinality(upto(j))
    OBVIOUS
  <2> HIDE DEF upto, f
  <2>4. QED
    BY <2>1, <2>2, <2>3, FS_Subset
<1>4. f \in Injection(S, 1 .. n)
  <2>1. f \in [S -> 1 .. n]
    BY <1>2
  <2>2. \A i, j \in S : f[i] = f[j] => i = j
    <3> HIDE DEF f
    <3>1. \A i, j \in S : i \in Nat /\ j \in Nat
      OBVIOUS
    <3>2. QED
      BY <1>3, <3>1
  <2> HIDE DEF f
  <2>3. QED
    BY <2>1, <2>2 DEF Injection, IsInjective
<1>5. f \in Surjection(S, 1 .. n)
  BY <1>1, <1>4, FS_Injection
<1>6. QED
  BY <1>1, <1>4, <1>5 DEF Place

LEMMA AscendingHolds ==
  ASSUME NEW S, S \subseteq Nat, IsFiniteSet(S)
  PROVE  /\ Ascending(S) \in Seq(S)
         /\ \A i \in S : \E k \in 1 .. Cardinality(S) : Ascending(S)[k] = i
         /\ \A j, k \in 1 .. Cardinality(S) : Ascending(S)[j] = Ascending(S)[k] => j = k
<1>1. PICK n, f : n = Cardinality(S) /\ f = Place(S)
  OBVIOUS
<1> DEFINE nth(k) == CHOOSE i \in S : Cardinality({j \in S : j <= i}) = k
<1>2. f \in Injection(S, 1 .. n) /\ f \in Surjection(S, 1 .. n) /\ n \in Nat
  BY <1>1, OneAtEachPlace
<1>3. \A i \in S : f[i] \in 1 .. n
  BY <1>2 DEF Surjection
<1>4. \A i, j \in S : f[i] = f[j] => i = j
  BY <1>2 DEF Injection, IsInjective
<1>5. \A k \in 1 .. n : \E i \in S : f[i] = k
  BY <1>2 DEF Surjection
<1>6. \A k \in 1 .. n : nth(k) \in S /\ f[nth(k)] = k
  <2>1. \A i \in S : f[i] = Cardinality({j \in S : j <= i})
    BY <1>1 DEF Place
  <2>2. ASSUME NEW k \in 1 .. n
        PROVE  nth(k) \in S /\ Cardinality({j \in S : j <= nth(k)}) = k
    <3>1. \E i \in S : Cardinality({j \in S : j <= i}) = k
      BY <1>5, <2>1
    <3>2. QED
      BY <3>1
  <2> HIDE DEF nth
  <2>3. QED
    BY <2>1, <2>2
<1>7. Ascending(S) = [k \in 1 .. n |-> nth(k)]
  BY <1>1 DEF Ascending
<1> HIDE DEF nth
<1>8. \A k \in 1 .. n : Ascending(S)[k] = nth(k)
  BY <1>7
<1>9. Ascending(S) \in Seq(S)
  BY <1>2, <1>6, <1>7
<1>10. \A i \in S : Ascending(S)[f[i]] = i
  BY <1>3, <1>4, <1>6, <1>8
<1>11. \A j, k \in 1 .. n : Ascending(S)[j] = Ascending(S)[k] => j = k
  BY <1>6, <1>8
<1>12. QED
  BY <1>1, <1>3, <1>9, <1>10, <1>11

LEMMA SomePoints ==
  ASSUME NEW pts \in Seq(Int), NEW D, D \in {{}, DOMAIN pts}, NEW S, S \subseteq D
  PROVE  /\ S \subseteq Nat /\ IsFiniteSet(S)
         /\ Ascending(S) \in Seq(DOMAIN pts) /\ Ascending(S) \in Seq(S)
         /\ Len(Ascending(S)) \in Nat /\ Len(Ascending(S)) <= Len(pts)
         /\ Len(Ascending(S)) = Cardinality(S)
         /\ DOMAIN Ascending(S) = 1 .. Len(Ascending(S))
<1>1. Len(pts) \in Nat /\ DOMAIN pts = 1 .. Len(pts)
  OBVIOUS
<1>2. IsFiniteSet(1 .. Len(pts)) /\ Cardinality(1 .. Len(pts)) = Len(pts)
  <2>1. /\ IsFiniteSet(1 .. Len(pts))
        /\ Cardinality(1 .. Len(pts)) = IF 1 > Len(pts) THEN 0 ELSE Len(pts) - 1 + 1
    BY <1>1, FS_Interval
  <2>2. QED
    BY <1>1, <2>1
<1>3. S \in SUBSET (1 .. Len(pts)) /\ S \subseteq Nat
  BY <1>1
<1>4. IsFiniteSet(S) /\ Cardinality(S) <= Len(pts)
  BY <1>2, <1>3, FS_Subset
<1>5. /\ Cardinality(S) \in Nat /\ Len(Ascending(S)) = Cardinality(S)
      /\ DOMAIN Ascending(S) = 1 .. Cardinality(S) /\ Ascending(S) \in Seq(S)
  BY <1>3, <1>4, AscendingLength, AscendingHolds
<1>6. Ascending(S) \in Seq(DOMAIN pts)
  BY <1>1, <1>3, <1>5, SeqMonotonic
<1>7. QED
  BY <1>3, <1>4, <1>5, <1>6

\* Each of them is listed, once.
LEMMA PointsAllListed ==
  ASSUME NEW pts \in Seq(Int), NEW D, D \in {{}, DOMAIN pts}, NEW S, S \subseteq D
  PROVE  /\ \A k \in 1 .. Len(Ascending(S)) : Ascending(S)[k] \in S
         /\ \A i \in S : \E k \in 1 .. Len(Ascending(S)) : Ascending(S)[k] = i
         /\ \A j, k \in 1 .. Len(Ascending(S)) :
              Ascending(S)[j] = Ascending(S)[k] => j = k
<1>1. /\ S \subseteq Nat /\ IsFiniteSet(S) /\ Len(Ascending(S)) = Cardinality(S)
      /\ Ascending(S) \in Seq(S)
  BY SomePoints
<1>2. \A k \in 1 .. Len(Ascending(S)) : Ascending(S)[k] \in S
  BY <1>1
<1>3. QED
  BY <1>1, <1>2, AscendingHolds

-------------------------------------------------------------------------------
\* Where the ranks are in their loops.
Placed(r) ==
  /\ pass[r] \in Nat /\ pass[r] <= Len(plan) /\ Len(plan) \in Nat
  /\ left[r] # {} => pass[r] < Len(plan) /\ left[r] \subseteq plan[pass[r] + 1].with[r]
  /\ pass[r] < Len(plan) => plan[pass[r] + 1].part # "second"
  /\ second[r] => left[r] # {} /\ plan[pass[r] + 1].part = "first"

LEMMA RanksPlaced ==
  ASSUME LocatorInv, Theory!LoopInv
  PROVE  /\ \A r \in Ranks : Placed(r)
         /\ left \in [Ranks -> SUBSET Ranks]
         /\ posted \in [Ranks -> BOOLEAN] /\ second \in [Ranks -> BOOLEAN]
<1>1. Theory!LoopTyped /\ Theory!Positions
  BY DEF Theory!LoopInv
<1>2. Relations = Rels(plan) /\ PlanOK(plan)
  BY DEF Relations, Rels, LocatorInv
<1>3. /\ Len(Relations) = Len(plan) /\ Len(plan) \in Nat
      /\ \A k \in 1 .. Len(plan) : /\ Relations[k].with = plan[k].with
                                   /\ Relations[k].part = plan[k].part
  BY <1>2, PlanRelations
<1>4. ASSUME NEW r \in Ranks PROVE Placed(r)
  <2>1. pass[r] \in Nat /\ pass[r] <= Len(plan)
    BY <1>1, <1>3 DEF Theory!LoopTyped, Theory!Positions
  <2>2. pass[r] < Len(plan) => pass[r] + 1 \in 1 .. Len(plan)
    BY <1>3, <2>1
  <2>3. left[r] # {} => pass[r] < Len(plan)
    BY <1>1, <1>3 DEF Theory!Positions
  <2>4. pass[r] < Len(plan) => /\ plan[pass[r] + 1].part # "second"
                               /\ left[r] \subseteq plan[pass[r] + 1].with[r]
    BY <1>1, <1>3, <2>2 DEF Theory!Positions
  <2>5. second[r] => left[r] # {} /\ plan[pass[r] + 1].part = "first"
    BY <1>1, <1>3, <2>2, <2>3 DEF Theory!Positions, Theory!Twice
  <2>6. QED
    BY <1>3, <2>1, <2>3, <2>4, <2>5 DEF Placed
<1>5. QED
  BY <1>1, <1>4 DEF Theory!LoopTyped

\* A message on its way to r is for an exchange that r has not ended.
LEMMA OnItsWay ==
  ASSUME LocatorInv, Theory!LoopInv, NEW q \in Ranks, NEW r \in Ranks,
         NEW m \in Range(chan[<<q, r>>])
  PROVE  m.stamp \in Nat /\ pass[r] <= m.stamp /\ m.stamp < Len(plan)
<1> DEFINE c == chan[<<q, r>>]
<1>1. Stamps[<<q, r>>] = [k \in 1 .. Len(c) |-> c[k].stamp]
  BY DEF Stamps
<1>2. PICK S : c \in Seq(S)
  BY DEF LocatorInv, Transit
<1> HIDE DEF c
<1>3. PICK i \in 1 .. Len(c) : m = c[i]
  BY <1>2 DEF Range, c
<1>4. /\ Len(c) \in Nat /\ Len(Stamps[<<q, r>>]) = Len(c)
       /\ Stamps[<<q, r>>][i] = m.stamp
  BY <1>1, <1>2, <1>3
<1>5. Theory!Holds(Stamps[<<q, r>>], Theory!OnTheWay(q, r))
  BY DEF Theory!LoopInv, Theory!InTransit
<1>6. m.stamp \in Theory!OnTheWay(q, r)
  BY <1>3, <1>4, <1>5 DEF Theory!Holds
<1>7. Len(Relations) = Len(plan) /\ Len(plan) \in Nat
  BY PlanRelations DEF LocatorInv, Relations, Rels
<1>8. m.stamp \in 0 .. Len(plan) - 1 /\ ~(m.stamp < pass[r])
  BY <1>6, <1>7 DEF Theory!OnTheWay, Theory!Due, Theory!Past
<1>9. pass[r] \in Nat
  BY DEF Theory!LoopInv, Theory!LoopTyped
<1>10. QED
  BY <1>7, <1>8, <1>9

\* What arrives is what the partner posted for the exchange that r is at.
LEMMA ArrivesInTime ==
  ASSUME LocatorInv, Theory!LoopInv, NEW r \in Ranks, Arrived(r)
  PROVE  /\ Partner(r) \in left[r] /\ Partner(r) \in Ranks
         /\ Incoming(r).stamp = Loop!Stamp(r)
         /\ Incoming(r) = chan[<<Partner(r), r>>][1]
         /\ 1 \in 1 .. Len(chan[<<Partner(r), r>>])
<1> DEFINE q == Partner(r)
           c == chan[<<q, r>>]
<1>1. left[r] # {} /\ c # <<>> /\ left \in [Ranks -> SUBSET Ranks]
  BY DEF Arrived, LocatorInv, Positioned
<1>2. q \in left[r] /\ q \in Ranks /\ q = Theory!Partner(r)
  <2>1. Theory!Partner(r) \in left[r] /\ q = Theory!Partner(r)
    BY <1>1, RanksAssumption, Theory!PartnerIsLeast DEF Partner, Theory!Partner
  <2>2. QED
    BY <1>1, <2>1
<1> HIDE DEF q
<1>3. PICK S : c \in Seq(S)
  BY <1>2 DEF LocatorInv, Transit
<1>4. Len(c) \in Nat /\ 1 \in 1 .. Len(c) /\ Head(c) = c[1]
  BY <1>1, <1>3, EmptySeq
<1>5. Stamps[<<q, r>>] = [k \in 1 .. Len(c) |-> c[k].stamp]
  BY <1>2 DEF Stamps
<1> HIDE DEF c
<1>6. /\ Stamps[<<q, r>>] \in Seq({c[k].stamp : k \in 1 .. Len(c)})
      /\ Len(Stamps[<<q, r>>]) = Len(c) /\ Stamps[<<q, r>>][1] = c[1].stamp
  BY <1>4, <1>5
<1>7. Stamps[<<q, r>>] # <<>>
  BY <1>4, <1>6
<1>8. /\ Theory!Stamp(r) \in Theory!OnTheWay(q, r)
      /\ \A m \in Theory!OnTheWay(q, r) : Theory!Stamp(r) <= m
  BY <1>1, <1>2, <1>7, RanksAssumption, Theory!NextMessage DEF Theory!LoopInv
<1>9. /\ Theory!Holds(Stamps[<<q, r>>], Theory!OnTheWay(q, r))
      /\ Stamps[<<q, r>>] \in Seq(Nat)
  BY <1>2 DEF Theory!LoopInv, Theory!InTransit, Theory!LoopTyped
<1>10. Head(Stamps[<<q, r>>]) = Theory!Stamp(r)
  BY <1>8, <1>9, RanksAssumption, Theory!HoldsTail
<1>11. Head(Stamps[<<q, r>>]) = c[1].stamp
  BY <1>6, <1>7
<1>12. Theory!Stamp(r) = Loop!Stamp(r)
  BY DEF Theory!Stamp, Loop!Stamp
<1>13. Incoming(r) = c[1]
  BY <1>4 DEF Incoming, c, q
<1>14. QED
  BY <1>2, <1>4, <1>10, <1>11, <1>12, <1>13 DEF c, q

\* When all ranks have ended their loops, nothing is on its way.
LEMMA AllGathered ==
  ASSUME LocatorInv, Theory!LoopInv, \A r \in Ranks : pass[r] = Len(plan)
  PROVE  \A q, r \in Ranks : left[r] = {} /\ second[r] = FALSE /\ Range(chan[<<q, r>>]) = {}
<1> SUFFICES ASSUME NEW q \in Ranks, NEW r \in Ranks
             PROVE  left[r] = {} /\ second[r] = FALSE /\ Range(chan[<<q, r>>]) = {}
  OBVIOUS
<1>1. Placed(r) /\ second[r] \in BOOLEAN
  BY RanksPlaced
<1>2. left[r] = {} /\ second[r] = FALSE
  BY <1>1 DEF Placed
<1>3. ASSUME NEW m \in Range(chan[<<q, r>>]) PROVE FALSE
  <2>1. m.stamp \in Nat /\ pass[r] <= m.stamp /\ m.stamp < Len(plan)
    BY OnItsWay
  <2>2. QED
    BY <1>1, <2>1 DEF Placed
<1>4. QED
  BY <1>2, <1>3

-------------------------------------------------------------------------------
\* The entry of the plan that a rank is at.
LEMMA CurrentEntry ==
  ASSUME LocatorInv, Theory!LoopInv, NEW r \in Ranks, pass[r] < Len(plan)
  PROVE  LET e == plan[pass[r] + 1]
             f == plan[pass[r] + 2]
         IN  /\ pass[r] \in Nat /\ Len(plan) \in Nat /\ pass[r] + 1 \in 1 .. Len(plan)
             /\ e.phase \in Phases /\ e.part \in {"only", "first"}
             /\ e.part = "only" <=> e.phase \in Single
             /\ e.part = "first" => pass[r] + 1 < Len(plan) /\ Follows(e, f)
<1>1. Placed(r) /\ PlanOK(plan)
  BY RanksPlaced DEF LocatorInv
<1>2. pass[r] \in Nat /\ Len(plan) \in Nat /\ pass[r] + 1 \in 1 .. Len(plan)
  BY <1>1 DEF Placed
<1>3. plan[pass[r] + 1] \in Entries
  BY <1>1, <1>2 DEF PlanOK
<1>4. plan[pass[r] + 1].part # "second"
  BY <1>1 DEF Placed
<1>5. (pass[r] + 1) + 1 = pass[r] + 2
  BY <1>2
<1>6. plan[pass[r] + 1].phase \in Phases /\ plan[pass[r] + 1].part \in {"only", "first"}
  BY <1>3, <1>4 DEF Entries, Loop!Parts
<1>7. QED
  BY <1>1, <1>2, <1>5, <1>6 DEF PlanOK

\* What a rank sends is what it is to say in the exchange that it is at.
LEMMA SendsWhatIsSaid ==
  ASSUME LocatorInv, Theory!LoopInv, Heard, NEW r \in Ranks, left[r] # {}
  PROVE  Message(r, Partner(r)) = Said(r, Partner(r), Loop!Stamp(r))
<1> DEFINE q == Partner(r)
           e == plan[pass[r] + 1]
           f == plan[pass[r] + 2]
<1>1. pass[r] < Len(plan)
  BY RanksPlaced DEF Placed
<1>2. /\ pass[r] \in Nat /\ e.phase \in Phases /\ e.part \in {"only", "first"}
      /\ e.part = "only" <=> e.phase \in Single
      /\ e.part = "first" => Follows(e, f)
  BY <1>1, CurrentEntry
<1>3. Placed(r) /\ second[r] \in BOOLEAN
  BY RanksPlaced
<1> HIDE DEF q
<1>4. CASE ~second[r]
  <2>1. Loop!Stamp(r) = pass[r]
    BY <1>4 DEF Loop!Stamp
  <2>2. Said(r, q, pass[r]) = Message(r, q)
    <3>1. CASE e.phase \in Single
      BY <3>1 DEF Said, Message, At, Single, Told
    <3>2. CASE e.phase = "search"
      BY <1>2, <1>4, <3>2 DEF Said, Message, At, Single
    <3>3. CASE e.phase = "exchange"
      BY <1>2, <1>4, <3>3 DEF Said, Message, At, Single, Flag, FlagOf, Call
    <3>4. QED
      BY <1>2, <3>1, <3>2, <3>3 DEF Phases, Single
  <2>3. QED
    BY <2>1, <2>2 DEF q
<1>5. CASE second[r]
  <2>1. Loop!Stamp(r) = pass[r] + 1 /\ (pass[r] + 1) + 1 = pass[r] + 2
    BY <1>2, <1>5 DEF Loop!Stamp
  <2>2. e.part = "first"
    BY <1>3, <1>5 DEF Placed
  <2>3. f.part = "second" /\ f.phase = e.phase /\ f.call = e.call
    BY <1>2, <2>2 DEF Follows
  <2>4. got[r] = Said(q, r, pass[r])
    BY <1>5 DEF Heard, q
  <2>5. CASE e.phase = "search"
    <3>1. got[r] = Coords(q, r)
      BY <2>2, <2>4, <2>5 DEF Said
    <3>2. Said(r, q, pass[r] + 1) = [j \in DOMAIN got[r] |-> Locate(r, got[r][j])]
      BY <2>1, <2>3, <2>5, <3>1 DEF Said
    <3>3. Message(r, q) = [j \in DOMAIN got[r] |-> Locate(r, got[r][j])]
      BY <1>5, <2>5 DEF Message, At
    <3>4. QED
      BY <2>1, <3>2, <3>3 DEF q
  <2>6. CASE e.phase = "exchange"
    <3>1. got[r] = <<FlagOf(q, r, e.call)>> /\ got[r][1] = FlagOf(q, r, e.call)
      BY <2>2, <2>4, <2>6 DEF Said
    <3>2. Message(r, q) = IF Call(r).reverse
                          THEN IF FlagOf(q, r, e.call) THEN LocalVar(r, q) ELSE <<>>
                          ELSE IF Flag(r, q) THEN DistantVar(r, q) ELSE <<>>
      BY <1>5, <2>6, <3>1 DEF Message, At
    <3>3. Call(r) = setup.calls[e.call] /\ (Flag(r, q) <=> FlagOf(r, q, e.call))
      BY DEF Call, Flag, FlagOf
    <3>4. Said(r, q, pass[r] + 1) = IF setup.calls[e.call].reverse
                          THEN IF FlagOf(q, r, e.call) THEN LocalVar(r, q) ELSE <<>>
                          ELSE IF FlagOf(r, q, e.call) THEN DistantVar(r, q) ELSE <<>>
      BY <2>1, <2>3, <2>6 DEF Said
    <3>5. QED
      BY <2>1, <3>2, <3>3, <3>4 DEF q
  <2>7. QED
    BY <1>2, <2>2, <2>5, <2>6 DEF Phases, Single
<1>6. QED
  BY <1>3, <1>4, <1>5

\* What is to be said in an exchange of this stage does not change with the loops.
LEMMA SaidKept ==
  ASSUME UNCHANGED <<setup, plan, todo, round>>, NEW q, NEW r, NEW k,
         plan[k + 1].phase \in Phases,
         plan[k + 1].phase = "transfer" => UNCHANGED distants,
         plan[k + 1].phase \in {"counts", "points"} => UNCHANGED loc,
         plan[k + 1].phase = "exchange" => UNCHANGED <<distants, local_ids, interior>>
  PROVE  Said(q, r, k)' = Said(q, r, k)
<1> DEFINE e == plan[k + 1]
<1>1. CASE e.phase = "transfer"
  BY <1>1 DEF Said
<1>2. CASE e.phase = "search"
  <2>1. \A s : MeshExtents(s)' = MeshExtents(s)
    BY DEF MeshExtents, Tolerance
  <2>2. \A s, t : Chosen(s, t)' = Chosen(s, t)
    BY <2>1 DEF Chosen
  <2>3. \A s, t : Coords(s, t)' = Coords(s, t)
    BY <2>2 DEF Coords
  <2>4. \A s, x : Locate(s, x)' = Locate(s, x)
    BY DEF Locate, Near, Tolerance
  <2>5. QED
    BY <1>2, <2>3, <2>4 DEF Said
<1>3. CASE e.phase \in {"counts", "points"}
  <2>1. \A s, t : PointsOn(s, t)' = PointsOn(s, t)
    BY <1>3 DEF PointsOn
  <2>2. Told(q, r)' = Told(q, r)
    BY <1>3, <2>1 DEF Told
  <2>3. QED
    BY <1>3, <2>1, <2>2 DEF Said
<1>4. CASE e.phase = "exchange"
  <2>1. /\ LocalVar(q, r)' = LocalVar(q, r) /\ DistantVar(q, r)' = DistantVar(q, r)
        /\ \A s, t, c : FlagOf(s, t, c)' = FlagOf(s, t, c)
    BY <1>4 DEF LocalVar, DistantVar, FlagOf
  <2>2. QED
    BY <1>4, <2>1 DEF Said
<1>5. e.phase \in Phases => \/ e.phase = "transfer" \/ e.phase = "search"
                            \/ e.phase \in {"counts", "points"} \/ e.phase = "exchange"
  BY DEF Phases
<1>6. QED
  BY <1>1, <1>2, <1>3, <1>4, <1>5, Zenon

-------------------------------------------------------------------------------
LEMMA PointLists ==
  ASSUME NEW s \in Setups, NEW r \in Ranks
  PROVE  /\ s.pts[r] \in Seq(Int) /\ Len(s.pts[r]) \in Nat
         /\ DOMAIN s.pts[r] = 1 .. Len(s.pts[r])
<1>1. s.pts \in [Ranks -> Seq(Int)]
  BY SetupAssumption
<1>2. s.pts[r] \in Seq(Int)
  BY <1>1
<1>3. QED
  BY <1>2

LEMMA ListOfLength ==
  ASSUME NEW n \in Nat, NEW f, DOMAIN f = 1 .. n, f = [k \in DOMAIN f |-> f[k]]
  PROVE  Len(f) = n /\ Listlike(f)
<1>1. f = [k \in 1 .. n |-> f[k]]
  OBVIOUS
<1>2. f \in Seq({f[k] : k \in 1 .. n})
  BY <1>1
<1>3. Len(f) \in Nat /\ DOMAIN f = 1 .. Len(f)
  BY <1>2
<1>4. Len(f) = n
  BY <1>3
<1>5. QED
  BY <1>1, <1>4 DEF Listlike

\* What a list holds when something is added to it, or taken from it.
LEMMA RangeAppend ==
  ASSUME NEW S, NEW c \in Seq(S), NEW d
  PROVE  Range(Append(c, d)) \subseteq Range(c) \cup {d}
<1> DEFINE T == S \cup {d}
<1>1. c \in Seq(T) /\ d \in T
  BY SeqMonotonic
<1> HIDE DEF T
<1>2. /\ Len(c) \in Nat /\ DOMAIN c = 1 .. Len(c) /\ Len(Append(c, d)) = Len(c) + 1
      /\ \A i \in 1 .. Len(c) : Append(c, d)[i] = c[i]
      /\ Append(c, d)[Len(c) + 1] = d /\ Append(c, d) \in Seq(T)
  BY <1>1, AppendProperties
<1>3. DOMAIN Append(c, d) = 1 .. Len(c) + 1
  BY <1>2
<1>4. \A i \in 1 .. Len(c) + 1 : i \in 1 .. Len(c) \/ i = Len(c) + 1
  BY <1>2
<1>5. QED
  BY <1>2, <1>3, <1>4 DEF Range

LEMMA RangeTail ==
  ASSUME NEW S, NEW c \in Seq(S), c # <<>>
  PROVE  Range(Tail(c)) \subseteq Range(c)
<1>1. /\ Len(c) \in Nat /\ Len(c) # 0 /\ DOMAIN c = 1 .. Len(c)
      /\ Tail(c) \in Seq(S) /\ Len(Tail(c)) = Len(c) - 1
      /\ \A k \in 1 .. Len(Tail(c)) : Tail(c)[k] = c[k + 1]
  BY EmptySeq, HeadTailProperties
<1>2. DOMAIN Tail(c) = 1 .. Len(c) - 1 /\ \A k \in 1 .. Len(c) - 1 : k + 1 \in 1 .. Len(c)
  BY <1>1
<1>3. QED
  BY <1>1, <1>2 DEF Range

LEMMA NothingListed ==
  /\ Listlike(<<>>) /\ Len(<<>>) = 0 /\ DOMAIN <<>> = {}
  /\ \A s : Listlike(s) /\ Len(s) = 0 => s = <<>>
  /\ \A S : <<>> \in Seq(S)
<1>1. 1 .. 0 = {} /\ Len(<<>>) = 0 /\ DOMAIN <<>> = {}
  OBVIOUS
<1>2. <<>> = [k \in 1 .. 0 |-> <<>>[k]]
  OBVIOUS
<1>3. ASSUME NEW s, Listlike(s), Len(s) = 0 PROVE s = <<>>
  <2>1. s = [k \in 1 .. 0 |-> s[k]]
    BY <1>3 DEF Listlike
  <2>2. [k \in 1 .. 0 |-> s[k]] = <<>>
    OBVIOUS
  <2>3. QED
    BY <2>1, <2>2
<1>4. QED
  BY <1>1, <1>2, <1>3 DEF Listlike

LEMMA ContentInit == Init => ContentInv
<1> SUFFICES ASSUME Init PROVE ContentInv
  OBVIOUS
<1>1. /\ setup \in Setups /\ plan = <<>> /\ pass = [r \in Ranks |-> 0]
      /\ second = [r \in Ranks |-> FALSE] /\ chan = [p \in Ranks \X Ranks |-> <<>>]
      /\ stage = "flags" /\ round = 0 /\ aborted = FALSE
      /\ loc = [r \in Ranks |-> <<>>] /\ todo = [r \in Ranks |-> <<>>]
      /\ got = [r \in Ranks |-> <<>>] /\ interior = [r \in Ranks |-> <<>>]
      /\ partners = [r \in Ranks |-> {}]
  BY DEF Init
<1>2. /\ local_ids = [r \in Ranks |-> [q \in Ranks |-> <<>>]]
      /\ n_dist = [r \in Ranks |-> [q \in Ranks |-> 0]]
      /\ distants = [r \in Ranks |-> [q \in Ranks |-> <<>>]]
  BY DEF Init, Rel
<1>3. Staged
  <2>1. ASSUME NEW r \in Ranks PROVE pass[r] + 1 .. Len(plan) = {}
    <3>1. pass[r] = 0 /\ Len(plan) = 0
      BY <1>1
    <3>2. 0 + 1 .. 0 = {}
      OBVIOUS
    <3>3. QED
      BY <3>1, <3>2
  <2>2. QED
    BY <1>1, <2>1 DEF Staged, Stages
<1>4. Sized
  <2>1. ByRank(loc) /\ ByRank(todo) /\ ByRank(got) /\ ByRank(interior)
    BY <1>1 DEF ByRank
  <2>2. ByRank(local_ids) /\ ByRank(n_dist) /\ ByRank(distants)
    BY <1>2 DEF ByRank
  <2>3. ASSUME NEW r \in Ranks
        PROVE  /\ partners[r] = {} /\ loc[r] = <<>> /\ todo[r] = <<>> /\ interior[r] = <<>>
               /\ ByRank(local_ids[r]) /\ ByRank(n_dist[r]) /\ ByRank(distants[r])
               /\ \A q \in Ranks : local_ids[r][q] = <<>> /\ distants[r][q] = <<>>
    BY <1>1, <1>2 DEF ByRank
  <2>4. \A r \in Ranks : Len(setup.pts[r]) \in Nat
    BY <1>1, PointLists
  <2>5. Listlike(<<>>) /\ Len(<<>>) = 0 /\ DOMAIN <<>> = {}
    BY NothingListed
  <2>6. ASSUME NEW r \in Ranks
        PROVE  /\ partners[r] \subseteq setup.far[r]
               /\ DOMAIN loc[r] \in {{}, DOMAIN setup.pts[r]}
               /\ todo[r] \in Seq(DOMAIN setup.pts[r]) /\ Len(todo[r]) <= Len(setup.pts[r])
               /\ interior[r] \in Seq(DOMAIN setup.pts[r])
               /\ Len(interior[r]) <= Len(setup.pts[r])
               /\ \A q \in Ranks : /\ Listlike(local_ids[r][q]) /\ Listlike(distants[r][q])
                                   /\ Len(local_ids[r][q]) <= Len(interior[r])
    <3>1. <<>> \in Seq(DOMAIN setup.pts[r])
      BY NothingListed
    <3>2. DOMAIN loc[r] = {}
      BY <2>3, <2>5
    <3>3. \A q \in Ranks : Listlike(local_ids[r][q]) /\ Listlike(distants[r][q])
      BY <2>3, <2>5
    <3>4. Len(todo[r]) = 0 /\ Len(interior[r]) = 0 /\ \A q \in Ranks : Len(local_ids[r][q]) = 0
      BY <2>3, <2>5
    <3>5. todo[r] \in Seq(DOMAIN setup.pts[r]) /\ interior[r] \in Seq(DOMAIN setup.pts[r])
      BY <2>3, <3>1, Zenon
    <3>6. /\ Len(todo[r]) <= Len(setup.pts[r]) /\ Len(interior[r]) <= Len(setup.pts[r])
          /\ \A q \in Ranks : Len(local_ids[r][q]) <= Len(interior[r])
      BY <2>4, <3>4
    <3>7. partners[r] \subseteq setup.far[r]
      BY <2>3
    <3>8. QED
      BY <3>2, <3>3, <3>5, <3>6, <3>7
  <2>7. QED
    BY <2>1, <2>2, <2>3, <2>6 DEF Sized
<1>5. Lists
  <2>1. \A r, q \in Ranks : local_ids[r][q] = <<>> /\ distants[r][q] = <<>>
    BY <1>2
  <2>2. QED
    BY <1>1, <2>1 DEF Lists, Matched
<1>6. Spoken /\ Heard
  <2>1. \A q, r \in Ranks : Range(chan[<<q, r>>]) = {}
    BY <1>1, NothingListed DEF Range
  <2>2. QED
    BY <1>1, <2>1 DEF Spoken, Heard
<1>7. QED
  BY <1>3, <1>4, <1>5, <1>6 DEF ContentInv

\* What all collective operations do: nothing is under way, and the loops to come are
\* those that they decide on.
LEMMA DecideStage ==
  ASSUME LocatorInv, Theory!LoopInv, Staged, NEW next \in Stages,
         NEW loops, PlanOK(loops), Decide(next, loops), round' \in Nat,
         \A j \in 1 .. Len(loops) :
           /\ loops[j].phase \in PhasesOf[next]
           /\ next # "ranks" => loops[j].with = partners'
           /\ loops[j].phase = "counts" => j < Len(loops) /\ loops[j + 1].phase = "points"
           /\ loops[j].phase = "points" => j = Len(loops)
  PROVE  /\ Staged' /\ Spoken' /\ Heard'
         /\ \A r \in Ranks : pass[r] = Len(plan) /\ pass'[r] = Len(plan)
         /\ Len(plan) \in Nat /\ Len(loops) \in Nat
         /\ Len(plan') = Len(plan) + Len(loops)
         /\ \A j \in 1 .. Len(loops) : plan'[Len(plan) + j] = loops[j]
<1>1. /\ \A r \in Ranks : pass[r] = Len(plan)
      /\ stage' = next /\ plan' = plan \o loops
      /\ UNCHANGED <<chan, pass, second, got, aborted>>
  BY DEF Decide
<1>2. PlanOK(plan)
  BY DEF LocatorInv
<1>3. /\ Len(plan) \in Nat /\ Len(loops) \in Nat /\ Len(plan') = Len(plan) + Len(loops)
      /\ \A j \in 1 .. Len(loops) : plan'[Len(plan) + j] = loops[j]
  <2>1. plan \in Seq(Entries) /\ loops \in Seq(Entries)
    BY <1>2 DEF PlanOK
  <2>2. Len(plan) \in Nat /\ Len(loops) \in Nat
    BY <2>1
  <2>3. /\ Len(plan \o loops) = Len(plan) + Len(loops)
        /\ \A i \in 1 .. Len(plan) + Len(loops) :
             (plan \o loops)[i] = IF i <= Len(plan) THEN plan[i] ELSE loops[i - Len(plan)]
    BY <2>1, ConcatProperties
  <2>4. ASSUME NEW j \in 1 .. Len(loops) PROVE (plan \o loops)[Len(plan) + j] = loops[j]
    <3>1. /\ Len(plan) + j \in 1 .. Len(plan) + Len(loops) /\ ~(Len(plan) + j <= Len(plan))
          /\ (Len(plan) + j) - Len(plan) = j
      BY <2>2
    <3>2. QED
      BY <2>3, <3>1
  <2>5. QED
    BY <1>1, <2>2, <2>3, <2>4
<1>4. ASSUME NEW r \in Ranks, NEW k \in pass'[r] + 1 .. Len(plan')
      PROVE  /\ plan'[k].phase \in PhasesOf[next]
             /\ next # "ranks" => plan'[k].with = partners'
             /\ plan'[k].phase = "counts" => k < Len(plan') /\ plan'[k + 1].phase = "points"
             /\ plan'[k].phase = "points" => k = Len(plan')
  <2>1. PICK j \in 1 .. Len(loops) : k = Len(plan) + j
    <3>1. pass'[r] = Len(plan)
      BY <1>1
    <3>2. k - Len(plan) \in 1 .. Len(loops) /\ k = Len(plan) + (k - Len(plan))
      BY <1>3, <3>1
    <3>3. QED
      BY <3>2
  <2>2. plan'[k] = loops[j] /\ (j = Len(loops) => k = Len(plan'))
    BY <1>3, <2>1
  <2>3. j < Len(loops) => k < Len(plan') /\ plan'[k + 1] = loops[j + 1]
    <3>1. j < Len(loops) => /\ j + 1 \in 1 .. Len(loops) /\ k + 1 = Len(plan) + (j + 1)
                            /\ k < Len(plan')
      BY <1>3, <2>1
    <3>2. QED
      BY <1>3, <3>1
  <2>4. QED
    BY <2>2, <2>3
<1>5. Staged'
  BY <1>1, <1>4 DEF Staged
<1>6. \A q, r \in Ranks : second[r] = FALSE /\ Range(chan[<<q, r>>]) = {}
  BY <1>1, AllGathered
<1>7. Spoken' /\ Heard'
  <2>1. \A q, r \in Ranks : second'[r] = FALSE /\ Range(chan'[<<q, r>>]) = {}
    BY <1>1, <1>6
  <2>2. QED
    BY <2>1 DEF Spoken, Heard
<1>8. QED
  BY <1>1, <1>3, <1>5, <1>7

\* The search starts again from what the lists say, or there is nothing to locate.
LEMMA ContentFlags ==
  ASSUME LocatorInv, Theory!LoopInv, ContentInv, Flags
  PROVE  ContentInv'
<1>1. /\ loc' = [r \in Ranks |-> [p \in DOMAIN setup.pts[r] |-> Unlocated]]
      /\ UNCHANGED <<round, todo, partners, interior, local_ids, n_dist, distants>>
      /\ stage = "flags"
  BY DEF Flags, lists
<1>2. /\ Staged /\ Sized /\ Lists /\ setup \in Setups
      /\ partners \in [Ranks -> SUBSET Ranks] /\ Loop!Symmetric(partners)
  BY DEF ContentInv, LocatorInv, Related
<1>3. round' \in Nat
  BY <1>1, <1>2 DEF Staged
<1>4. UNCHANGED <<setup, got>>
  BY DEF Flags, Decide
<1>5. Sized'
  <2>1. ByRank(loc)' /\ \A r \in Ranks : DOMAIN loc'[r] = DOMAIN setup.pts[r]
    BY <1>1 DEF ByRank
  <2>2. /\ (ByRank(todo) /\ ByRank(got) /\ ByRank(interior))'
        /\ (ByRank(local_ids) /\ ByRank(n_dist) /\ ByRank(distants))'
    BY <1>1, <1>2, <1>4 DEF Sized, ByRank
  <2>3. \A r \in Ranks : (ByRank(local_ids[r]) /\ ByRank(n_dist[r]) /\ ByRank(distants[r]))'
    BY <1>1, <1>2 DEF Sized, ByRank
  <2>4. \A r, q \in Ranks : (Listlike(local_ids[r][q]) /\ Listlike(distants[r][q]))'
    BY <1>1, <1>2 DEF Sized, Listlike
  <2>5. QED
    BY <1>1, <1>2, <1>4, <2>1, <2>2, <2>3, <2>4 DEF Sized
<1>6. \A r, q \in Ranks : Matched(r, q)
  BY <1>1, <1>2 DEF Lists
<1>7. CASE \A r \in Ranks : setup.pts[r] = <<>>
  <2>1. Decide("located", <<>>)
    BY <1>7 DEF Flags
  <2>2. PlanOK(<<>>) /\ Len(<<>>) = 0 /\ "located" \in Stages /\ 1 .. 0 = {}
    BY NoPlan DEF Stages
  <2>3. /\ Staged' /\ Spoken' /\ Heard' /\ Len(plan) \in Nat /\ Len(plan') = Len(plan) + 0
        /\ \A r \in Ranks : pass'[r] = Len(plan)
    BY <1>2, <1>3, <2>1, <2>2, DecideStage
  <2>4. stage' = "located"
    BY <2>1 DEF Decide
  <2>5. ASSUME NEW r \in Ranks, NEW q \in Ranks PROVE Filling(r, q)'
    <3>1. \A s, t \in Ranks : local_ids[s][t] = <<>> /\ Len(interior[s]) = 0
      <4> TAKE s, t \in Ranks
      <4>1. Len(setup.pts[s]) = 0
        BY <1>7
      <4>2. /\ Listlike(local_ids[s][t]) /\ Len(local_ids[s][t]) <= Len(interior[s])
            /\ Len(interior[s]) <= Len(setup.pts[s]) /\ interior[s] \in Seq(DOMAIN setup.pts[s])
        BY <1>2 DEF Sized
      <4>3. Len(local_ids[s][t]) \in Nat /\ Len(interior[s]) \in Nat
        BY <4>2 DEF Listlike
      <4>4. Len(local_ids[s][t]) = 0 /\ Len(interior[s]) = 0
        BY <4>1, <4>2, <4>3
      <4>5. QED
        BY <4>2, <4>4, NothingListed
    <3>2. distants[r][q] = <<>>
      <4>1. Len(distants[r][q]) = 0
        BY <1>6, <3>1 DEF Matched
      <4>2. Listlike(distants[r][q])
        BY <1>2 DEF Sized
      <4>3. QED
        BY <4>1, <4>2, NothingListed
    <3>3. \A s, t \in Ranks : PointsOn(s, t)' = <<>>
      <4> TAKE s, t \in Ranks
      <4>1. DOMAIN loc'[s] = {}
        BY <1>1, <1>7, NothingListed
      <4>2. PointsOn(s, t)' = Ascending({})
        BY <4>1 DEF PointsOn
      <4>3. Ascending({}) = <<>>
        <5>1. Cardinality({}) = 0
          BY FS_EmptySet
        <5>2. QED
          BY <5>1 DEF Ascending
      <4>4. QED
        BY <4>2, <4>3
    <3>4. Told(q, r)' = <<>>
      <4>1. PointsOn(q, r)' = <<>>
        BY <3>3
      <4>2. QED
        BY <4>1 DEF Told
    <3>5. ~HasCount(r, q)'
      BY <2>3 DEF HasCount
    <3>6. QED
      BY <1>1, <3>1, <3>2, <3>3, <3>4, <3>5, NothingListed DEF Filling
  <2>6. Lists'
    BY <2>4, <2>5 DEF Lists
  <2>7. QED
    BY <1>5, <2>3, <2>6 DEF ContentInv
<1>8. CASE ~(\A r \in Ranks : setup.pts[r] = <<>>)
  <2> DEFINE o == Once(partners, "transfer")
  <2>1. Decide("extents", o)
    BY <1>8 DEF Flags
  <2>2. PlanOK(o) /\ Len(o) = 1 /\ o[1] = Entry(partners, "transfer", "only", 0)
    BY <1>2, OncePlan DEF Single
  <2>3. o[1].phase = "transfer" /\ o[1].with = partners'
    BY <1>1, <2>2 DEF Entry
  <2> HIDE DEF o
  <2>4. Staged' /\ Spoken' /\ Heard'
    <3>1. \A j \in 1 .. Len(o) : /\ o[j].phase = "transfer" /\ o[j].with = partners'
                                 /\ o[j].phase \in PhasesOf["extents"]
      BY <2>2, <2>3 DEF PhasesOf
    <3>2. "extents" \in Stages
      BY DEF Stages
    <3>3. QED
      BY <1>2, <1>3, <2>1, <2>2, <3>1, <3>2, DecideStage
  <2>5. stage' = "extents"
    BY <2>1 DEF Decide
  <2>6. Lists'
    BY <1>1, <1>6, <2>5 DEF Lists, Matched
  <2>7. QED
    BY <1>5, <2>4, <2>6 DEF ContentInv
<1>9. QED
  BY <1>7, <1>8

\* The lists are made empty, the points without location are listed.
LEMMA ContentGather ==
  ASSUME LocatorInv, Theory!LoopInv, ContentInv, GatherExtents
  PROVE  ContentInv'
<1> DEFINE w == Intersects([r \in Ranks |-> Len(todo'[r])])
           b == Both(w, "search")
<1>1. /\ todo' = [r \in Ranks |-> Ascending({p \in DOMAIN loc[r] : loc[r][p].elt < 0})]
      /\ partners' = [r \in Ranks |-> {}] /\ interior' = [r \in Ranks |-> <<>>]
      /\ local_ids' = Rel(<<>>) /\ n_dist' = Rel(0) /\ distants' = Rel(<<>>)
      /\ UNCHANGED <<round, loc>> /\ Decide("ranks", b)
  BY DEF GatherExtents
<1>2. Staged /\ Sized /\ setup \in Setups
  BY DEF ContentInv, LocatorInv
<1>3. w \in [Ranks -> SUBSET Ranks] /\ Loop!Symmetric(w)
  BY <1>2, IntersectsSymmetric
<1> HIDE DEF w
<1>4. /\ PlanOK(b) /\ Len(b) = 2 /\ b[1] = Entry(w, "search", "first", 0)
      /\ b[2] = Entry(w, "search", "second", 0)
  BY <1>3, BothPlan
<1>5. b[1].phase = "search" /\ b[2].phase = "search"
  BY <1>4 DEF Entry
<1> HIDE DEF b
<1>6. Staged' /\ Spoken' /\ Heard'
  <2>1. \A j \in 1 .. Len(b) : b[j].phase = "search" /\ b[j].phase \in PhasesOf["ranks"]
    <3>1. \A j \in 1 .. Len(b) : j = 1 \/ j = 2
      BY <1>4
    <3>2. QED
      BY <1>5, <3>1 DEF PhasesOf
  <2>2. round' \in Nat /\ "ranks" \in Stages
    BY <1>1, <1>2 DEF Staged, Stages
  <2>3. QED
    BY <1>1, <1>2, <1>4, <2>1, <2>2, DecideStage
<1>7. stage' = "ranks" /\ UNCHANGED <<setup, got>>
  BY <1>1 DEF Decide
<1>8. /\ \A r, q \in Ranks : local_ids'[r][q] = <<>> /\ distants'[r][q] = <<>>
      /\ ByRank(local_ids)' /\ ByRank(n_dist)' /\ ByRank(distants)'
      /\ \A r \in Ranks : ByRank(local_ids[r])' /\ ByRank(n_dist[r])' /\ ByRank(distants[r])'
  BY <1>1 DEF Rel, ByRank
<1>9. Lists'
  BY <1>7, <1>8 DEF Lists, Matched
<1>10. Sized'
  <2>1. ByRank(loc)' /\ ByRank(todo)' /\ ByRank(got)' /\ ByRank(interior)'
    BY <1>1, <1>2, <1>7 DEF Sized, ByRank
  <2>2. ASSUME NEW r \in Ranks
        PROVE  /\ partners'[r] \subseteq setup'.far[r]
               /\ DOMAIN loc'[r] \in {{}, DOMAIN setup'.pts[r]}
               /\ todo'[r] \in Seq(DOMAIN setup'.pts[r])
               /\ Len(todo'[r]) <= Len(setup'.pts[r])
               /\ interior'[r] \in Seq(DOMAIN setup'.pts[r])
               /\ Len(interior'[r]) <= Len(setup'.pts[r])
               /\ \A q \in Ranks : /\ Listlike(local_ids'[r][q]) /\ Listlike(distants'[r][q])
                                   /\ Len(local_ids'[r][q]) <= Len(interior'[r])
    <3> DEFINE S == {p \in DOMAIN loc[r] : loc[r][p].elt < 0}
    <3>1. /\ setup.pts[r] \in Seq(Int) /\ Len(setup.pts[r]) \in Nat
          /\ DOMAIN loc[r] \in {{}, DOMAIN setup.pts[r]}
      BY <1>2, PointLists DEF Sized
    <3>2. todo'[r] = Ascending(S) /\ S \subseteq DOMAIN loc[r]
      BY <1>1
    <3> HIDE DEF S
    <3>3. todo'[r] \in Seq(DOMAIN setup.pts[r]) /\ Len(todo'[r]) <= Len(setup.pts[r])
      BY <3>1, <3>2, SomePoints
    <3>4. interior'[r] = <<>> /\ Len(interior'[r]) = 0 /\ partners'[r] = {}
      BY <1>1, NothingListed
    <3>5. \A q \in Ranks : /\ Listlike(local_ids'[r][q]) /\ Listlike(distants'[r][q])
                           /\ Len(local_ids'[r][q]) = 0
      BY <1>8, NothingListed
    <3>6. interior'[r] \in Seq(DOMAIN setup.pts[r]) /\ Len(interior'[r]) <= Len(setup.pts[r])
      BY <3>1, <3>4, NothingListed
    <3>7. UNCHANGED <<setup, loc>>
      BY <1>1, <1>7
    <3>8. \A q \in Ranks : Len(local_ids'[r][q]) <= Len(interior'[r])
      BY <3>4, <3>5
    <3>9. QED
      BY <3>1, <3>3, <3>4, <3>5, <3>6, <3>7, <3>8
  <2>3. QED
    BY <1>8, <2>1, <2>2 DEF Sized
<1>11. QED
  BY <1>6, <1>9, <1>10 DEF ContentInv

\* Each rank lists the points it has located: at least those located on any one rank.
LEMMA ContentRanks ==
  ASSUME LocatorInv, Theory!LoopInv, ContentInv, LocationRanks
  PROVE  ContentInv'
<1> DEFINE a == Once(partners', "counts")
           b == Once(partners', "points")
           ab == a \o b
<1>1. /\ partners' = [r \in Ranks |-> {q \in setup.far[r] : Linked(r, q)}]
      /\ interior' = [r \in Ranks |-> Ascending({p \in DOMAIN loc[r] : loc[r][p].rank > -1})]
      /\ stage = "ranks" /\ Decide("located", ab)
      /\ UNCHANGED <<round, loc, todo, local_ids, n_dist, distants>>
  BY DEF LocationRanks
<1>2. Staged /\ Sized /\ Lists /\ setup \in Setups
  BY DEF ContentInv, LocatorInv
<1>3. partners' \in [Ranks -> SUBSET Ranks] /\ Loop!Symmetric(partners')
  BY <1>1, <1>2, LinkedSymmetric
<1>4. /\ PlanOK(ab) /\ Len(ab) = 2
      /\ ab[1] = Entry(partners', "counts", "only", 0)
      /\ ab[2] = Entry(partners', "points", "only", 0)
  <2>1. /\ PlanOK(a) /\ Len(a) = 1 /\ a[1] = Entry(partners', "counts", "only", 0)
        /\ PlanOK(b) /\ Len(b) = 1 /\ b[1] = Entry(partners', "points", "only", 0)
    BY <1>3, OncePlan DEF Single
  <2> HIDE DEF a, b
  <2>2. a \in Seq(Entries) /\ b \in Seq(Entries)
    BY <2>1 DEF PlanOK
  <2>3. /\ Len(a \o b) = Len(a) + Len(b)
        /\ \A i \in 1 .. Len(a) + Len(b) : (a \o b)[i] = IF i <= Len(a) THEN a[i]
                                                         ELSE b[i - Len(a)]
    BY <2>2, ConcatProperties
  <2>4. (a \o b)[1] = a[1] /\ (a \o b)[2] = b[1] /\ Len(a \o b) = 2
    <3>1. 1 \in 1 .. 2 /\ 2 \in 1 .. 2 /\ 1 <= 1 /\ ~(2 <= 1) /\ 2 - 1 = 1 /\ 1 + 1 = 2
      OBVIOUS
    <3>2. QED
      BY <2>1, <2>3, <3>1
  <2>5. QED
    BY <2>1, <2>4, PlanAppend
<1>5. /\ ab[1].phase = "counts" /\ ab[1].with = partners'
      /\ ab[2].phase = "points" /\ ab[2].with = partners'
  BY <1>4 DEF Entry
<1> HIDE DEF a, b, ab
<1>6. /\ Staged' /\ Spoken' /\ Heard'
      /\ \A r \in Ranks : pass[r] = Len(plan) /\ pass'[r] = Len(plan)
      /\ Len(plan) \in Nat /\ Len(plan') = Len(plan) + 2 /\ plan'[Len(plan) + 1] = ab[1]
  <2>1. "located" \in Stages /\ round' \in Nat
    BY <1>1, <1>2 DEF Staged, Stages
  <2>2. 1 \in 1 .. Len(ab) /\ \A j \in 1 .. Len(ab) : (j = 1 /\ j + 1 = 2) \/ j = 2
    <3>1. \A j \in 1 .. 2 : (j = 1 /\ j + 1 = 2) \/ j = 2
      OBVIOUS
    <3>2. QED
      BY <1>4, <3>1
  <2>3. \A j \in 1 .. Len(ab) :
          /\ ab[j].phase \in PhasesOf["located"] /\ ab[j].with = partners'
          /\ ab[j].phase = "counts" => j < Len(ab) /\ ab[j + 1].phase = "points"
          /\ ab[j].phase = "points" => j = Len(ab)
    BY <1>4, <1>5, <2>2 DEF PhasesOf
  <2>4. /\ Staged' /\ Spoken' /\ Heard'
        /\ \A r \in Ranks : pass[r] = Len(plan) /\ pass'[r] = Len(plan)
        /\ Len(plan) \in Nat /\ Len(plan') = Len(plan) + Len(ab)
        /\ \A j \in 1 .. Len(ab) : plan'[Len(plan) + j] = ab[j]
    <3>1. Decide("located", ab) /\ PlanOK(ab) /\ Staged
      BY <1>1, <1>2, <1>4
    <3>2. QED
      BY <2>1, <2>3, <3>1, DecideStage
  <2>5. QED
    BY <1>4, <2>2, <2>4
<1>7. stage' = "located" /\ UNCHANGED <<setup, got>>
  BY <1>1 DEF Decide
<1>8. ASSUME NEW r \in Ranks
      PROVE  /\ interior'[r] \in Seq(DOMAIN setup.pts[r])
             /\ Len(interior'[r]) \in Nat /\ Len(interior'[r]) <= Len(setup.pts[r])
             /\ \A q \in Ranks : Len(PointsOn(r, q)') <= Len(interior'[r])
  <2> DEFINE S == {p \in DOMAIN loc[r] : loc[r][p].rank > -1}
  <2>1. setup.pts[r] \in Seq(Int) /\ DOMAIN loc[r] \in {{}, DOMAIN setup.pts[r]}
    BY <1>2, PointLists DEF Sized
  <2>2. interior'[r] = Ascending(S) /\ S \subseteq DOMAIN loc[r]
    BY <1>1
  <2>3. ASSUME NEW q \in Ranks PROVE Len(PointsOn(r, q)') <= Len(Ascending(S))
    <3> DEFINE T == {p \in DOMAIN loc[r] : loc[r][p].rank = q}
    <3>1. PointsOn(r, q)' = Ascending(T)
      BY <1>1 DEF PointsOn
    <3>2. T \in SUBSET S
      <4>1. q > -1
        BY RanksAssumption
      <4>2. QED
        BY <4>1
    <3>3. T \subseteq DOMAIN loc[r]
      OBVIOUS
    <3> HIDE DEF S, T
    <3>4. IsFiniteSet(S) /\ Len(Ascending(S)) = Cardinality(S)
      BY <2>1, <2>2, SomePoints
    <3>5. Len(Ascending(T)) = Cardinality(T)
      BY <2>1, <3>3, SomePoints
    <3>6. Cardinality(T) <= Cardinality(S)
      BY <3>2, <3>4, FS_Subset
    <3>7. QED
      BY <3>1, <3>4, <3>5, <3>6
  <2> HIDE DEF S
  <2>4. QED
    BY <2>1, <2>2, <2>3, SomePoints
<1>9. \A r, q \in Ranks : local_ids[r][q] = <<>> /\ distants[r][q] = <<>>
  BY <1>1, <1>2 DEF Lists, Matched
<1>10. Sized'
  <2>1. (ByRank(loc) /\ ByRank(todo) /\ ByRank(got) /\ ByRank(interior))'
    BY <1>1, <1>2, <1>7 DEF Sized, ByRank
  <2>2. (ByRank(local_ids) /\ ByRank(n_dist) /\ ByRank(distants))'
    BY <1>1, <1>2 DEF Sized, ByRank
  <2>3. \A r \in Ranks : (ByRank(local_ids[r]) /\ ByRank(n_dist[r]) /\ ByRank(distants[r]))'
    BY <1>1, <1>2 DEF Sized, ByRank
  <2>4. \A r \in Ranks : partners'[r] \subseteq setup.far[r]
    BY <1>1
  <2>5. \A r, q \in Ranks : /\ (Listlike(local_ids[r][q]) /\ Listlike(distants[r][q]))'
                            /\ Len(local_ids'[r][q]) <= Len(interior'[r])
    <3>1. \A r, q \in Ranks : local_ids'[r][q] = <<>> /\ distants'[r][q] = <<>>
      BY <1>1, <1>9
    <3>2. Len(<<>>) = 0 /\ \A r \in Ranks : 0 <= Len(interior'[r])
      BY <1>8
    <3>3. QED
      BY <3>1, <3>2, NothingListed DEF Listlike
  <2>6. \A r \in Ranks : /\ DOMAIN loc'[r] \in {{}, DOMAIN setup.pts[r]}
                         /\ todo'[r] \in Seq(DOMAIN setup.pts[r])
                         /\ Len(todo'[r]) <= Len(setup.pts[r])
    BY <1>1, <1>2 DEF Sized
  <2>7. QED
    BY <1>7, <1>8, <2>1, <2>2, <2>3, <2>4, <2>5, <2>6 DEF Sized
<1>11. ASSUME NEW r \in Ranks, NEW q \in Ranks PROVE Filling(r, q)'
  <2>1. pass'[r] < Len(plan') /\ At(r, "counts")' /\ ~At(r, "points")'
    BY <1>5, <1>6 DEF At
  <2>2. q \in partners'[r] => q \in left'[r]
    <3>1. left' = [s \in Ranks |-> Loop!Begins(plan', pass[s], s)]
      BY <1>1 DEF Decide
    <3>2. left'[r] = partners'[r]
      BY <1>5, <1>6, <2>1, <3>1 DEF Loop!Begins
    <3>3. QED
      BY <3>2
  <2>3. ~HasCount(r, q)' /\ ~HasList(r, q)'
    BY <2>1, <2>2 DEF HasCount, HasList
  <2>4. QED
    BY <1>1, <1>8, <1>9, <2>3 DEF Filling
<1>12. Lists'
  BY <1>7, <1>11 DEF Lists
<1>13. QED
  BY <1>6, <1>10, <1>12 DEF ContentInv

\* The lists of the two ends have been exchanged.
LEMMA FilledMatched ==
  ASSUME Sized, Lists, setup \in Setups, Related, stage = "located",
         \A r \in Ranks : pass[r] = Len(plan), Len(plan) \in Nat
  PROVE  \A r, q \in Ranks : Len(distants[r][q]) = Len(local_ids[q][r])
<1> TAKE r, q \in Ranks
<1>1. Filling(r, q) /\ Filling(q, r)
  BY DEF Lists
<1>2. q \in partners[r] <=> r \in partners[q]
  BY DEF Related, Loop!Symmetric
<1>3. HasList(r, q) <=> HasList(q, r)
  BY <1>2 DEF HasList
<1>4. CASE HasList(r, q)
  <2>1. distants[r][q] = Told(q, r) /\ local_ids[q][r] = PointsOn(q, r)
    BY <1>1, <1>3, <1>4 DEF Filling
  <2>2. Len(PointsOn(q, r)) \in Nat /\ DOMAIN PointsOn(q, r) = 1 .. Len(PointsOn(q, r))
    BY PointLists, SomePoints DEF Sized, PointsOn
  <2>3. Len(Told(q, r)) = Len(PointsOn(q, r))
    BY <2>2 DEF Told
  <2>4. QED
    BY <2>1, <2>3
<1>5. CASE ~HasList(r, q)
  BY <1>1, <1>3, <1>5 DEF Filling
<1>6. QED
  BY <1>4, <1>5

LEMMA ContentLocated ==
  ASSUME LocatorInv, Theory!LoopInv, ContentInv, Located
  PROVE  ContentInv'
<1> DEFINE more == setup.nearest /\ \E r \in Ranks : Len(interior[r]) < Len(setup.pts[r])
<1>1. /\ stage = "located"
      /\ local_ids' = [r \in Ranks |-> [q \in Ranks |->
                         [k \in DOMAIN local_ids[r][q] |-> Reduced(r, local_ids[r][q][k])]]]
      /\ UNCHANGED <<loc, todo, partners, interior, n_dist, distants>>
      /\ IF more THEN round' = round + 1 /\ Decide("flags", <<>>)
         ELSE Decide("done", Exchanges(partners)) /\ UNCHANGED round
  BY DEF Located
<1> HIDE DEF more
<1>2. /\ Staged /\ Sized /\ Lists /\ setup \in Setups /\ Related
      /\ partners \in [Ranks -> SUBSET Ranks] /\ Loop!Symmetric(partners)
  BY DEF ContentInv, LocatorInv, Related
<1>3. /\ Staged' /\ Spoken' /\ Heard' /\ Len(plan) \in Nat
      /\ \A r \in Ranks : pass[r] = Len(plan)
      /\ stage' \in {"flags", "done"}
  <2>1. CASE more
    <3>1. PlanOK(<<>>) /\ Len(<<>>) = 0 /\ "flags" \in Stages /\ 1 .. 0 = {}
      BY NoPlan DEF Stages
    <3>2. round' \in Nat /\ Decide("flags", <<>>) /\ stage' = "flags"
      BY <1>1, <1>2, <2>1 DEF Staged, Decide
    <3>3. QED
      BY <1>2, <3>1, <3>2, DecideStage
  <2>2. CASE ~more
    <3> DEFINE e == Exchanges(partners)
    <3>1. /\ PlanOK(e)
          /\ \A k \in 1 .. Len(e) : e[k].phase = "exchange" /\ e[k].with = partners
      BY <1>2, ExchangesPlan
    <3> HIDE DEF e
    <3>2. "done" \in Stages /\ "exchange" \in PhasesOf["done"]
      BY DEF Stages, PhasesOf
    <3>3. round' \in Nat /\ Decide("done", e) /\ stage' = "done"
      BY <1>1, <1>2, <2>2 DEF Staged, Decide, e
    <3>4. QED
      BY <1>1, <1>2, <3>1, <3>2, <3>3, DecideStage
  <2>3. QED
    BY <2>1, <2>2
<1>4. UNCHANGED <<setup, got>>
  BY <1>1 DEF Decide
<1>5. ASSUME NEW r \in Ranks, NEW q \in Ranks
      PROVE  Listlike(local_ids'[r][q]) /\ Len(local_ids'[r][q]) = Len(local_ids[r][q])
  <2>1. Len(local_ids[r][q]) \in Nat /\ DOMAIN local_ids[r][q] = 1 .. Len(local_ids[r][q])
    BY <1>2 DEF Sized, Listlike
  <2>2. local_ids'[r][q] = [k \in 1 .. Len(local_ids[r][q]) |-> Reduced(r, local_ids[r][q][k])]
    BY <1>1, <2>1
  <2> DEFINE s == local_ids'[r][q]
  <2>3. DOMAIN s = 1 .. Len(local_ids[r][q]) /\ s = [k \in DOMAIN s |-> s[k]]
    BY <2>2
  <2> HIDE DEF s
  <2>4. Listlike(s) /\ Len(s) = Len(local_ids[r][q])
    BY <2>1, <2>3, ListOfLength
  <2>5. QED
    BY <2>4 DEF s
<1>6. Lists'
  <2>1. \A r, q \in Ranks : Len(distants[r][q]) = Len(local_ids[q][r])
    BY <1>1, <1>2, <1>3, FilledMatched
  <2>2. \A r, q \in Ranks : Len(distants'[r][q]) = Len(local_ids'[q][r])
    BY <1>1, <1>5, <2>1
  <2>3. QED
    BY <1>3, <2>2 DEF Lists, Matched
<1>7. Sized'
  <2>1. (ByRank(loc) /\ ByRank(todo) /\ ByRank(got) /\ ByRank(interior))'
    BY <1>1, <1>2, <1>4 DEF Sized, ByRank
  <2>2. (ByRank(local_ids) /\ ByRank(n_dist) /\ ByRank(distants))'
    BY <1>1, <1>2 DEF Sized, ByRank
  <2>3. \A r \in Ranks : (ByRank(local_ids[r]) /\ ByRank(n_dist[r]) /\ ByRank(distants[r]))'
    BY <1>1, <1>2 DEF Sized, ByRank
  <2>4. ASSUME NEW r \in Ranks, NEW q \in Ranks
        PROVE  /\ (Listlike(local_ids[r][q]) /\ Listlike(distants[r][q]))'
               /\ Len(local_ids'[r][q]) <= Len(interior'[r])
    <3>1. Listlike(distants[r][q]) /\ Len(local_ids[r][q]) <= Len(interior[r])
      BY <1>2 DEF Sized
    <3>2. distants' = distants /\ interior' = interior
      BY <1>1
    <3>3. Listlike(local_ids'[r][q]) /\ Len(local_ids'[r][q]) = Len(local_ids[r][q])
      BY <1>5
    <3>4. QED
      BY <3>1, <3>2, <3>3
  <2>5. \A r \in Ranks :
          /\ partners'[r] \subseteq setup.far[r]
          /\ DOMAIN loc'[r] \in {{}, DOMAIN setup.pts[r]}
          /\ todo'[r] \in Seq(DOMAIN setup.pts[r]) /\ Len(todo'[r]) <= Len(setup.pts[r])
          /\ interior'[r] \in Seq(DOMAIN setup.pts[r])
          /\ Len(interior'[r]) <= Len(setup.pts[r])
    BY <1>1, <1>2 DEF Sized
  <2>6. QED
    BY <1>4, <2>1, <2>2, <2>3, <2>4, <2>5 DEF Sized
<1>8. QED
  BY <1>3, <1>6, <1>7 DEF ContentInv

-------------------------------------------------------------------------------
\* The phases that a stage allows.
LEMMA StagePhases ==
  ASSUME Staged, NEW ph, ph \in PhasesOf[stage]
  PROVE  /\ ph \in Phases
         /\ ph = "transfer" <=> stage = "extents"
         /\ ph = "search" <=> stage = "ranks"
         /\ ph \in {"counts", "points"} <=> stage = "located"
         /\ ph = "exchange" <=> stage = "done"
<1>1. /\ PhasesOf["flags"] = {} /\ PhasesOf["extents"] = {"transfer"}
      /\ PhasesOf["ranks"] = {"search"} /\ PhasesOf["located"] = {"counts", "points"}
      /\ PhasesOf["done"] = {"exchange"}
  BY DEF PhasesOf
<1>2. stage \in {"flags", "extents", "ranks", "located", "done"}
  BY DEF Staged, Stages
<1>3. QED
  BY <1>1, <1>2 DEF Phases

\* The exchanges that are under way, and those that a rank is at, are of this stage.
LEMMA StageOf ==
  ASSUME LocatorInv, Theory!LoopInv, Staged, NEW r \in Ranks, NEW k \in Nat,
         pass[r] <= k, k < Len(plan)
  PROVE  plan[k + 1].phase \in PhasesOf[stage]
<1>1. pass[r] \in Nat /\ Len(plan) \in Nat
  BY RanksPlaced DEF Placed
<1>2. k + 1 \in pass[r] + 1 .. Len(plan)
  BY <1>1
<1>3. QED
  BY <1>2 DEF Staged

LEMMA SaidSteady ==
  ASSUME LocatorInv, Theory!LoopInv, Staged, NEW s \in Ranks, NEW k \in Nat,
         pass[s] <= k, k < Len(plan),
         UNCHANGED <<setup, plan, todo, round, distants, loc, local_ids, interior>>
  PROVE  \A q, r : Said(q, r, k)' = Said(q, r, k)
<1>1. plan[k + 1].phase \in Phases
  BY StageOf, StagePhases
<1>2. UNCHANGED <<setup, plan, todo, round>> /\ UNCHANGED distants /\ UNCHANGED loc
      /\ UNCHANGED <<distants, local_ids, interior>>
  OBVIOUS
<1>3. QED
  BY <1>1, <1>2, SaidKept

\* What does not depend on what changes.
LEMMA SizedKept ==
  ASSUME Sized, UNCHANGED <<setup, partners, loc, todo, got, interior, local_ids, n_dist,
                            distants>>
  PROVE  Sized'
<1>1. (ByRank(loc) /\ ByRank(todo) /\ ByRank(got) /\ ByRank(interior))'
  BY DEF Sized, ByRank
<1>2. (ByRank(local_ids) /\ ByRank(n_dist) /\ ByRank(distants))'
  BY DEF Sized, ByRank
<1>3. \A r \in Ranks : (ByRank(local_ids[r]) /\ ByRank(n_dist[r]) /\ ByRank(distants[r]))'
  BY DEF Sized, ByRank
<1>4. \A r, q \in Ranks : (Listlike(local_ids[r][q]) /\ Listlike(distants[r][q]))'
  BY DEF Sized, Listlike
<1>5. QED
  BY <1>1, <1>2, <1>3, <1>4 DEF Sized

LEMMA FillingKept ==
  ASSUME NEW r, NEW q, UNCHANGED <<setup, plan, partners, loc, interior>>,
         UNCHANGED <<pass[r], left[r]>>, Filling(r, q),
         UNCHANGED <<n_dist[r][q], local_ids[r][q], distants[r][q]>>
  PROVE  Filling(r, q)'
<1>1. \A s, t : PointsOn(s, t)' = PointsOn(s, t)
  BY DEF PointsOn
<1>2. Told(q, r)' = Told(q, r)
  BY <1>1 DEF Told
<1>3. (HasCount(r, q)' <=> HasCount(r, q)) /\ (HasList(r, q)' <=> HasList(r, q))
  BY DEF HasCount, HasList, At
<1>4. QED
  BY <1>1, <1>2, <1>3 DEF Filling

LEMMA ContentEnter ==
  ASSUME LocatorInv, Theory!LoopInv, ContentInv, NEW r \in Ranks, Enter(r)
  PROVE  ContentInv'
<1> DEFINE m == [stamp |-> Loop!Stamp(r), data |-> Message(r, Partner(r))]
           w == <<r, Partner(r)>>
<1>1. /\ left[r] # {} /\ chan' = [chan EXCEPT ![w] = Append(@, m)]
      /\ UNCHANGED <<setup, plan, pass, second, left, stage, round, loc, todo, got,
                     partners, interior, local_ids, n_dist, distants, aborted>>
  BY DEF Enter, Post, lists
<1>2. PICK d : d = m
  OBVIOUS
<1>3. d.stamp = Loop!Stamp(r) /\ d.data = Message(r, Partner(r))
  BY <1>2
<1> HIDE DEF m
<1>4. /\ Staged /\ Sized /\ Lists /\ Spoken /\ Heard
      /\ Transit /\ DOMAIN chan = Ranks \X Ranks
  BY DEF ContentInv, LocatorInv, Transit
<1>5. d.data = Said(r, Partner(r), d.stamp)
  BY <1>1, <1>3, <1>4, SendsWhatIsSaid
<1>6. d.stamp \in Nat /\ pass[r] <= d.stamp /\ d.stamp < Len(plan)
  <2>1. pass[r] < Len(plan) /\ Placed(r)
    BY <1>1, RanksPlaced DEF Placed
  <2>2. second[r] => pass[r] + 1 < Len(plan)
    BY <2>1, CurrentEntry DEF Placed
  <2>3. QED
    BY <1>3, <2>1, <2>2 DEF Placed, Loop!Stamp
<1>7. ASSUME NEW k \in Nat, NEW u \in Ranks, pass[u] <= k, k < Len(plan)
      PROVE  \A s, t : Said(s, t, k)' = Said(s, t, k)
  BY <1>1, <1>4, <1>7, SaidSteady
<1>8. Spoken'
  <2> SUFFICES ASSUME NEW s \in Ranks, NEW t \in Ranks, NEW e \in Range(chan'[<<s, t>>])
               PROVE  e.data = Said(s, t, e.stamp)'
    BY DEF Spoken
  <2>1. CASE e \in Range(chan[<<s, t>>])
    <3>1. e.stamp \in Nat /\ pass[t] <= e.stamp /\ e.stamp < Len(plan)
      BY <2>1, OnItsWay
    <3>2. Said(s, t, e.stamp)' = Said(s, t, e.stamp)
      BY <1>7, <3>1
    <3>3. QED
      BY <1>4, <2>1, <3>2 DEF Spoken
  <2>2. CASE e \notin Range(chan[<<s, t>>])
    <3>1. <<s, t>> = w /\ e = d
      <4>1. CASE <<s, t>> # w
        BY <1>1, <1>4, <2>2, <4>1
      <4>2. CASE <<s, t>> = w
        <5>1. chan'[<<s, t>>] = Append(chan[<<s, t>>], d)
          BY <1>1, <1>2, <1>4, <4>2
        <5>2. PICK S : chan[<<s, t>>] \in Seq(S)
          BY <1>4 DEF Transit
        <5>3. Range(chan'[<<s, t>>]) \subseteq Range(chan[<<s, t>>]) \cup {d}
          BY <5>1, <5>2, RangeAppend
        <5>4. QED
          BY <2>2, <4>2, <5>3
      <4>3. QED
        BY <4>1, <4>2
    <3>2. s = r /\ t = Partner(r)
      BY <3>1
    <3>3. Said(s, t, d.stamp)' = Said(s, t, d.stamp)
      BY <1>6, <1>7
    <3>4. QED
      BY <1>5, <3>1, <3>2, <3>3
  <2>3. QED
    BY <2>1, <2>2
<1>9. Heard'
  <2> SUFFICES ASSUME NEW s \in Ranks, second[s]
               PROVE  got[s] = Said(Partner(s), s, pass[s])'
    BY <1>1 DEF Heard, Partner
  <2>1. Placed(s)
    BY RanksPlaced
  <2>2. Said(Partner(s), s, pass[s])' = Said(Partner(s), s, pass[s])
    <3>1. Partner(s)' = Partner(s)
      BY <1>1 DEF Partner
    <3>2. QED
      BY <1>1, <1>7, <2>1, <3>1 DEF Placed
  <2>3. QED
    BY <1>4, <2>2 DEF Heard
<1>10. Staged'
  BY <1>1, <1>4 DEF Staged
<1>11. Sized'
  BY <1>1, <1>4, SizedKept
<1>12. Lists'
  <2>1. \A s, t \in Ranks : Filling(s, t) => Filling(s, t)'
    BY <1>1, FillingKept
  <2>2. QED
    BY <1>1, <1>4, <2>1 DEF Lists, Matched
<1>13. QED
  BY <1>8, <1>9, <1>10, <1>11, <1>12 DEF ContentInv

\* Going on to the next loop: each partner has been visited.
LEMMA ContentEndLoop ==
  ASSUME LocatorInv, Theory!LoopInv, ContentInv, NEW r \in Ranks, EndLoop(r)
  PROVE  ContentInv'
<1> DEFINE e == plan[pass[r] + 1]
<1>1. /\ pass[r] < Len(plan) /\ left[r] = {}
      /\ pass' = [pass EXCEPT ![r] = IF e.part = "first" THEN @ + 2 ELSE @ + 1]
      /\ left' = [left EXCEPT ![r] = Loop!Begins(plan, pass'[r], r)]
      /\ UNCHANGED <<setup, plan, chan, stage, round, loc, todo, got, second, posted,
                     partners, interior, local_ids, n_dist, distants, aborted>>
  <2>1. EndLoop(r) => UNCHANGED lists /\ Loop!EndLoop(r)
    BY DEF EndLoop
  <2>2. Len(Relations) = Len(plan) /\ pass[r] \in Nat
    BY RanksPlaced, PlanRelations DEF LocatorInv, Relations, Rels, Placed
  <2>3. pass[r] < Len(plan)
    BY <2>1, <2>2 DEF Loop!EndLoop
  <2>4. Relations[pass[r] + 1].part = e.part
    BY <2>3, CurrentEntry, PlanRelations DEF LocatorInv, Relations, Rels
  <2>5. pass' = [pass EXCEPT ![r] = IF e.part = "first" THEN @ + 2 ELSE @ + 1]
    BY <2>1, <2>4 DEF Loop!EndLoop, Loop!Twice
  <2>6. Loop!Begins(Relations, pass'[r], r) = Loop!Begins(plan, pass'[r], r)
    <3>1. pass'[r] \in Nat /\ Len(plan) \in Nat
      BY <2>2, <2>3, <2>5, CurrentEntry DEF LocatorInv, Positioned
    <3>2. pass'[r] < Len(plan) => pass'[r] + 1 \in 1 .. Len(plan)
      BY <3>1
    <3>3. QED
      BY <2>2, <3>2, PlanRelations DEF LocatorInv, Relations, Rels, Loop!Begins
  <2>7. QED
    BY <2>1, <2>3, <2>5, <2>6 DEF EndLoop, Loop!EndLoop, lists
<1>2. /\ Staged /\ Sized /\ Lists /\ Spoken /\ Heard
      /\ pass \in [Ranks -> Nat] /\ left \in [Ranks -> SUBSET Ranks]
  BY DEF ContentInv, LocatorInv, Positioned
<1>3. /\ pass[r] + 1 \in 1 .. Len(plan) /\ Len(plan) \in Nat /\ pass[r] \in Nat
      /\ pass'[r] \in Nat /\ pass[r] < pass'[r]
      /\ e.part = "only" <=> e.phase \in Single
      /\ e.part \in {"only", "first"}
  BY <1>1, <1>2, CurrentEntry
<1>4. ASSUME NEW s \in Ranks, s # r
      PROVE  pass'[s] = pass[s] /\ left'[s] = left[s]
  BY <1>1, <1>2, <1>4
<1>5. Staged'
  <2>1. ASSUME NEW s \in Ranks, NEW k \in pass'[s] + 1 .. Len(plan)
        PROVE  k \in pass[s] + 1 .. Len(plan)
    <3>1. pass[s] \in Nat /\ pass'[s] \in Nat /\ pass[s] <= pass'[s]
      BY <1>2, <1>3, <1>4
    <3>2. QED
      BY <1>3, <3>1
  <2>2. QED
    BY <1>1, <1>2, <2>1 DEF Staged
<1>6. Sized'
  BY <1>1, <1>2, SizedKept
<1>7. ASSUME NEW k \in Nat, NEW u \in Ranks, pass[u] <= k, k < Len(plan)
      PROVE  \A s, t : Said(s, t, k)' = Said(s, t, k)
  BY <1>1, <1>2, <1>7, SaidSteady
<1>8. Spoken'
  <2> SUFFICES ASSUME NEW s \in Ranks, NEW t \in Ranks, NEW m \in Range(chan[<<s, t>>])
               PROVE  m.data = Said(s, t, m.stamp)'
    BY <1>1 DEF Spoken
  <2>1. m.stamp \in Nat /\ pass[t] <= m.stamp /\ m.stamp < Len(plan)
    BY OnItsWay
  <2>2. Said(s, t, m.stamp)' = Said(s, t, m.stamp)
    BY <1>7, <2>1
  <2>3. QED
    BY <1>2, <2>2 DEF Spoken
<1>9. Heard'
  <2> SUFFICES ASSUME NEW s \in Ranks, second[s]
               PROVE  got[s] = Said(Partner(s), s, pass[s])'
    BY <1>1 DEF Heard
  <2>1. Placed(s) /\ s # r
    BY <1>1, RanksPlaced DEF Placed
  <2>2. Said(Partner(s), s, pass[s])' = Said(Partner(s), s, pass[s])
    <3>1. Partner(s)' = Partner(s) /\ pass'[s] = pass[s]
      BY <1>4, <2>1 DEF Partner
    <3>2. QED
      BY <1>1, <1>7, <2>1, <3>1 DEF Placed
  <2>3. QED
    BY <1>2, <2>2 DEF Heard
<1>10. ASSUME stage = "located", NEW q \in Ranks PROVE Filling(r, q)'
  <2>1. /\ e.phase \in PhasesOf[stage] /\ e.with = partners
        /\ e.phase = "counts" => pass[r] + 1 < Len(plan) /\ plan[pass[r] + 2].phase = "points"
        /\ e.phase = "points" => pass[r] + 1 = Len(plan)
    <3>1. pass[r] + 1 \in pass[r] + 1 .. Len(plan) /\ (pass[r] + 1) + 1 = pass[r] + 2
      BY <1>3
    <3>2. QED
      BY <1>2, <1>10, <3>1 DEF Staged
  <2>2. e.phase \in {"counts", "points"}
    BY <1>2, <1>10, <2>1, StagePhases
  <2>3. pass'[r] = pass[r] + 1
    BY <1>1, <1>2, <1>3, <2>2 DEF Single
  <2>4. Filling(r, q) /\ q \notin left[r]
    BY <1>1, <1>2, <1>10 DEF Lists
  <2>5. /\ \A s, t : PointsOn(s, t)' = PointsOn(s, t)
        /\ \A s, t : Told(s, t)' = Told(s, t)
    BY <1>1 DEF Told, PointsOn
  <2>6. CASE e.phase = "counts"
    <3>1. pass'[r] < Len(plan') /\ At(r, "points")' /\ ~At(r, "counts")'
      BY <1>1, <1>3, <2>1, <2>3, <2>6 DEF At
    <3>2. left'[r] = partners'[r]
      <4>1. pass[r] + 2 \in pass[r] + 1 .. Len(plan) /\ (pass[r] + 1) + 1 = pass[r] + 2
        BY <1>3, <2>1, <2>6
      <4>2. plan[pass[r] + 2].with = partners
        BY <1>2, <1>10, <4>1 DEF Staged
      <4>3. QED
        BY <1>1, <1>2, <2>3, <3>1, <4>1, <4>2 DEF Loop!Begins
    <3>3. ~HasList(r, q) /\ ~HasList(r, q)' /\ (HasCount(r, q)' => HasCount(r, q))
      BY <1>1, <2>4, <2>6, <3>1, <3>2 DEF HasList, HasCount, At
    <3>4. QED
      BY <1>1, <2>4, <2>5, <3>3 DEF Filling
  <2>7. CASE e.phase = "points"
    <3>1. pass'[r] = Len(plan')
      BY <1>1, <2>1, <2>3, <2>7
    <3>2. ~HasCount(r, q)' /\ (HasList(r, q)' <=> HasList(r, q))
      BY <1>1, <1>3, <2>4, <2>7, <3>1 DEF HasList, HasCount, At
    <3>3. QED
      BY <1>1, <2>4, <2>5, <3>2 DEF Filling
  <2>8. QED
    BY <2>2, <2>6, <2>7
<1>11. Lists'
  <2>1. ASSUME NEW s \in Ranks, NEW t \in Ranks, stage = "located" PROVE Filling(s, t)'
    <3>1. CASE s = r
      BY <1>10, <2>1, <3>1
    <3>2. CASE s # r
      BY <1>1, <1>2, <1>4, <2>1, <3>2, FillingKept DEF Lists
    <3>3. QED
      BY <3>1, <3>2
  <2>2. QED
    BY <1>1, <1>2, <2>1 DEF Lists, Matched
<1>12. QED
  BY <1>5, <1>6, <1>8, <1>9, <1>11 DEF ContentInv

\* The message d of the partner q arrives: what all exchanges have in common.
Received(r, q, d) ==
  \/ Transfer(r, q, d) \/ Asked(r, q, d) \/ Answered(r, q, d) \/ Counted(r, q, d)
  \/ Listed(r, q, d) \/ Flagged(r, q, d) \/ Exchanged(r, q, d)

LEMMA LeaveFacts ==
  ASSUME LocatorInv, Theory!LoopInv, ContentInv, NEW r \in Ranks, Leave(r),
         NEW q, q = Partner(r), NEW d, d = Incoming(r).data
  PROVE  LET e == plan[pass[r] + 1]
         IN  /\ q \in Ranks /\ q \in left[r] /\ pass[r] < Len(plan)
             /\ e.phase \in PhasesOf[stage] /\ d = Said(q, r, Loop!Stamp(r))
             /\ Received(r, q, d)
             /\ UNCHANGED <<setup, plan, pass, stage, round, todo, interior, partners>>
             /\ \A s, t \in Ranks : Range(chan'[<<s, t>>]) \subseteq Range(chan[<<s, t>>])
             /\ IF e.part = "first" /\ ~second[r]
                THEN second' = [second EXCEPT ![r] = TRUE] /\ UNCHANGED left
                ELSE /\ second' = [second EXCEPT ![r] = FALSE]
                     /\ left' = [left EXCEPT ![r] = @ \ {q}]
<1> DEFINE e == plan[pass[r] + 1]
           w == <<Partner(r), r>>
<1>1. /\ Arrived(r) /\ chan' = [chan EXCEPT ![w] = Tail(@)] /\ Loop!Visit(r)
      /\ Received(r, q, d) /\ UNCHANGED <<setup, plan, pass, stage, round, todo>>
  BY DEF Leave, Take, Received
<1>2. UNCHANGED <<interior, partners>>
  BY <1>1 DEF Received, Transfer, Asked, Answered, Counted, Listed, Flagged, Exchanged, lists
<1>3. /\ q \in Ranks /\ q \in left[r] /\ Incoming(r).stamp = Loop!Stamp(r)
      /\ Incoming(r) = chan[w][1] /\ 1 \in 1 .. Len(chan[w])
  BY <1>1, ArrivesInTime
<1>4. /\ Staged /\ Spoken /\ Transit /\ DOMAIN chan = Ranks \X Ranks
  BY DEF ContentInv, LocatorInv, Transit
<1>5. /\ pass[r] < Len(plan) /\ pass[r] \in Nat /\ e.phase \in PhasesOf[stage]
  <2>1. Placed(r)
    BY RanksPlaced
  <2>2. pass[r] < Len(plan) /\ pass[r] \in Nat /\ pass[r] <= pass[r]
    BY <1>3, <2>1 DEF Placed
  <2>3. QED
    BY <1>4, <2>2, StageOf
<1>6. d = Said(q, r, Loop!Stamp(r))
  <2>1. PICK S : chan[w] \in Seq(S)
    BY <1>3, <1>4 DEF Transit
  <2>2. Incoming(r) \in Range(chan[w])
    BY <1>3, <2>1 DEF Range
  <2>3. QED
    BY <1>3, <1>4, <2>2 DEF Spoken
<1>7. ASSUME NEW s \in Ranks, NEW t \in Ranks
      PROVE  Range(chan'[<<s, t>>]) \subseteq Range(chan[<<s, t>>])
  <2>1. PICK S : chan[<<s, t>>] \in Seq(S)
    BY <1>4 DEF Transit
  <2>2. CASE <<s, t>> = w
    <3>1. chan'[<<s, t>>] = Tail(chan[<<s, t>>]) /\ chan[<<s, t>>] # <<>>
      BY <1>1, <1>4, <2>2 DEF Arrived
    <3>2. QED
      BY <2>1, <3>1, RangeTail
  <2>3. CASE <<s, t>> # w
    BY <1>1, <1>4, <2>3
  <2>4. QED
    BY <2>2, <2>3
<1>8. IF e.part = "first" /\ ~second[r]
      THEN second' = [second EXCEPT ![r] = TRUE] /\ UNCHANGED left
      ELSE second' = [second EXCEPT ![r] = FALSE] /\ left' = [left EXCEPT ![r] = @ \ {q}]
  <2>1. Loop!Twice(r) <=> e.part = "first"
    BY <1>5, CurrentEntry, PlanRelations DEF LocatorInv, Relations, Rels, Loop!Twice
  <2>2. QED
    BY <1>1, <2>1 DEF Loop!Visit, Loop!Partner, Partner
<1>9. QED
  BY <1>1, <1>2, <1>3, <1>5, <1>6, <1>7, <1>8

\* Each exchange changes only what no message under way is made of.
LEMMA LeaveKeeps ==
  ASSUME LocatorInv, Theory!LoopInv, ContentInv, NEW r \in Ranks, Leave(r)
  PROVE  /\ UNCHANGED <<setup, plan, pass, stage, round, todo, interior, partners>>
         /\ stage # "located" => UNCHANGED lists
         /\ stage \in {"located", "done"} => UNCHANGED loc
         /\ \A k \in Nat, u \in Ranks :
              pass[u] <= k /\ k < Len(plan) => \A s, t : Said(s, t, k)' = Said(s, t, k)
<1>1. PICK q, d : q = Partner(r) /\ d = Incoming(r).data
  OBVIOUS
<1> DEFINE e == plan[pass[r] + 1]
<1>2. /\ e.phase \in PhasesOf[stage] /\ Received(r, q, d)
      /\ UNCHANGED <<setup, plan, pass, stage, round, todo, interior, partners>>
  BY <1>1, LeaveFacts
<1>3. Staged
  BY DEF ContentInv
<1>4. e.phase = "transfer" \/ e.phase = "search" \/ e.phase = "exchange" => UNCHANGED lists
  BY <1>2 DEF Received, Transfer, Asked, Answered, Counted, Listed, Flagged, Exchanged, At
<1>5. e.phase \in {"counts", "points"} \/ e.phase = "exchange" => UNCHANGED loc
  BY <1>2 DEF Received, Transfer, Asked, Answered, Counted, Listed, Flagged, Exchanged, At
<1>6. stage # "located" => UNCHANGED lists
  BY <1>2, <1>3, <1>4, StagePhases DEF Phases
<1>7. stage \in {"located", "done"} => UNCHANGED loc
  BY <1>2, <1>3, <1>5, StagePhases
<1>8. ASSUME NEW k \in Nat, NEW u \in Ranks, pass[u] <= k, k < Len(plan)
      PROVE  \A s, t : Said(s, t, k)' = Said(s, t, k)
  <2>1. plan[k + 1].phase \in PhasesOf[stage] /\ plan[k + 1].phase \in Phases
    BY <1>3, <1>8, StageOf, StagePhases
  <2>2. /\ plan[k + 1].phase = "transfer" => UNCHANGED distants
        /\ plan[k + 1].phase \in {"counts", "points"} => UNCHANGED loc
        /\ plan[k + 1].phase = "exchange" => UNCHANGED <<distants, local_ids, interior>>
    BY <1>2, <1>3, <1>6, <1>7, <2>1, StagePhases DEF lists
  <2>3. QED
    BY <1>2, <2>1, <2>2, SaidKept
<1>9. QED
  BY <1>2, <1>6, <1>7, <1>8

\* The lists that a rank makes of the points that it has located on another one.
LEMMA PointsListed ==
  ASSUME LocatorInv, Sized, NEW r \in Ranks, NEW q \in Ranks
  PROVE  /\ PointsOn(r, q) \in Seq(DOMAIN setup.pts[r])
         /\ Len(PointsOn(r, q)) \in Nat
         /\ DOMAIN PointsOn(r, q) = 1 .. Len(PointsOn(r, q))
         /\ Listlike(PointsOn(r, q)) /\ Listlike(Told(r, q))
         /\ Len(Told(r, q)) = Len(PointsOn(r, q))
<1> DEFINE S == {p \in DOMAIN loc[r] : loc[r][p].rank = q}
<1>1. setup.pts[r] \in Seq(Int) /\ DOMAIN loc[r] \in {{}, DOMAIN setup.pts[r]}
  BY PointLists DEF LocatorInv, Sized
<1>2. S \subseteq DOMAIN loc[r] /\ PointsOn(r, q) = Ascending(S)
  BY DEF PointsOn
<1> HIDE DEF S
<1>3. /\ PointsOn(r, q) \in Seq(DOMAIN setup.pts[r]) /\ Len(PointsOn(r, q)) \in Nat
      /\ DOMAIN PointsOn(r, q) = 1 .. Len(PointsOn(r, q))
  BY <1>1, <1>2, SomePoints
<1>4. PICK n, c : n = Len(PointsOn(r, q)) /\ c = PointsOn(r, q)
  OBVIOUS
<1>5. n \in Nat /\ DOMAIN c = 1 .. n /\ c = [k \in DOMAIN c |-> c[k]]
  BY <1>3, <1>4
<1>6. DOMAIN Told(r, q) = 1 .. n /\ Told(r, q) = [k \in DOMAIN Told(r, q) |-> Told(r, q)[k]]
  BY <1>3, <1>4 DEF Told
<1>7. Listlike(c) /\ Len(Told(r, q)) = n /\ Listlike(Told(r, q))
  BY <1>5, <1>6, ListOfLength
<1>8. QED
  BY <1>3, <1>4, <1>7

\* In loops with one exchange at each visit, it is for that one that messages are.
LEMMA SingleExchange ==
  ASSUME LocatorInv, Theory!LoopInv, NEW r \in Ranks, pass[r] < Len(plan)
  PROVE  /\ plan[pass[r] + 1].phase \in Single
              => second[r] = FALSE /\ plan[pass[r] + 1].part = "only"
         /\ plan[pass[r] + 1].phase \notin Single => plan[pass[r] + 1].part = "first"
         /\ ~second[r] => Loop!Stamp(r) = pass[r]
         /\ second[r] => Loop!Stamp(r) = pass[r] + 1
<1>1. Placed(r) /\ second[r] \in BOOLEAN
  BY RanksPlaced
<1>2. /\ plan[pass[r] + 1].part = "only" <=> plan[pass[r] + 1].phase \in Single
      /\ plan[pass[r] + 1].part \in {"only", "first"}
  BY CurrentEntry
<1>3. second[r] => plan[pass[r] + 1].part = "first"
  BY <1>1 DEF Placed
<1>4. QED
  BY <1>1, <1>2, <1>3 DEF Loop!Stamp

\* Of the lists that each rank keeps for each other rank, one changes.
Put(f, r, q, v) == [f EXCEPT ![r][q] = v]

\* What becomes of each of the lists, whatever the exchange.
LEMMA ReceivedLists ==
  ASSUME Sized, NEW r \in Ranks, NEW q, NEW d, Received(r, q, d),
         plan[pass[r] + 1].phase \in Phases, aborted \in BOOLEAN
  PROVE  LET ph == plan[pass[r] + 1].phase
         IN  /\ aborted' \in BOOLEAN
             /\ ByRank(loc') /\ \A s \in Ranks : DOMAIN loc'[s] = DOMAIN loc[s]
             /\ ByRank(got') /\ \A s \in Ranks : s # r => got'[s] = got[s]
             /\ ph \notin Single /\ ~second[r] => got'[r] = d
             /\ n_dist' = IF ph = "counts" THEN Put(n_dist, r, q, d[1]) ELSE n_dist
             /\ local_ids' = IF ph = "points"
                             THEN Put(local_ids, r, q, PointsOn(r, q)) ELSE local_ids
             /\ distants' = IF ph = "points" THEN Put(distants, r, q, d) ELSE distants
<1> DEFINE ph == plan[pass[r] + 1].phase
<1>1. ByRank(loc) /\ ByRank(got) /\ r \in Ranks
  BY DEF Sized
<1>2. ByRank(loc') /\ \A s \in Ranks : DOMAIN loc'[s] = DOMAIN loc[s]
  <2>1. UNCHANGED loc \/ \E f : loc' = [loc EXCEPT ![r] = [p \in DOMAIN loc[r] |-> f[p]]]
    <3>1. CASE Transfer(r, q, d)
      <4> DEFINE f == [p \in DOMAIN loc[r] |->
              IF \E k \in DOMAIN d : interior[r][local_ids[r][q][k]] = p
              THEN [rank |-> q, dist |-> -1,
                    elt |-> d[CHOOSE k \in DOMAIN d : interior[r][local_ids[r][q][k]] = p]]
              ELSE loc[r][p]]
      <4>1. loc' = [loc EXCEPT ![r] = f] /\ f = [p \in DOMAIN loc[r] |-> f[p]]
        BY <3>1 DEF Transfer
      <4> HIDE DEF f
      <4>2. QED
        BY <4>1
    <3>2. CASE Answered(r, q, d)
      <4> DEFINE f == [p \in DOMAIN loc[r] |->
              IF \E k \in DOMAIN d : todo[r][Chosen(r, q)[k]] = p /\ Better(d[k], loc[r][p])
              THEN LET k == CHOOSE k \in DOMAIN d : todo[r][Chosen(r, q)[k]] = p
                   IN  [rank |-> q, elt |-> d[k].elt, dist |-> d[k].dist]
              ELSE loc[r][p]]
      <4>1. loc' = [loc EXCEPT ![r] = f] /\ f = [p \in DOMAIN loc[r] |-> f[p]]
        BY <3>2 DEF Answered
      <4> HIDE DEF f
      <4>2. QED
        BY <4>1
    <3>3. CASE ~Transfer(r, q, d) /\ ~Answered(r, q, d)
      BY <3>3 DEF Received, Asked, Counted, Listed, Flagged, Exchanged
    <3>4. QED
      BY <3>1, <3>2, <3>3
  <2>2. ASSUME NEW f, loc' = [loc EXCEPT ![r] = [p \in DOMAIN loc[r] |-> f[p]]]
        PROVE  ByRank(loc') /\ \A s \in Ranks : DOMAIN loc'[s] = DOMAIN loc[s]
    <3>1. PICK g : g = [p \in DOMAIN loc[r] |-> f[p]]
      OBVIOUS
    <3>2. DOMAIN g = DOMAIN loc[r] /\ loc' = [loc EXCEPT ![r] = g]
      BY <2>2, <3>1
    <3>3. loc' = [s \in Ranks |-> IF s = r THEN g ELSE loc[s]]
      BY <1>1, <3>2 DEF ByRank
    <3>4. QED
      BY <3>2, <3>3 DEF ByRank
  <2>3. QED
    BY <1>1, <2>1, <2>2 DEF ByRank
<1>3. ByRank(got') /\ \A s \in Ranks : s # r => got'[s] = got[s]
  <2>1. UNCHANGED got \/ \E g : got' = [got EXCEPT ![r] = g]
    BY DEF Received, Transfer, Asked, Answered, Counted, Listed, Flagged, Exchanged
  <2>2. QED
    BY <1>1, <2>1 DEF ByRank
<1>4. ph \notin Single /\ ~second[r] => got'[r] = d
  <2>1. ph \notin Single /\ ~second[r] => got' = [got EXCEPT ![r] = d]
    BY DEF Received, Transfer, Asked, Answered, Counted, Listed, Flagged, Exchanged, At,
           Single
  <2>2. QED
    BY <1>1, <2>1 DEF ByRank
<1>5. /\ n_dist' = IF ph = "counts" THEN Put(n_dist, r, q, d[1]) ELSE n_dist
      /\ local_ids' = IF ph = "points"
                      THEN Put(local_ids, r, q, PointsOn(r, q)) ELSE local_ids
      /\ distants' = IF ph = "points" THEN Put(distants, r, q, d) ELSE distants
  BY DEF Received, Transfer, Asked, Answered, Counted, Listed, Flagged, Exchanged, At, lists,
         Put
<1>6. aborted' \in BOOLEAN
  BY DEF Received, Transfer, Asked, Answered, Counted, Listed, Flagged, Exchanged
<1>7. QED
  BY <1>2, <1>3, <1>4, <1>5, <1>6

LEMMA OneChanged ==
  ASSUME NEW f, NEW r \in Ranks, NEW q \in Ranks, NEW v,
         ByRank(f), \A s \in Ranks : ByRank(f[s])
  PROVE  LET g == Put(f, r, q, v)
         IN  /\ ByRank(g) /\ \A s \in Ranks : ByRank(g[s])
             /\ g[r][q] = v
             /\ \A s, t \in Ranks : <<s, t>> # <<r, q>> => g[s][t] = f[s][t]
<1>1. PICK g : g = Put(f, r, q, v) /\ g = [f EXCEPT ![r][q] = v]
  BY DEF Put
<1>2. PICK h : h = [f[r] EXCEPT ![q] = v]
  OBVIOUS
<1>3. DOMAIN f = Ranks /\ \A s \in Ranks : DOMAIN f[s] = Ranks
  BY DEF ByRank
<1>4. g = [s \in Ranks |-> IF s = r THEN h ELSE f[s]]
  BY <1>1, <1>2, <1>3
<1>5. h = [t \in Ranks |-> IF t = q THEN v ELSE f[r][t]]
  BY <1>2, <1>3
<1>6. g[r] = h /\ \A s \in Ranks : s # r => g[s] = f[s]
  BY <1>4
<1>7. ByRank(g) /\ ByRank(h) /\ h[q] = v /\ \A t \in Ranks : t # q => h[t] = f[r][t]
  BY <1>4, <1>5 DEF ByRank
<1>8. ASSUME NEW s \in Ranks PROVE ByRank(g[s])
  BY <1>6, <1>7
<1>9. ASSUME NEW s \in Ranks, NEW t \in Ranks, <<s, t>> # <<r, q>> PROVE g[s][t] = f[s][t]
  BY <1>6, <1>7, <1>9
<1>10. QED
  BY <1>1, <1>6, <1>7, <1>8, <1>9

\* What the ranks tell each other of the points that they have located.
LEMMA PointsTold ==
  ASSUME LocatorInv, Theory!LoopInv, ContentInv, NEW r \in Ranks, Leave(r),
         NEW q, q = Partner(r), NEW d, d = Incoming(r).data,
         plan[pass[r] + 1].phase \in {"counts", "points"}
  PROVE  /\ stage = "located" /\ q \in partners[r]
         /\ second'[r] = FALSE /\ left'[r] = left[r] \ {q}
         /\ \A s \in Ranks : s # r => left'[s] = left[s]
         /\ plan[pass[r] + 1].phase = "counts" => d[1] = Len(PointsOn(q, r))
         /\ plan[pass[r] + 1].phase = "points" => d = Told(q, r)
<1> DEFINE e == plan[pass[r] + 1]
<1>1. /\ q \in Ranks /\ q \in left[r] /\ pass[r] < Len(plan)
      /\ e.phase \in PhasesOf[stage] /\ d = Said(q, r, Loop!Stamp(r))
      /\ IF e.part = "first" /\ ~second[r]
         THEN second' = [second EXCEPT ![r] = TRUE] /\ UNCHANGED left
         ELSE /\ second' = [second EXCEPT ![r] = FALSE]
              /\ left' = [left EXCEPT ![r] = @ \ {q}]
  BY LeaveFacts
<1>2. Staged /\ left \in [Ranks -> SUBSET Ranks] /\ second \in [Ranks -> BOOLEAN]
  BY RanksPlaced DEF ContentInv
<1>3. stage = "located"
  BY <1>1, <1>2, StagePhases
<1>4. e.part = "only" /\ Loop!Stamp(r) = pass[r]
  BY <1>1, SingleExchange DEF Single
<1>5. /\ second'[r] = FALSE /\ left'[r] = left[r] \ {q}
      /\ \A s \in Ranks : s # r => left'[s] = left[s]
  BY <1>1, <1>2, <1>4
<1>6. q \in partners[r]
  <2>1. pass[r] + 1 \in pass[r] + 1 .. Len(plan)
    BY <1>1, CurrentEntry
  <2>2. e.with = partners
    BY <1>2, <1>3, <2>1 DEF Staged
  <2>3. left[r] \subseteq e.with[r]
    BY <1>1, RanksPlaced DEF Placed
  <2>4. QED
    BY <1>1, <2>2, <2>3
<1>7. e.phase = "counts" => d[1] = Len(PointsOn(q, r))
  BY <1>1, <1>4 DEF Said
<1>8. e.phase = "points" => d = Told(q, r)
  BY <1>1, <1>4 DEF Said
<1>9. QED
  BY <1>3, <1>5, <1>6, <1>7, <1>8

LEMMA LeaveSized ==
  ASSUME LocatorInv, Theory!LoopInv, ContentInv, NEW r \in Ranks, Leave(r)
  PROVE  Sized'
<1>1. PICK q, d : q = Partner(r) /\ d = Incoming(r).data
  OBVIOUS
<1> DEFINE ph == plan[pass[r] + 1].phase
<1>2. /\ q \in Ranks /\ ph \in PhasesOf[stage] /\ Received(r, q, d)
      /\ UNCHANGED <<setup, plan, pass, stage, round, todo, interior, partners>>
  BY <1>1, LeaveFacts
<1>3. Staged /\ Sized /\ Lists /\ ph \in Phases /\ aborted \in BOOLEAN
  BY <1>2, StagePhases DEF ContentInv, Staged
<1>4. /\ ByRank(loc') /\ \A s \in Ranks : DOMAIN loc'[s] = DOMAIN loc[s]
      /\ ByRank(got')
      /\ n_dist' = IF ph = "counts" THEN Put(n_dist, r, q, d[1]) ELSE n_dist
      /\ local_ids' = IF ph = "points"
                      THEN Put(local_ids, r, q, PointsOn(r, q)) ELSE local_ids
      /\ distants' = IF ph = "points" THEN Put(distants, r, q, d) ELSE distants
  BY <1>2, <1>3, ReceivedLists
<1>5. /\ ByRank(n_dist) /\ \A s \in Ranks : ByRank(n_dist[s])
      /\ ByRank(local_ids) /\ \A s \in Ranks : ByRank(local_ids[s])
      /\ ByRank(distants) /\ \A s \in Ranks : ByRank(distants[s])
      /\ \A s, t \in Ranks : /\ Listlike(local_ids[s][t]) /\ Listlike(distants[s][t])
                             /\ Len(local_ids[s][t]) <= Len(interior[s])
  BY <1>3 DEF Sized
<1>6. (ByRank(todo) /\ ByRank(interior))'
  BY <1>2, <1>3 DEF Sized, ByRank
<1>7. ByRank(n_dist') /\ \A s \in Ranks : ByRank(n_dist'[s])
  <2>1. CASE ph = "counts"
    <3>1. n_dist' = Put(n_dist, r, q, d[1])
      BY <1>4, <2>1
    <3>2. QED
      BY <1>2, <1>5, <3>1, OneChanged
  <2>2. CASE ph # "counts"
    BY <1>4, <1>5, <2>2
  <2>3. QED
    BY <2>1, <2>2
<1>8. ASSUME ph = "points"
      PROVE  /\ Listlike(PointsOn(r, q)) /\ Listlike(d)
             /\ Len(PointsOn(r, q)) <= Len(interior[r])
  <2>1. d = Told(q, r) /\ stage = "located"
    BY <1>1, <1>8, PointsTold
  <2>2. Listlike(PointsOn(r, q)) /\ Listlike(Told(q, r))
    BY <1>2, <1>3, PointsListed
  <2>3. Filling(r, q)
    BY <1>2, <1>3, <2>1 DEF Lists
  <2>4. QED
    BY <2>1, <2>2, <2>3 DEF Filling
<1>9. /\ ByRank(local_ids') /\ \A s \in Ranks : ByRank(local_ids'[s])
      /\ \A s, t \in Ranks : /\ Listlike(local_ids'[s][t])
                             /\ Len(local_ids'[s][t]) <= Len(interior[s])
  <2>1. CASE ph = "points"
    <3>1. local_ids' = Put(local_ids, r, q, PointsOn(r, q))
      BY <1>4, <2>1
    <3>2. /\ ByRank(local_ids') /\ \A s \in Ranks : ByRank(local_ids'[s])
          /\ local_ids'[r][q] = PointsOn(r, q)
          /\ \A s, t \in Ranks : <<s, t>> # <<r, q>> => local_ids'[s][t] = local_ids[s][t]
      BY <1>2, <1>5, <3>1, OneChanged
    <3>3. ASSUME NEW s \in Ranks, NEW t \in Ranks
          PROVE  Listlike(local_ids'[s][t]) /\ Len(local_ids'[s][t]) <= Len(interior[s])
      <4>1. CASE <<s, t>> = <<r, q>>
        BY <1>8, <2>1, <3>2, <4>1
      <4>2. CASE <<s, t>> # <<r, q>>
        BY <1>5, <3>2, <4>2
      <4>3. QED
        BY <4>1, <4>2
    <3>4. QED
      BY <3>2, <3>3
  <2>2. CASE ph # "points"
    <3>1. local_ids' = local_ids
      BY <1>4, <2>2
    <3>2. QED
      BY <1>5, <3>1
  <2>3. QED
    BY <2>1, <2>2
<1>10. /\ ByRank(distants') /\ \A s \in Ranks : ByRank(distants'[s])
       /\ \A s, t \in Ranks : Listlike(distants'[s][t])
  <2>1. CASE ph = "points"
    <3>1. distants' = Put(distants, r, q, d)
      BY <1>4, <2>1
    <3>2. /\ ByRank(distants') /\ \A s \in Ranks : ByRank(distants'[s])
          /\ distants'[r][q] = d
          /\ \A s, t \in Ranks : <<s, t>> # <<r, q>> => distants'[s][t] = distants[s][t]
      BY <1>2, <1>5, <3>1, OneChanged
    <3>3. ASSUME NEW s \in Ranks, NEW t \in Ranks PROVE Listlike(distants'[s][t])
      <4>1. CASE <<s, t>> = <<r, q>>
        BY <1>8, <2>1, <3>2, <4>1
      <4>2. CASE <<s, t>> # <<r, q>>
        BY <1>5, <3>2, <4>2
      <4>3. QED
        BY <4>1, <4>2
    <3>4. QED
      BY <3>2, <3>3
  <2>2. CASE ph # "points"
    <3>1. distants' = distants
      BY <1>4, <2>2
    <3>2. QED
      BY <1>5, <3>1
  <2>3. QED
    BY <2>1, <2>2
<1>11. /\ UNCHANGED <<setup, todo, interior, partners>>
       /\ \A s \in Ranks :
            /\ partners[s] \subseteq setup.far[s]
            /\ DOMAIN loc'[s] \in {{}, DOMAIN setup.pts[s]}
            /\ todo[s] \in Seq(DOMAIN setup.pts[s]) /\ Len(todo[s]) <= Len(setup.pts[s])
            /\ interior[s] \in Seq(DOMAIN setup.pts[s])
            /\ Len(interior[s]) <= Len(setup.pts[s])
  BY <1>2, <1>3, <1>4 DEF Sized
<1>12. QED
  BY <1>4, <1>6, <1>7, <1>9, <1>10, <1>11 DEF Sized

LEMMA LeaveLists ==
  ASSUME LocatorInv, Theory!LoopInv, ContentInv, NEW r \in Ranks, Leave(r)
  PROVE  Lists'
<1>1. PICK q, d : q = Partner(r) /\ d = Incoming(r).data
  OBVIOUS
<1> DEFINE ph == plan[pass[r] + 1].phase
<1>2. /\ q \in Ranks /\ q \in left[r] /\ pass[r] < Len(plan)
      /\ ph \in PhasesOf[stage] /\ Received(r, q, d)
      /\ UNCHANGED <<setup, plan, pass, stage, round, todo, interior, partners>>
  BY <1>1, LeaveFacts
<1>3. Staged /\ Sized /\ Lists /\ ph \in Phases /\ aborted \in BOOLEAN
  BY <1>2, StagePhases DEF ContentInv, Staged
<1>4. CASE stage # "located"
  <2>1. UNCHANGED <<partners, interior, local_ids, n_dist, distants>>
    BY <1>4, LeaveKeeps DEF lists
  <2>2. QED
    BY <1>2, <1>3, <1>4, <2>1 DEF Lists, Matched
<1>5. CASE stage = "located"
  <2>1. ph \in {"counts", "points"} /\ UNCHANGED loc
    BY <1>2, <1>3, <1>5, StagePhases, LeaveKeeps
  <2>2. /\ q \in partners[r] /\ left'[r] = left[r] \ {q}
        /\ \A s \in Ranks : s # r => left'[s] = left[s]
        /\ ph = "counts" => d[1] = Len(PointsOn(q, r))
        /\ ph = "points" => d = Told(q, r)
    BY <1>1, <2>1, PointsTold
  <2>3. /\ ByRank(n_dist) /\ \A s \in Ranks : ByRank(n_dist[s])
        /\ ByRank(local_ids) /\ \A s \in Ranks : ByRank(local_ids[s])
        /\ ByRank(distants) /\ \A s \in Ranks : ByRank(distants[s])
    BY <1>3 DEF Sized
  <2>4. /\ n_dist' = IF ph = "counts" THEN Put(n_dist, r, q, d[1]) ELSE n_dist
        /\ local_ids' = IF ph = "points"
                        THEN Put(local_ids, r, q, PointsOn(r, q)) ELSE local_ids
        /\ distants' = IF ph = "points" THEN Put(distants, r, q, d) ELSE distants
    BY <1>2, <1>3, ReceivedLists
  <2>5. ASSUME NEW s \in Ranks, NEW t \in Ranks, <<s, t>> # <<r, q>>
        PROVE  UNCHANGED <<n_dist[s][t], local_ids[s][t], distants[s][t]>>
    <3>1. n_dist'[s][t] = n_dist[s][t]
      <4>1. Put(n_dist, r, q, d[1])[s][t] = n_dist[s][t]
        BY <1>2, <2>3, <2>5, OneChanged
      <4>2. QED
        BY <2>4, <4>1
    <3>2. local_ids'[s][t] = local_ids[s][t]
      <4>1. Put(local_ids, r, q, PointsOn(r, q))[s][t] = local_ids[s][t]
        BY <1>2, <2>3, <2>5, OneChanged
      <4>2. QED
        BY <2>4, <4>1
    <3>3. distants'[s][t] = distants[s][t]
      <4>1. Put(distants, r, q, d)[s][t] = distants[s][t]
        BY <1>2, <2>3, <2>5, OneChanged
      <4>2. QED
        BY <2>4, <4>1
    <3>4. QED
      BY <3>1, <3>2, <3>3
  <2>6. /\ \A s, t : PointsOn(s, t)' = PointsOn(s, t)
        /\ \A s, t : Told(s, t)' = Told(s, t)
    BY <1>2, <2>1 DEF Told, PointsOn
  <2>7. At(r, "counts")' = At(r, "counts") /\ At(r, "points")' = At(r, "points")
    BY <1>2 DEF At
  <2>8. ASSUME NEW t \in Ranks, t # q PROVE Filling(r, t)'
    <3>1. Filling(r, t)
      BY <1>3, <1>5 DEF Lists
    <3>2. t \in left'[r] <=> t \in left[r]
      BY <2>2, <2>8
    <3>3. /\ HasCount(r, t)' <=> HasCount(r, t)
          /\ HasList(r, t)' <=> HasList(r, t)
      BY <1>2, <2>7, <3>2 DEF HasCount, HasList
    <3>4. UNCHANGED <<n_dist[r][t], local_ids[r][t], distants[r][t]>>
      BY <2>5, <2>8
    <3>5. QED
      BY <1>2, <2>6, <3>1, <3>3, <3>4 DEF Filling
  <2>9. Filling(r, q)'
    <3>1. Filling(r, q) /\ q \notin left'[r]
      BY <1>2, <1>3, <1>5, <2>2 DEF Lists
    <3>2. CASE ph = "counts"
      <4>1. n_dist'[r][q] = d[1] /\ UNCHANGED <<local_ids, distants>>
        BY <1>2, <2>3, <2>4, <3>2, OneChanged
      <4>2. ~HasList(r, q) /\ ~HasList(r, q)'
        BY <1>2, <3>2 DEF HasList, At
      <4>3. QED
        BY <1>2, <2>2, <2>6, <3>1, <3>2, <4>1, <4>2 DEF Filling
    <3>3. CASE ph = "points"
      <4>1. local_ids'[r][q] = PointsOn(r, q) /\ distants'[r][q] = d
        BY <1>2, <2>3, <2>4, <3>3, OneChanged
      <4>2. HasList(r, q)' /\ UNCHANGED n_dist
        BY <1>2, <2>2, <2>4, <3>1, <3>3 DEF HasList, At
      <4>3. HasCount(r, q) /\ HasCount(r, q)'
        BY <1>2, <2>2, <3>3 DEF HasCount, At
      <4>4. QED
        BY <1>2, <2>2, <2>6, <3>1, <3>3, <4>1, <4>2, <4>3 DEF Filling
    <3>4. QED
      BY <2>1, <3>2, <3>3
  <2>10. ASSUME NEW s \in Ranks, NEW t \in Ranks, s # r PROVE Filling(s, t)'
    <3>1. Filling(s, t) /\ UNCHANGED <<pass[s], left[s]>>
      BY <1>2, <1>3, <1>5, <2>2, <2>10 DEF Lists
    <3>2. UNCHANGED <<n_dist[s][t], local_ids[s][t], distants[s][t]>>
      BY <2>5, <2>10
    <3>3. UNCHANGED <<setup, plan, partners, loc, interior>>
      BY <1>2, <2>1
    <3>4. QED
      BY <3>1, <3>2, <3>3, FillingKept
  <2>11. ASSUME NEW s \in Ranks, NEW t \in Ranks PROVE Filling(s, t)'
    BY <2>8, <2>9, <2>10
  <2>12. QED
    BY <1>2, <1>5, <2>11 DEF Lists
<1>6. QED
  BY <1>4, <1>5

LEMMA ContentLeave ==
  ASSUME LocatorInv, Theory!LoopInv, ContentInv, NEW r \in Ranks, Leave(r)
  PROVE  ContentInv'
<1>1. PICK q, d : q = Partner(r) /\ d = Incoming(r).data
  OBVIOUS
<1> DEFINE e == plan[pass[r] + 1]
<1>2. /\ q \in Ranks /\ pass[r] < Len(plan)
      /\ e.phase \in PhasesOf[stage] /\ d = Said(q, r, Loop!Stamp(r))
      /\ Received(r, q, d)
      /\ UNCHANGED <<setup, plan, pass, stage, round, todo, interior, partners>>
      /\ \A s, t \in Ranks : Range(chan'[<<s, t>>]) \subseteq Range(chan[<<s, t>>])
      /\ IF e.part = "first" /\ ~second[r]
         THEN second' = [second EXCEPT ![r] = TRUE] /\ UNCHANGED left
         ELSE second' = [second EXCEPT ![r] = FALSE] /\ left' = [left EXCEPT ![r] = @ \ {q}]
  BY <1>1, LeaveFacts
<1>3. /\ Staged /\ Sized /\ Spoken /\ Heard /\ aborted \in BOOLEAN
      /\ left \in [Ranks -> SUBSET Ranks] /\ second \in [Ranks -> BOOLEAN]
  BY RanksPlaced DEF ContentInv, Staged
<1>4. /\ aborted' \in BOOLEAN
      /\ \A s \in Ranks : s # r => got'[s] = got[s]
      /\ e.phase \notin Single /\ ~second[r] => got'[r] = d
  <2>1. e.phase \in Phases
    BY <1>2, <1>3, StagePhases
  <2>2. QED
    BY <1>2, <1>3, <2>1, ReceivedLists
<1>5. \A k \in Nat, u \in Ranks :
        pass[u] <= k /\ k < Len(plan) => \A s, t : Said(s, t, k)' = Said(s, t, k)
  BY LeaveKeeps
<1>6. Staged'
  BY <1>2, <1>3, <1>4 DEF Staged
<1>7. Spoken'
  <2> SUFFICES ASSUME NEW s \in Ranks, NEW t \in Ranks, NEW m \in Range(chan'[<<s, t>>])
               PROVE  m.data = Said(s, t, m.stamp)'
    BY DEF Spoken
  <2>1. m \in Range(chan[<<s, t>>])
    BY <1>2
  <2>2. m.stamp \in Nat /\ pass[t] <= m.stamp /\ m.stamp < Len(plan)
    BY <2>1, OnItsWay
  <2>3. Said(s, t, m.stamp)' = Said(s, t, m.stamp)
    BY <1>5, <2>2
  <2>4. QED
    BY <1>3, <2>1, <2>3 DEF Spoken
<1>8. Heard'
  <2> SUFFICES ASSUME NEW s \in Ranks, second'[s]
               PROVE  got'[s] = Said(Partner(s), s, pass[s])'
    BY DEF Heard
  <2>1. CASE s = r
    <3>1. e.part = "first" /\ ~second[r] /\ UNCHANGED left
      BY <1>2, <1>3, <2>1
    <3>2. e.phase \notin Single /\ Loop!Stamp(r) = pass[r] /\ pass[r] \in Nat
      BY <1>2, <3>1, CurrentEntry, SingleExchange
    <3>3. got'[r] = Said(q, r, pass[r])
      BY <1>2, <1>4, <3>1, <3>2
    <3>4. Said(q, r, pass[r])' = Said(q, r, pass[r])
      <4>1. pass[r] <= pass[r] /\ pass' = pass
        BY <1>2, <3>2
      <4>2. QED
        BY <1>2, <1>5, <3>2, <4>1
    <3>5. Partner(r)' = q
      BY <1>1, <3>1 DEF Partner
    <3>6. QED
      BY <2>1, <3>3, <3>4, <3>5
  <2>2. CASE s # r
    <3>1. second[s] /\ left'[s] = left[s] /\ got'[s] = got[s]
      BY <1>2, <1>3, <1>4, <2>2
    <3>2. Partner(s)' = Partner(s)
      BY <3>1 DEF Partner
    <3>3. pass[s] \in Nat /\ pass[s] < Len(plan) /\ pass[s] <= pass[s]
      BY <3>1, RanksPlaced DEF Placed
    <3>4. Said(Partner(s), s, pass[s])' = Said(Partner(s), s, pass[s])
      <4>1. pass' = pass
        BY <1>2
      <4>2. QED
        BY <1>5, <3>2, <3>3, <4>1
    <3>5. QED
      BY <1>3, <3>1, <3>4 DEF Heard
  <2>3. QED
    BY <2>1, <2>2
<1>9. Sized' /\ Lists'
  BY LeaveSized, LeaveLists
<1>10. QED
  BY <1>6, <1>7, <1>8, <1>9 DEF ContentInv

LEMMA ContentStep ==
  ASSUME LocatorInv, Theory!LoopInv, ContentInv, [Next]_vars
  PROVE  ContentInv'
<1>1. CASE Flags \/ GatherExtents \/ LocationRanks \/ Located
  BY <1>1, ContentFlags, ContentGather, ContentRanks, ContentLocated
<1>2. ASSUME NEW r \in Ranks, Enter(r) \/ Leave(r) \/ EndLoop(r)
      PROVE  ContentInv'
  BY <1>2, ContentEnter, ContentLeave, ContentEndLoop
<1>3. CASE UNCHANGED vars
  <2>1. UNCHANGED <<setup, plan, pass, second, left, chan, stage, round, loc, todo, got,
                    partners, interior, local_ids, n_dist, distants, aborted>>
    BY <1>3 DEF vars, lists
  <2>2. Staged /\ Sized /\ Lists /\ Spoken /\ Heard
    BY DEF ContentInv
  <2>3. Staged' /\ Sized'
    BY <2>1, <2>2, SizedKept DEF Staged
  <2>4. Lists'
    <3>1. \A s, t \in Ranks : Filling(s, t) => Filling(s, t)'
      BY <2>1, FillingKept
    <3>2. QED
      BY <2>1, <2>2, <3>1 DEF Lists, Matched
  <2>5. ASSUME NEW k \in Nat, NEW u \in Ranks, pass[u] <= k, k < Len(plan)
        PROVE  \A s, t : Said(s, t, k)' = Said(s, t, k)
    BY <2>1, <2>2, <2>5, SaidSteady
  <2>6. Spoken'
    <3> SUFFICES ASSUME NEW s \in Ranks, NEW t \in Ranks, NEW m \in Range(chan[<<s, t>>])
                 PROVE  m.data = Said(s, t, m.stamp)'
      BY <2>1 DEF Spoken
    <3>1. m.stamp \in Nat /\ pass[t] <= m.stamp /\ m.stamp < Len(plan)
      BY OnItsWay
    <3>2. Said(s, t, m.stamp)' = Said(s, t, m.stamp)
      BY <2>5, <3>1
    <3>3. QED
      BY <2>2, <3>2 DEF Spoken
  <2>7. Heard'
    <3> SUFFICES ASSUME NEW s \in Ranks, second[s]
                 PROVE  got[s] = Said(Partner(s), s, pass[s])'
      BY <2>1 DEF Heard
    <3>1. pass[s] \in Nat /\ pass[s] < Len(plan) /\ pass[s] <= pass[s]
      BY RanksPlaced DEF Placed
    <3>2. Partner(s)' = Partner(s)
      BY <2>1 DEF Partner
    <3>3. Said(Partner(s), s, pass[s])' = Said(Partner(s), s, pass[s])
      BY <2>1, <2>5, <3>1, <3>2
    <3>4. QED
      BY <2>2, <3>3 DEF Heard
  <2>8. QED
    BY <2>3, <2>4, <2>6, <2>7 DEF ContentInv
<1>4. QED
  BY <1>1, <1>2, <1>3 DEF Next

\* The points that a rank sends to another one, of those it has yet to locate.
LEMMA ChosenFit ==
  ASSUME LocatorInv, Sized, NEW r \in Ranks, NEW q \in Ranks
  PROVE  /\ Len(Chosen(r, q)) \in Nat /\ Len(Chosen(r, q)) <= Len(setup.pts[r])
         /\ DOMAIN Chosen(r, q) = 1 .. Len(Chosen(r, q))
<1> DEFINE S == {j \in DOMAIN todo[r] : Within(setup.pts[r][j], MeshExtents(q))}
           l == todo[r]
<1>1. /\ l \in Seq(DOMAIN setup.pts[r]) /\ Len(l) <= Len(setup.pts[r])
      /\ Len(setup.pts[r]) \in Nat /\ DOMAIN setup.pts[r] = 1 .. Len(setup.pts[r])
  BY PointLists DEF LocatorInv, Sized
<1>2. Chosen(r, q) = Ascending(S) /\ S \subseteq DOMAIN l
  BY DEF Chosen
<1> HIDE DEF S, l
<1>3. l \in Seq(Int) /\ Len(l) \in Nat
  <2>1. DOMAIN setup.pts[r] \subseteq Int
    BY <1>1
  <2>2. QED
    BY <1>1, <2>1, SeqMonotonic
<1>4. /\ Len(Ascending(S)) \in Nat /\ Len(Ascending(S)) <= Len(l)
      /\ DOMAIN Ascending(S) = 1 .. Len(Ascending(S))
  BY <1>2, <1>3, SomePoints
<1>5. QED
  BY <1>1, <1>2, <1>3, <1>4

\* A message made of a list has its length.
LEMMA SameLength ==
  ASSUME NEW n \in Nat, NEW f, f = [k \in 1 .. n |-> f[k]]
  PROVE  Len(f) = n
<1>1. DOMAIN f = 1 .. n /\ f = [k \in DOMAIN f |-> f[k]]
  OBVIOUS
<1>2. QED
  BY <1>1, ListOfLength

\* What arrives fits, in each of the exchanges.
LEMMA MessageFits ==
  ASSUME LocatorInv, Theory!LoopInv, ContentInv, NEW r \in Ranks, Arrived(r)
  PROVE  Len(Incoming(r).data) = Room(r, Partner(r))
<1>1. PICK q, d : q = Partner(r) /\ d = Incoming(r).data
  OBVIOUS
<1> DEFINE e == plan[pass[r] + 1]
           f == plan[pass[r] + 2]
           w == <<Partner(r), r>>
<1>2. /\ q \in left[r] /\ q \in Ranks /\ Incoming(r).stamp = Loop!Stamp(r)
      /\ Incoming(r) = chan[w][1] /\ 1 \in 1 .. Len(chan[w])
  BY <1>1, ArrivesInTime
<1>3. Staged /\ Sized /\ Lists /\ Spoken /\ Heard /\ Transit /\ DOMAIN chan = Ranks \X Ranks
  BY DEF ContentInv, LocatorInv, Transit
<1>4. d = Said(q, r, Loop!Stamp(r))
  <2>1. PICK S : chan[w] \in Seq(S)
    BY <1>1, <1>2, <1>3 DEF Transit
  <2>2. Incoming(r) \in Range(chan[w])
    BY <1>2, <2>1 DEF Range
  <2>3. QED
    BY <1>1, <1>2, <1>3, <2>2 DEF Spoken
<1>5. pass[r] < Len(plan) /\ pass[r] \in Nat /\ pass[r] + 1 \in pass[r] + 1 .. Len(plan)
  <2>1. pass[r] < Len(plan)
    BY <1>2, RanksPlaced DEF Placed
  <2>2. QED
    BY <2>1, CurrentEntry
<1>6. e.phase \in PhasesOf[stage] /\ e.phase \in Phases
  BY <1>3, <1>5, StageOf, StagePhases
<1>7. /\ e.phase \in Single => ~second[r]
      /\ ~second[r] => Loop!Stamp(r) = pass[r]
      /\ second[r] => /\ Loop!Stamp(r) = pass[r] + 1 /\ (pass[r] + 1) + 1 = pass[r] + 2
                      /\ f.part = "second" /\ f.phase = e.phase /\ f.call = e.call
      /\ e.phase \notin Single => e.part = "first"
  <2>1. /\ e.phase \notin Single => e.part = "first"
        /\ e.part = "first" => Follows(e, f)
        /\ e.part = "only" <=> e.phase \in Single
    BY <1>5, CurrentEntry, SingleExchange
  <2>2. e.phase \in Single => ~second[r]
    BY <1>5, SingleExchange
  <2>3. ~second[r] => Loop!Stamp(r) = pass[r]
    BY <1>5, SingleExchange
  <2>4. second[r] => Loop!Stamp(r) = pass[r] + 1
    BY <1>5, SingleExchange
  <2>5. QED
    BY <1>5, <2>1, <2>2, <2>3, <2>4 DEF Follows
<1>8. /\ \A s, t \in Ranks : Listlike(local_ids[s][t]) /\ Listlike(distants[s][t])
      /\ \A s, t \in Ranks : Len(local_ids[s][t]) \in Nat /\ Len(distants[s][t]) \in Nat
      /\ \A s, t \in Ranks : DOMAIN local_ids[s][t] = 1 .. Len(local_ids[s][t])
      /\ \A s, t \in Ranks : DOMAIN distants[s][t] = 1 .. Len(distants[s][t])
  <2>1. \A s : Listlike(s) => Len(s) \in Nat /\ DOMAIN s = 1 .. Len(s)
    BY DEF Listlike
  <2>2. QED
    BY <1>3, <2>1 DEF Sized
<1>9. stage # "located" => \A s, t \in Ranks : Len(distants[s][t]) = Len(local_ids[t][s])
  BY <1>3 DEF Lists, Matched
<1> SUFFICES Len(d) = Room(r, q)
  BY <1>1
<1>10. CASE e.phase = "transfer"
  <2>1. Room(r, q) = Len(local_ids[r][q])
    BY <1>10 DEF Room, At
  <2>2. d = [k \in 1 .. Len(distants[q][r]) |-> distants[q][r][k].elt]
    BY <1>2, <1>4, <1>7, <1>8, <1>10 DEF Said, Single
  <2>3. Len(d) = Len(distants[q][r])
    BY <1>2, <1>8, <2>2, SameLength
  <2>4. stage # "located"
    BY <1>3, <1>6, <1>10, StagePhases
  <2>5. QED
    BY <1>2, <1>9, <1>10, <2>1, <2>3, <2>4
<1>11. CASE e.phase = "search" /\ ~second[r]
  <2>1. Room(r, q) = Len(Chosen(q, r))
    BY <1>11 DEF Room, At
  <2>2. /\ Len(Chosen(q, r)) \in Nat
        /\ DOMAIN Chosen(q, r) = 1 .. Len(Chosen(q, r))
    BY <1>2, <1>3, ChosenFit
  <2>3. d = Coords(q, r)
    BY <1>4, <1>7, <1>11 DEF Said, Single
  <2>4. d = [k \in 1 .. Len(Chosen(q, r)) |-> d[k]]
    BY <2>2, <2>3 DEF Coords
  <2>5. Len(d) = Len(Chosen(q, r))
    BY <2>2, <2>4, SameLength
  <2>6. QED
    BY <1>11, <2>1, <2>2, <2>5
<1>12. CASE e.phase = "search" /\ second[r]
  <2>1. Room(r, q) = Len(Chosen(r, q))
    BY <1>12 DEF Room, At
  <2>2. /\ Len(Chosen(r, q)) \in Nat
        /\ DOMAIN Chosen(r, q) = 1 .. Len(Chosen(r, q))
    BY <1>2, <1>3, ChosenFit
  <2>3. d = [j \in DOMAIN Coords(r, q) |-> Locate(q, Coords(r, q)[j])]
    BY <1>4, <1>7, <1>12 DEF Said, Single
  <2>4. DOMAIN Coords(r, q) = 1 .. Len(Chosen(r, q))
    BY <2>2 DEF Coords
  <2>5. d = [k \in 1 .. Len(Chosen(r, q)) |-> d[k]]
    BY <2>3, <2>4
  <2>6. Len(d) = Len(Chosen(r, q))
    BY <2>2, <2>5, SameLength
  <2>7. QED
    BY <1>12, <2>1, <2>6
<1>13. CASE e.phase = "counts"
  <2>1. Room(r, q) = 1
    BY <1>13 DEF Room, At
  <2>2. d = <<Len(PointsOn(q, r))>>
    BY <1>4, <1>7, <1>13 DEF Said, Single
  <2>3. QED
    BY <1>13, <2>1, <2>2
<1>14. CASE e.phase = "points"
  <2>1. Room(r, q) = n_dist[r][q]
    BY <1>14 DEF Room, At
  <2>2. d = Told(q, r)
    BY <1>4, <1>7, <1>14 DEF Said, Single
  <2>3. Len(Told(q, r)) = Len(PointsOn(q, r))
    BY <1>2, <1>3, PointsListed
  <2>4. stage = "located"
    BY <1>3, <1>6, <1>14, StagePhases
  <2>5. HasCount(r, q)
    <3>1. e.with = partners
      BY <1>3, <1>5, <2>4 DEF Staged
    <3>2. left[r] \subseteq e.with[r]
      BY <1>5, RanksPlaced DEF Placed
    <3>3. QED
      BY <1>2, <1>5, <1>14, <3>1, <3>2 DEF HasCount, At
  <2>6. n_dist[r][q] = Len(PointsOn(q, r))
    BY <1>2, <1>3, <2>4, <2>5 DEF Lists, Filling
  <2>7. QED
    BY <1>14, <2>1, <2>2, <2>3, <2>6
<1>15. CASE e.phase = "exchange" /\ ~second[r]
  <2>1. Room(r, q) = 1
    BY <1>15 DEF Room, At
  <2>2. d = <<FlagOf(q, r, e.call)>>
    BY <1>4, <1>7, <1>15 DEF Said, Single
  <2>3. QED
    BY <1>15, <2>1, <2>2
<1>16. CASE e.phase = "exchange" /\ second[r]
  <2>1. stage # "located"
    BY <1>3, <1>6, <1>16, StagePhases
  <2>2. got[r] = <<FlagOf(q, r, e.call)>> /\ got[r][1] = FlagOf(q, r, e.call)
    <3>1. got[r] = Said(q, r, pass[r])
      BY <1>1, <1>3, <1>16 DEF Heard
    <3>2. e.part = "first"
      BY <1>7, <1>16 DEF Single
    <3>3. Said(q, r, pass[r]) = <<FlagOf(q, r, e.call)>>
      BY <1>16, <3>2 DEF Said
    <3>4. QED
      BY <3>1, <3>3
  <2>3. Room(r, q) = IF setup.calls[e.call].reverse
                     THEN IF FlagOf(r, q, e.call) THEN Len(distants[r][q]) ELSE 0
                     ELSE IF FlagOf(q, r, e.call) THEN Len(local_ids[r][q]) ELSE 0
    BY <1>16, <2>2 DEF Room, At, Call, Flag, FlagOf
  <2>4. d = IF setup.calls[e.call].reverse
            THEN IF FlagOf(r, q, e.call) THEN LocalVar(q, r) ELSE <<>>
            ELSE IF FlagOf(q, r, e.call) THEN DistantVar(q, r) ELSE <<>>
    BY <1>4, <1>7, <1>16 DEF Said
  <2>5. Len(LocalVar(q, r)) = Len(local_ids[q][r])
    <3>1. LocalVar(q, r) = [k \in 1 .. Len(local_ids[q][r]) |-> LocalVar(q, r)[k]]
      BY <1>2, <1>8 DEF LocalVar
    <3>2. QED
      BY <1>2, <1>8, <3>1, SameLength
  <2>6. Len(DistantVar(q, r)) = Len(distants[q][r])
    <3>1. DistantVar(q, r) = [k \in 1 .. Len(distants[q][r]) |-> DistantVar(q, r)[k]]
      BY <1>2, <1>8 DEF DistantVar
    <3>2. QED
      BY <1>2, <1>8, <3>1, SameLength
  <2>7. Len(<<>>) = 0
    OBVIOUS
  <2>8. Len(distants[r][q]) = Len(local_ids[q][r]) /\ Len(distants[q][r]) = Len(local_ids[r][q])
    BY <1>2, <1>9, <2>1
  <2>9. QED
    BY <1>16, <2>3, <2>4, <2>5, <2>6, <2>7, <2>8
<1>17. QED
  BY <1>6, <1>10, <1>11, <1>12, <1>13, <1>14, <1>15, <1>16 DEF Phases

LEMMA TypesFollow ==
  ASSUME LocatorInv, Theory!LoopInv, ContentInv
  PROVE  TypeOK
<1>1. Staged /\ Sized /\ setup \in Setups
  BY DEF ContentInv, LocatorInv
<1>2. /\ \A r \in Ranks : Placed(r)
      /\ left \in [Ranks -> SUBSET Ranks]
      /\ posted \in [Ranks -> BOOLEAN] /\ second \in [Ranks -> BOOLEAN]
  BY RanksPlaced
<1>3. pass \in [Ranks -> 0 .. Len(plan)]
  <2>1. pass \in [Ranks -> Nat]
    BY DEF LocatorInv, Positioned
  <2>2. ASSUME NEW r \in Ranks PROVE pass[r] \in 0 .. Len(plan)
    <3>1. pass[r] \in Nat /\ pass[r] <= Len(plan) /\ Len(plan) \in Nat
      BY <1>2 DEF Placed
    <3>2. QED
      BY <3>1
  <2>3. QED
    BY <2>1, <2>2
<1>4. \A S, s : s \in Seq(S) => Range(s) \subseteq S
  BY DEF Range
<1>5. \A r \in Ranks :
        /\ partners[r] \subseteq setup.far[r]
        /\ Range(todo[r]) \cup Range(interior[r]) \subseteq DOMAIN setup.pts[r]
        /\ \A q \in Ranks : Len(local_ids[r][q]) <= Len(interior[r])
  BY <1>1, <1>4 DEF Sized
<1>6. QED
  BY <1>1, <1>2, <1>3, <1>5 DEF TypeOK, Staged, Stages

-------------------------------------------------------------------------------
\* What is said is what the lists of both ends give, all through the search, its
\* extensions and the exchanges, for any ranks, points, elements, tolerances and calls.
THEOREM ListsMatch == Spec => []ContentInv
<1>1. Init => ContentInv
  BY ContentInit
<1>2. LocatorInv /\ Theory!LoopInv /\ ContentInv /\ [Next]_vars => ContentInv'
  BY ContentStep
<1>3. Theory!LoopSpec => []Theory!LoopInv
  BY Theory!LoopInvInductive, RanksAssumption
<1>4. QED
  BY <1>1, <1>2, <1>3, LocatorLoops, PlansAgree, PTL DEF Spec

\* Hence each array has the room for what is received in it, and is filled.
THEOREM MessagesAlwaysFit == Spec => []MessagesFit
<1>1. LocatorInv /\ Theory!LoopInv /\ ContentInv => MessagesFit
  BY MessageFits DEF MessagesFit
<1>2. Theory!LoopSpec => []Theory!LoopInv
  BY Theory!LoopInvInductive, RanksAssumption
<1>3. QED
  BY <1>1, <1>2, LocatorLoops, PlansAgree, ListsMatch, PTL

\* The lists hold points of the rank that keeps them, no more than it has.
THEOREM LocatorTyped == Spec => []TypeOK
<1>1. LocatorInv /\ Theory!LoopInv /\ ContentInv => TypeOK
  BY TypesFollow
<1>2. Theory!LoopSpec => []Theory!LoopInv
  BY Theory!LoopInvInductive, RanksAssumption
<1>3. QED
  BY <1>1, <1>2, LocatorLoops, PlansAgree, ListsMatch, PTL

-------------------------------------------------------------------------------
(***************************************************************************)
(* What the values reach.  A point is located on a rank of the other side, *)
(* which its own rank then exchanges with; the lists of both ends number   *)
(* the same points; and what a rank has written is what the ranks that it  *)
(* has visited had for it, in each of the calls of the plan.               *)
(***************************************************************************)

\* Points are located on ranks that are searched, and there only.
Traced ==
  /\ \A r \in Ranks : \A k \in pass[r] + 1 .. Len(plan) :
       \A s \in Ranks : plan[k].with[s] \subseteq setup.far[s]
  /\ \A r \in Ranks : \A p \in DOMAIN loc[r] : loc[r][p].rank \in setup.far[r] \cup {-1}
  /\ stage # "flags" => \A r \in Ranks : DOMAIN loc[r] = DOMAIN setup.pts[r]

\* The list of the located points, and the ranks that they are located on.
Found(r) == {p \in DOMAIN loc[r] : loc[r][p].rank > -1}
Indexed ==
  stage \in {"located", "done"} => \A r \in Ranks :
    /\ interior[r] = Ascending(Found(r))
    /\ \A q \in Ranks : LocatedOn(r, q) => q \in partners[r]

\* What r and q keep of the points of each other that they have located.
TiedTo(r, q) ==
  /\ distants[r][q] = Told(q, r)
  /\ Len(local_ids[r][q]) = Len(PointsOn(r, q))
  /\ \A k \in 1 .. Len(PointsOn(r, q)) :
       /\ local_ids[r][q][k] \in DOMAIN interior[r]
       /\ interior[r][local_ids[r][q][k]] = PointsOn(r, q)[k]
Tied == stage = "done" => \A r \in Ranks : \A q \in partners[r] : TiedTo(r, q)

\* The loops of the calls: each visit is made of two exchanges, k being the first.
Visits == {k \in 1 .. Len(plan) : plan[k].phase = "exchange" /\ plan[k].part = "first"}
Laid == {plan[k].call : k \in Visits} = IF stage = "done" THEN DOMAIN setup.calls ELSE {}

\* r has ended its visit of q, or has ended its first exchange.
Over(r, q, k) ==
  q \in partners[r] /\ (k <= pass[r] \/ (k = pass[r] + 1 /\ q \notin left[r]))
Warned(r, q, k) == Over(r, q, k) \/ (k = pass[r] + 1 /\ second[r] /\ q = Partner(r))

\* What r receives from q in call c, and what it makes of it.
Values(r, q, c) ==
  IF setup.calls[c].reverse THEN IF FlagOf(r, q, c) THEN LocalVar(q, r) ELSE <<>>
  ELSE IF FlagOf(q, r, c) THEN DistantVar(q, r) ELSE <<>>
Item(r, q, c, k) ==
  [call |-> c, at |-> IF setup.calls[c].reverse THEN <<q, k>> ELSE <<0, local_ids[r][q][k]>>,
   val |-> Values(r, q, c)[k]]
Items(r, q, c) == {Item(r, q, c, k) : k \in DOMAIN Values(r, q, c)}
Givers(r, k) == {q \in Ranks : Over(r, q, k)}
Gift(r, q, k) == Items(r, q, plan[k].call)
Given(r) == UNION {UNION {Gift(r, q, k) : q \in Givers(r, k)} : k \in Visits}
Results == result = [r \in Ranks |-> Given(r)]

\* Who has been told of values has an array for them, or the run stops.
Agreed ==
  ~aborted => \A r, q \in Ranks : \A k \in Visits :
    Warned(r, q, k) /\ FlagOf(q, r, plan[k].call) => r \in setup.calls[plan[k].call].loc
Stopped ==
  aborted => /\ \E r \in Ranks : pass[r] < Len(plan)
             /\ \E c \in DOMAIN setup.calls : ~Coherent(c)

ReachInv == Traced /\ Indexed /\ Tied /\ Laid /\ Results /\ Agreed /\ Stopped

LEMMA GivenHolds ==
  ASSUME NEW r, NEW v
  PROVE  v \in Given(r) <=> \E k \in Visits, q \in Ranks :
                              Over(r, q, k) /\ v \in Gift(r, q, k)
  BY DEF Given, Givers

\* Before the last collective operation, nothing has been exchanged.
LEMMA NoVisit ==
  ASSUME Laid, stage # "done"
  PROVE  Visits = {}
  BY DEF Laid

LEMMA NothingGiven ==
  ASSUME \A r, q \in Ranks : \A k \in Visits : ~Over(r, q, k)
  PROVE  \A r \in Ranks : Given(r) = {}
<1> SUFFICES ASSUME NEW r \in Ranks, NEW v \in Given(r) PROVE FALSE
  OBVIOUS
<1>1. QED
  BY GivenHolds

LEMMA ReachInit == Init => ReachInv
<1> SUFFICES ASSUME Init PROVE ReachInv
  OBVIOUS
<1>1. /\ setup \in Setups /\ plan = <<>> /\ pass = [r \in Ranks |-> 0]
      /\ stage = "flags" /\ aborted = FALSE /\ loc = [r \in Ranks |-> <<>>]
      /\ result = [r \in Ranks |-> {}]
  BY DEF Init
<1>2. Len(plan) = 0 /\ 1 .. 0 = {} /\ 0 + 1 .. 0 = {}
  BY <1>1
<1>3. Visits = {}
  BY <1>2 DEF Visits
<1>4. Traced
  <2>1. \A r \in Ranks : DOMAIN loc[r] = {} /\ pass[r] + 1 .. Len(plan) = {}
    <3>1. DOMAIN <<>> = {}
      BY NothingListed
    <3>2. QED
      BY <1>1, <1>2, <3>1
  <2>2. QED
    BY <1>1, <2>1 DEF Traced
<1>5. Indexed /\ Tied /\ Laid /\ Stopped
  BY <1>1, <1>3 DEF Indexed, Tied, Laid, Stopped
<1>6. Results
  <2>1. \A r \in Ranks : Given(r) = {}
    BY <1>3, NothingGiven
  <2>2. QED
    BY <1>1, <2>1 DEF Results
<1>7. Agreed
  BY <1>3 DEF Agreed
<1>8. QED
  BY <1>4, <1>5, <1>6, <1>7 DEF ReachInv

\* After a collective operation, the visits of its loops are still to come.
LEMMA DecideReach ==
  ASSUME LocatorInv, Theory!LoopInv, Staged, ReachInv, stage # "done", NEW next \in Stages,
         NEW loops, PlanOK(loops), Decide(next, loops), round' \in Nat,
         \A j \in 1 .. Len(loops) :
           /\ loops[j].phase \in PhasesOf[next]
           /\ next # "ranks" => loops[j].with = partners'
           /\ loops[j].phase = "counts" => j < Len(loops) /\ loops[j + 1].phase = "points"
           /\ loops[j].phase = "points" => j = Len(loops)
  PROVE  /\ Results' /\ Agreed' /\ Stopped' /\ (next # "done" => Laid')
         /\ \A k : k \in Visits' <=> /\ k - Len(plan) \in 1 .. Len(loops)
                                     /\ k = Len(plan) + (k - Len(plan))
                                     /\ loops[k - Len(plan)].phase = "exchange"
                                     /\ loops[k - Len(plan)].part = "first"
<1>1. /\ \A r \in Ranks : pass'[r] = Len(plan)
      /\ Len(plan) \in Nat /\ Len(loops) \in Nat
      /\ Len(plan') = Len(plan) + Len(loops)
      /\ \A j \in 1 .. Len(loops) : plan'[Len(plan) + j] = loops[j]
      /\ \A j \in 1 .. Len(plan) : plan'[j] = plan[j]
      /\ \A r, q \in Ranks : second[r] = FALSE
  <2>1. /\ PlanOK(plan) /\ plan' = plan \o loops
        /\ \A r \in Ranks : pass[r] = Len(plan)
    BY DEF LocatorInv, Decide
  <2>2. \A j \in 1 .. Len(plan) : plan'[j] = plan[j]
    BY <2>1, PlanAppend
  <2>3. \A r, q \in Ranks : second[r] = FALSE
    BY <2>1, AllGathered
  <2>4. QED
    BY <2>2, <2>3, DecideStage
<1>2. /\ ~aborted /\ ~aborted' /\ stage' = next
      /\ UNCHANGED <<setup, second, result, pass>>
      /\ left' = [r \in Ranks |-> Loop!Begins(plan', pass[r], r)]
  BY DEF Decide
<1>3. Visits = {}
  BY NoVisit DEF ReachInv
<1>4. \A k : k \in Visits' <=> /\ k - Len(plan) \in 1 .. Len(loops)
                               /\ k = Len(plan) + (k - Len(plan))
                               /\ loops[k - Len(plan)].phase = "exchange"
                               /\ loops[k - Len(plan)].part = "first"
  <2>1. ASSUME NEW k \in Visits'
        PROVE  k - Len(plan) \in 1 .. Len(loops) /\ k = Len(plan) + (k - Len(plan))
    <3>1. k \in 1 .. Len(plan) + Len(loops)
      BY <1>1 DEF Visits
    <3>2. k \notin 1 .. Len(plan)
      BY <1>1, <1>3 DEF Visits
    <3>3. QED
      BY <1>1, <3>1, <3>2
  <2>2. ASSUME NEW k, k - Len(plan) \in 1 .. Len(loops), k = Len(plan) + (k - Len(plan))
        PROVE  /\ k \in 1 .. Len(plan')
               /\ plan'[k] = loops[k - Len(plan)]
    <3>1. PICK j \in 1 .. Len(loops) : j = k - Len(plan) /\ k = Len(plan) + j
      BY <2>2
    <3>2. k \in 1 .. Len(plan')
      BY <1>1, <3>1
    <3>3. QED
      BY <1>1, <3>1, <3>2
  <2>3. QED
    BY <2>1, <2>2 DEF Visits
<1>5. ASSUME NEW k \in Visits', NEW r \in Ranks, NEW q \in Ranks
      PROVE  ~Over(r, q, k)' /\ ~Warned(r, q, k)'
  <2>1. PICK j \in 1 .. Len(loops) : /\ k = Len(plan) + j
                                     /\ loops[j].phase = "exchange"
    BY <1>4
  <2>2. loops[j].phase \in PhasesOf[next] /\ next # "ranks" => loops[j].with = partners'
    OBVIOUS
  <2>3. next # "ranks"
    BY <2>1 DEF PhasesOf
  <2>4. plan'[k].with = partners'
    BY <1>1, <2>1, <2>3
  <2>5. ~(k <= pass'[r])
    BY <1>1, <2>1
  <2>6. k = pass'[r] + 1 => left'[r] = partners'[r]
    <3>1. ASSUME k = pass'[r] + 1 PROVE left'[r] = partners'[r]
      <4>1. pass[r] < Len(plan') /\ pass[r] + 1 = k
        BY <1>1, <1>2, <2>1, <3>1
      <4>2. QED
        BY <1>2, <2>4, <4>1 DEF Loop!Begins
    <3>2. QED
      BY <3>1
  <2>7. ~Over(r, q, k)'
    BY <2>5, <2>6 DEF Over
  <2>8. QED
    BY <1>1, <1>2, <2>7 DEF Warned
<1>6. Results'
  <2>1. \A r \in Ranks : Given(r) = {}
    BY <1>3, NothingGiven
  <2>2. result = [r \in Ranks |-> {}]
    BY <2>1 DEF ReachInv, Results
  <2>3. ASSUME NEW r \in Ranks PROVE Given(r)' = {}
    BY <1>5 DEF Given, Givers
  <2>4. QED
    BY <1>2, <2>2, <2>3 DEF Results
<1>7. Agreed'
  BY <1>5 DEF Agreed
<1>8. Stopped'
  BY <1>2 DEF Stopped
<1>9. next # "done" => Laid'
  <2>1. ASSUME next # "done", NEW k \in Visits' PROVE FALSE
    <3>1. PICK j \in 1 .. Len(loops) : loops[j].phase = "exchange"
      BY <1>4, <2>1
    <3>2. "exchange" \in PhasesOf[next]
      BY <3>1
    <3>3. QED
      BY <2>1, <3>2 DEF PhasesOf, Stages
  <2>2. QED
    BY <1>2, <2>1 DEF Laid
<1>10. QED
  BY <1>4, <1>6, <1>7, <1>8, <1>9

\* The loops to come are between ranks that search each other.
LEMMA DecideTraced ==
  ASSUME LocatorInv, NEW next, NEW loops, PlanOK(loops), Decide(next, loops),
         \A j \in 1 .. Len(loops) : \A s \in Ranks : loops[j].with[s] \subseteq setup.far[s]
  PROVE  \A r \in Ranks : \A k \in pass'[r] + 1 .. Len(plan') :
           \A s \in Ranks : plan'[k].with[s] \subseteq setup'.far[s]
<1>1. /\ PlanOK(plan) /\ plan' = plan \o loops
      /\ UNCHANGED <<setup, pass>> /\ \A r \in Ranks : pass[r] = Len(plan)
  BY DEF LocatorInv, Decide
<1>2. /\ Len(plan) \in Nat /\ Len(loops) \in Nat /\ Len(plan') = Len(plan) + Len(loops)
      /\ \A j \in 1 .. Len(loops) : plan'[Len(plan) + j] = loops[j]
  <2>1. plan \in Seq(Entries) /\ loops \in Seq(Entries)
    BY <1>1 DEF PlanOK
  <2>2. Len(plan) \in Nat /\ Len(loops) \in Nat
    BY <2>1
  <2>3. /\ Len(plan \o loops) = Len(plan) + Len(loops)
        /\ \A i \in 1 .. Len(plan) + Len(loops) :
             (plan \o loops)[i] = IF i <= Len(plan) THEN plan[i] ELSE loops[i - Len(plan)]
    BY <2>1, ConcatProperties
  <2>4. ASSUME NEW j \in 1 .. Len(loops) PROVE plan'[Len(plan) + j] = loops[j]
    <3>1. /\ Len(plan) + j \in 1 .. Len(plan) + Len(loops) /\ ~(Len(plan) + j <= Len(plan))
          /\ (Len(plan) + j) - Len(plan) = j
      BY <2>2
    <3>2. QED
      BY <1>1, <2>3, <3>1
  <2>5. QED
    BY <1>1, <2>2, <2>3, <2>4
<1> SUFFICES ASSUME NEW r \in Ranks, NEW k \in pass'[r] + 1 .. Len(plan'), NEW s \in Ranks
             PROVE  plan'[k].with[s] \subseteq setup'.far[s]
  OBVIOUS
<1>3. PICK j \in 1 .. Len(loops) : k = Len(plan) + j
  <2>1. k - Len(plan) \in 1 .. Len(loops) /\ k = Len(plan) + (k - Len(plan))
    BY <1>1, <1>2
  <2>2. QED
    BY <2>1
<1>4. QED
  BY <1>1, <1>2, <1>3

LEMMA FarRanks ==
  ASSUME setup \in Setups
  PROVE  \A r \in Ranks : setup.far[r] \subseteq Ranks /\ setup.far[r] \subseteq Nat
                          /\ -1 \notin setup.far[r]
<1>1. setup.far \in [Ranks -> SUBSET Ranks]
  BY SetupAssumption
<1>2. \A n \in Nat : n # -1
  OBVIOUS
<1>3. QED
  BY <1>1, <1>2, RanksAssumption

\* Without points, there is nothing located and nothing listed.
LEMMA NoPointNoList ==
  ASSUME LocatorInv, Sized, NEW r \in Ranks, setup.pts[r] = <<>>
  PROVE  interior[r] = <<>> /\ \A S : S \subseteq {} => Ascending(S) = <<>>
<1>1. /\ setup.pts[r] \in Seq(Int) /\ Len(setup.pts[r]) = 0 /\ DOMAIN setup.pts[r] = {}
  BY PointLists, NothingListed DEF LocatorInv
<1>2. interior[r] \in Seq(DOMAIN setup.pts[r]) /\ Len(interior[r]) <= Len(setup.pts[r])
  BY DEF Sized
<1>3. interior[r] = <<>>
  <2>1. Len(interior[r]) \in Nat
    BY <1>2
  <2>2. Len(interior[r]) = 0
    BY <1>1, <1>2, <2>1
  <2>3. QED
    BY <1>2, <2>2, EmptySeq
<1>4. ASSUME NEW S, S \subseteq {} PROVE Ascending(S) = <<>>
  <2>1. /\ Ascending(S) \in Seq(DOMAIN setup.pts[r]) /\ Len(Ascending(S)) \in Nat
        /\ Len(Ascending(S)) <= Len(setup.pts[r])
    BY <1>1, <1>4, SomePoints
  <2>2. Len(Ascending(S)) = 0
    BY <1>1, <2>1
  <2>3. QED
    BY <2>1, <2>2, EmptySeq
<1>5. QED
  BY <1>3, <1>4

LEMMA ReachFlags ==
  ASSUME LocatorInv, Theory!LoopInv, ContentInv, ReachInv, Flags
  PROVE  ReachInv'
<1>1. /\ loc' = [r \in Ranks |-> [p \in DOMAIN setup.pts[r] |-> Unlocated]]
      /\ UNCHANGED <<round, todo, partners, interior, local_ids, n_dist, distants>>
      /\ stage = "flags"
  BY DEF Flags, lists
<1>2. /\ Staged /\ Sized /\ setup \in Setups
      /\ partners \in [Ranks -> SUBSET Ranks] /\ Loop!Symmetric(partners)
  BY DEF ContentInv, LocatorInv, Related
<1>3. round' \in Nat /\ stage # "done" /\ UNCHANGED setup
  BY <1>1, <1>2 DEF Staged, Flags, Decide
<1>4. \A r \in Ranks : DOMAIN loc'[r] = DOMAIN setup.pts[r]
                       /\ \A p \in DOMAIN loc'[r] : loc'[r][p].rank = -1
  BY <1>1 DEF Unlocated
<1>5. CASE \A r \in Ranks : setup.pts[r] = <<>>
  <2>1. Decide("located", <<>>)
    BY <1>5 DEF Flags
  <2>2. "located" \in Stages /\ PlanOK(<<>>) /\ Len(<<>>) = 0 /\ 1 .. 0 = {}
    BY NoPlan DEF Stages
  <2>3. Results' /\ Agreed' /\ Stopped' /\ Laid'
    BY <1>3, <2>1, <2>2, <1>2, DecideReach
  <2>4. stage' = "located"
    BY <2>1 DEF Decide
  <2>5. Traced'
    <3>1. \A r \in Ranks : \A k \in pass'[r] + 1 .. Len(plan') :
            \A s \in Ranks : plan'[k].with[s] \subseteq setup'.far[s]
      BY <2>1, <2>2, DecideTraced
    <3>2. QED
      BY <1>3, <1>4, <3>1 DEF Traced
  <2>6. Indexed'
    <3>1. ASSUME NEW r \in Ranks
          PROVE  /\ interior'[r] = Ascending(Found(r)')
                 /\ \A q \in Ranks : ~LocatedOn(r, q)'
      <4>1. DOMAIN loc'[r] = {}
        BY <1>4, <1>5, NothingListed
      <4>2. Found(r)' \subseteq {}
        BY <4>1 DEF Found
      <4>3. interior[r] = <<>> /\ Ascending(Found(r)') = <<>>
        BY <1>2, <1>5, <4>2, NoPointNoList
      <4>4. QED
        BY <1>1, <4>1, <4>3 DEF LocatedOn
    <3>2. ASSUME NEW r \in Ranks PROVE Ascending(Found(r))' = Ascending(Found(r)')
      BY DEF Ascending
    <3>3. QED
      BY <3>1, <3>2 DEF Indexed
  <2>7. Tied'
    BY <2>4 DEF Tied
  <2>8. QED
    BY <2>3, <2>5, <2>6, <2>7 DEF ReachInv
<1>6. CASE ~ \A r \in Ranks : setup.pts[r] = <<>>
  <2> DEFINE o == Once(partners, "transfer")
  <2>1. Decide("extents", o)
    BY <1>6 DEF Flags
  <2>2. /\ PlanOK(o) /\ Len(o) = 1 /\ o[1] = Entry(partners, "transfer", "only", 0)
        /\ "extents" \in Stages
    BY <1>2, OncePlan DEF Single, Stages
  <2>3. Entry(partners, "transfer", "only", 0).with = partners
        /\ Entry(partners, "transfer", "only", 0).phase = "transfer"
    BY DEF Entry
  <2> HIDE DEF o
  <2>4. \A j \in 1 .. Len(o) : /\ o[j].phase = "transfer" /\ o[j].with = partners
                               /\ o[j].phase \in PhasesOf["extents"]
    BY <2>2, <2>3 DEF PhasesOf
  <2>5. Results' /\ Agreed' /\ Stopped' /\ Laid'
    <3>1. \A j \in 1 .. Len(o) :
            /\ o[j].phase \in PhasesOf["extents"] /\ o[j].with = partners'
            /\ o[j].phase # "counts" /\ o[j].phase # "points"
      BY <1>1, <2>4
    <3>2. "extents" # "done"
      OBVIOUS
    <3>3. QED
      BY <1>2, <1>3, <2>1, <2>2, <3>1, <3>2, DecideReach
  <2>6. stage' = "extents"
    BY <2>1 DEF Decide
  <2>7. Traced'
    <3>1. \A j \in 1 .. Len(o) : \A s \in Ranks : o[j].with[s] \subseteq setup.far[s]
      BY <1>2, <2>4 DEF Sized
    <3>2. \A r \in Ranks : \A k \in pass'[r] + 1 .. Len(plan') :
            \A s \in Ranks : plan'[k].with[s] \subseteq setup'.far[s]
      BY <2>1, <2>2, <3>1, DecideTraced
    <3>3. QED
      BY <1>3, <1>4, <3>2 DEF Traced
  <2>8. Indexed' /\ Tied'
    BY <2>6 DEF Indexed, Tied
  <2>9. QED
    BY <2>5, <2>7, <2>8 DEF ReachInv
<1>7. QED
  BY <1>5, <1>6

LEMMA ReachGather ==
  ASSUME LocatorInv, Theory!LoopInv, ContentInv, ReachInv, GatherExtents
  PROVE  ReachInv'
<1> DEFINE w == Intersects([r \in Ranks |-> Len(todo'[r])])
           b == Both(w, "search")
<1>1. stage = "extents" /\ Decide("ranks", b) /\ UNCHANGED <<round, loc>>
  BY DEF GatherExtents
<1>2. /\ Staged /\ Sized /\ setup \in Setups
  BY DEF ContentInv, LocatorInv
<1>3. round' \in Nat /\ stage # "done" /\ UNCHANGED setup /\ stage' = "ranks"
  BY <1>1, <1>2 DEF Staged, Decide
<1>4. w \in [Ranks -> SUBSET Ranks] /\ Loop!Symmetric(w)
  BY <1>2, IntersectsSymmetric
<1>5. \A s \in Ranks : w[s] \subseteq setup.far[s]
  BY DEF Intersects
<1> HIDE DEF w
<1>6. /\ PlanOK(b) /\ Len(b) = 2 /\ b[1] = Entry(w, "search", "first", 0)
      /\ b[2] = Entry(w, "search", "second", 0) /\ "ranks" \in Stages
  BY <1>4, BothPlan DEF Stages
<1>7. \A p : Entry(w, "search", p, 0).with = w /\ Entry(w, "search", p, 0).phase = "search"
  BY DEF Entry
<1> HIDE DEF b
<1>8. \A j \in 1 .. Len(b) : /\ b[j].phase = "search" /\ b[j].with = w
                             /\ b[j].phase \in PhasesOf["ranks"]
  <2>1. \A j \in 1 .. 2 : j = 1 \/ j = 2
    OBVIOUS
  <2>2. QED
    BY <1>6, <1>7, <2>1 DEF PhasesOf
<1>9. Results' /\ Agreed' /\ Stopped' /\ Laid'
  <2>1. "ranks" # "done"
    OBVIOUS
  <2>2. \A j \in 1 .. Len(b) : /\ b[j].phase \in PhasesOf["ranks"]
                               /\ b[j].phase # "counts" /\ b[j].phase # "points"
    BY <1>8
  <2>3. QED
    BY <1>1, <1>2, <1>3, <1>6, <2>1, <2>2, DecideReach
<1>10. Traced'
  <2>1. \A r \in Ranks : \A k \in pass'[r] + 1 .. Len(plan') :
          \A s \in Ranks : plan'[k].with[s] \subseteq setup'.far[s]
    BY <1>1, <1>5, <1>6, <1>8, DecideTraced
  <2>2. QED
    BY <1>1, <1>3, <2>1 DEF ReachInv, Traced
<1>11. Indexed' /\ Tied'
  BY <1>3 DEF Indexed, Tied
<1>12. QED
  BY <1>9, <1>10, <1>11 DEF ReachInv

LEMMA ReachRanks ==
  ASSUME LocatorInv, Theory!LoopInv, ContentInv, ReachInv, LocationRanks
  PROVE  ReachInv'
<1> DEFINE o == Once(partners', "counts")
           p == Once(partners', "points")
           l == o \o p
<1>1. /\ stage = "ranks" /\ Decide("located", l) /\ UNCHANGED <<round, loc>>
      /\ partners' = [r \in Ranks |-> {q \in setup.far[r] : Linked(r, q)}]
      /\ interior' = [r \in Ranks |-> Ascending(Found(r))]
  BY DEF LocationRanks, Found
<1>2. /\ Staged /\ Sized /\ setup \in Setups /\ Traced
  BY DEF ContentInv, LocatorInv, ReachInv
<1>3. round' \in Nat /\ stage # "done" /\ UNCHANGED setup /\ stage' = "located"
  BY <1>1, <1>2 DEF Staged, Decide
<1>4. partners' \in [Ranks -> SUBSET Ranks] /\ Loop!Symmetric(partners')
  BY <1>1, <1>2, LinkedSymmetric
<1>5. /\ PlanOK(o) /\ Len(o) = 1 /\ o[1] = Entry(partners', "counts", "only", 0)
      /\ PlanOK(p) /\ Len(p) = 1 /\ p[1] = Entry(partners', "points", "only", 0)
      /\ "located" \in Stages
  BY <1>4, OncePlan DEF Single, Stages
<1>6. \A ph : /\ Entry(partners', ph, "only", 0).with = partners'
              /\ Entry(partners', ph, "only", 0).phase = ph
  BY DEF Entry
<1> HIDE DEF o, p
<1>7. PlanOK(l) /\ Len(l) = 2 /\ l[1] = o[1] /\ l[2] = p[1]
  <2>1. o \in Seq(Entries) /\ p \in Seq(Entries)
    BY <1>5 DEF PlanOK
  <2>2. PlanOK(l)
    BY <1>5, PlanAppend
  <2>3. /\ Len(l) = Len(o) + Len(p)
        /\ \A i \in 1 .. Len(o) + Len(p) : l[i] = IF i <= Len(o) THEN o[i] ELSE p[i - Len(o)]
    BY <2>1, ConcatProperties
  <2> HIDE DEF l
  <2>4. Len(l) = 2 /\ l[1] = o[1] /\ l[2] = p[1]
    BY <1>5, <2>3
  <2>5. QED
    BY <2>2, <2>4
<1> HIDE DEF l
<1>8. \A j \in 1 .. Len(l) :
        /\ l[j].with = partners' /\ l[j].phase \in PhasesOf["located"]
        /\ l[j].phase = "counts" => j < Len(l) /\ l[j + 1].phase = "points"
        /\ l[j].phase = "points" => j = Len(l)
  <2>1. \A j \in 1 .. 2 : j = 1 \/ j = 2
    OBVIOUS
  <2>2. /\ l[1].phase = "counts" /\ l[2].phase = "points"
        /\ l[1].with = partners' /\ l[2].with = partners'
    BY <1>5, <1>6, <1>7
  <2>3. QED
    BY <1>7, <2>1, <2>2 DEF PhasesOf
<1>9. Results' /\ Agreed' /\ Stopped' /\ Laid'
  <2>1. "located" # "done"
    OBVIOUS
  <2>2. QED
    BY <1>1, <1>2, <1>3, <1>5, <1>7, <1>8, <2>1, DecideReach
<1>10. Traced'
  <2>1. \A j \in 1 .. Len(l) : \A s \in Ranks : l[j].with[s] \subseteq setup.far[s]
    BY <1>1, <1>8
  <2>2. \A r \in Ranks : \A k \in pass'[r] + 1 .. Len(plan') :
          \A s \in Ranks : plan'[k].with[s] \subseteq setup'.far[s]
    BY <1>1, <1>7, <2>1, DecideTraced
  <2>3. QED
    BY <1>1, <1>2, <1>3, <2>2 DEF Traced
<1>11. Indexed'
  <2>1. ASSUME NEW r \in Ranks
        PROVE  /\ interior'[r] = Ascending(Found(r)')
               /\ \A q \in Ranks : LocatedOn(r, q)' => q \in partners'[r]
    <3>1. Found(r)' = Found(r)
      BY <1>1 DEF Found
    <3>2. ASSUME NEW q \in Ranks, LocatedOn(r, q)'
          PROVE  q \in partners'[r]
      <4>1. LocatedOn(r, q)
        BY <1>1, <3>2 DEF LocatedOn
      <4>2. q \in setup.far[r] \cup {-1} /\ q # -1
        <5>1. q \in Nat /\ \A n \in Nat : n # -1
          BY RanksAssumption
        <5>2. QED
          BY <1>2, <4>1, <5>1 DEF LocatedOn, Traced
      <4>3. QED
        BY <1>1, <4>1, <4>2 DEF Linked
    <3>3. QED
      BY <1>1, <3>1, <3>2
  <2>2. ASSUME NEW r \in Ranks PROVE Ascending(Found(r))' = Ascending(Found(r)')
    BY DEF Ascending
  <2>3. QED
    BY <2>1, <2>2 DEF Indexed
<1>12. Tied'
  BY <1>3 DEF Tied
<1>13. QED
  BY <1>9, <1>10, <1>11, <1>12 DEF ReachInv

\* The exchanges of the calls, and the call that each one is for.
LEMMA ExchangesCalls ==
  ASSUME setup \in Setups, NEW w
  PROVE  LET e == Exchanges(w)
             n == Len(setup.calls)
         IN  /\ n \in Nat /\ DOMAIN setup.calls = 1 .. n /\ Len(e) = 2 * n
             /\ \A j \in 1 .. Len(e) : e[j].part = "first" => e[j].call \in 1 .. n
             /\ \A c \in 1 .. n : /\ 2 * c - 1 \in 1 .. Len(e)
                                  /\ e[2 * c - 1].part = "first" /\ e[2 * c - 1].call = c
                                  /\ e[2 * c - 1].phase = "exchange"
<1> DEFINE e == Exchanges(w)
           n == Len(setup.calls)
           part(k) == IF k % 2 = 1 THEN "first" ELSE "second"
<1>1. n \in Nat /\ 2 * n \in Nat /\ DOMAIN setup.calls = 1 .. n
  BY SetupAssumption
<1>2. /\ DOMAIN e = 1 .. 2 * n /\ e = [k \in DOMAIN e |-> e[k]]
      /\ \A k \in 1 .. 2 * n : e[k] = Entry(w, "exchange", part(k), (k + 1) \div 2)
  BY DEF Exchanges
<1> HIDE DEF n
<1>3. \A k \in 1 .. 2 * n : /\ e[k].part = part(k) /\ e[k].call = (k + 1) \div 2
                            /\ e[k].phase = "exchange"
  <2>1. \A p, c : /\ Entry(w, "exchange", p, c).part = p /\ Entry(w, "exchange", p, c).call = c
                  /\ Entry(w, "exchange", p, c).phase = "exchange"
    BY DEF Entry
  <2> HIDE DEF e, part
  <2>2. QED
    BY <1>2, <2>1
<1> HIDE DEF e
<1>4. Len(e) = 2 * n
  BY <1>1, <1>2, ListOfLength
<1>5. ASSUME NEW k \in 1 .. 2 * n PROVE (k + 1) \div 2 \in 1 .. n
  BY <1>1
<1>6. ASSUME NEW c \in 1 .. n
      PROVE  /\ 2 * c - 1 \in 1 .. 2 * n /\ part(2 * c - 1) = "first"
             /\ ((2 * c - 1) + 1) \div 2 = c
  <2>1. c \in Nat /\ 1 <= c /\ c <= n
    BY <1>1
  <2>2. 2 * c - 1 \in 1 .. 2 * n /\ (2 * c - 1) % 2 = 1 /\ ((2 * c - 1) + 1) \div 2 = c
    BY <1>1, <2>1
  <2>3. QED
    BY <2>2
<1> HIDE DEF part
<1>7. \A j \in 1 .. Len(e) : e[j].part = "first" => e[j].call \in 1 .. n
  BY <1>3, <1>4, <1>5
<1>8. \A c \in 1 .. n : /\ 2 * c - 1 \in 1 .. Len(e)
                        /\ e[2 * c - 1].part = "first" /\ e[2 * c - 1].call = c
                        /\ e[2 * c - 1].phase = "exchange"
  BY <1>3, <1>4, <1>6
<1>9. QED
  BY <1>1, <1>4, <1>7, <1>8 DEF e, n

\* The place that a located point is given in the list of all of them.
LEMMA ReducedFinds ==
  ASSUME LocatorInv, Sized, Indexed, stage = "located", NEW r \in Ranks,
         NEW p \in Found(r)
  PROVE  Reduced(r, p) \in DOMAIN interior[r] /\ interior[r][Reduced(r, p)] = p
<1>1. /\ setup.pts[r] \in Seq(Int) /\ DOMAIN loc[r] \in {{}, DOMAIN setup.pts[r]}
      /\ Found(r) \subseteq DOMAIN loc[r] /\ interior[r] = Ascending(Found(r))
  BY PointLists DEF LocatorInv, Sized, Found, Indexed
<1>2. /\ DOMAIN Ascending(Found(r)) = 1 .. Len(Ascending(Found(r)))
      /\ \E i \in 1 .. Len(Ascending(Found(r))) : Ascending(Found(r))[i] = p
  BY <1>1, SomePoints, PointsAllListed
<1>3. \E i \in DOMAIN interior[r] : interior[r][i] = p
  BY <1>1, <1>2
<1>4. QED
  BY <1>3 DEF Reduced

\* A point that is located on a rank is located.
LEMMA PointsFound ==
  ASSUME LocatorInv, Sized, NEW r \in Ranks, NEW q \in Ranks
  PROVE  /\ \A k \in 1 .. Len(PointsOn(r, q)) :
              /\ PointsOn(r, q)[k] \in Found(r) /\ PointsOn(r, q)[k] \in DOMAIN loc[r]
              /\ loc[r][PointsOn(r, q)[k]].rank = q
         /\ \A p \in DOMAIN loc[r] : loc[r][p].rank = q =>
              \E k \in 1 .. Len(PointsOn(r, q)) : PointsOn(r, q)[k] = p
<1> DEFINE S == {p \in DOMAIN loc[r] : loc[r][p].rank = q}
<1>1. /\ setup.pts[r] \in Seq(Int) /\ DOMAIN loc[r] \in {{}, DOMAIN setup.pts[r]}
      /\ S \subseteq DOMAIN loc[r] /\ PointsOn(r, q) = Ascending(S)
  BY PointLists DEF LocatorInv, Sized, PointsOn
<1>2. \A p : p \in S <=> p \in DOMAIN loc[r] /\ loc[r][p].rank = q
  OBVIOUS
<1> HIDE DEF S
<1>3. /\ \A k \in 1 .. Len(Ascending(S)) : Ascending(S)[k] \in S
      /\ \A i \in S : \E k \in 1 .. Len(Ascending(S)) : Ascending(S)[k] = i
  BY <1>1, PointsAllListed
<1>4. q > -1
  BY RanksAssumption
<1>5. QED
  BY <1>1, <1>2, <1>3, <1>4 DEF Found

LEMMA ReachLocated ==
  ASSUME LocatorInv, Theory!LoopInv, ContentInv, ReachInv, Located
  PROVE  ReachInv'
<1> DEFINE more == setup.nearest /\ \E r \in Ranks : Len(interior[r]) < Len(setup.pts[r])
<1>1. /\ stage = "located"
      /\ local_ids' = [r \in Ranks |-> [q \in Ranks |->
                         [k \in DOMAIN local_ids[r][q] |-> Reduced(r, local_ids[r][q][k])]]]
      /\ UNCHANGED <<loc, todo, partners, interior, n_dist, distants>>
      /\ IF more THEN round' = round + 1 /\ Decide("flags", <<>>)
         ELSE Decide("done", Exchanges(partners)) /\ UNCHANGED round
  BY DEF Located
<1> HIDE DEF more
<1>2. /\ Staged /\ Sized /\ Lists /\ setup \in Setups /\ Related /\ Traced /\ Indexed
      /\ partners \in [Ranks -> SUBSET Ranks] /\ Loop!Symmetric(partners)
  BY DEF ContentInv, LocatorInv, Related, ReachInv
<1>3. round' \in Nat /\ stage # "done" /\ UNCHANGED setup
  BY <1>1, <1>2 DEF Staged, Decide
<1>4. CASE more
  <2>1. PlanOK(<<>>) /\ Len(<<>>) = 0 /\ "flags" \in Stages /\ 1 .. 0 = {}
    BY NoPlan DEF Stages
  <2>2. Decide("flags", <<>>) /\ stage' = "flags" /\ "flags" # "done"
    BY <1>1, <1>4 DEF Decide
  <2>3. Results' /\ Agreed' /\ Stopped' /\ Laid'
    BY <1>2, <1>3, <2>1, <2>2, DecideReach
  <2>4. Traced'
    <3>1. \A r \in Ranks : \A k \in pass'[r] + 1 .. Len(plan') :
            \A s \in Ranks : plan'[k].with[s] \subseteq setup'.far[s]
      BY <2>1, <2>2, DecideTraced
    <3>2. QED
      BY <1>1, <1>2, <1>3, <2>2, <3>1 DEF Traced
  <2>5. Indexed' /\ Tied'
    BY <2>2 DEF Indexed, Tied
  <2>6. QED
    BY <2>3, <2>4, <2>5 DEF ReachInv
<1>5. CASE ~more
  <2> DEFINE e == Exchanges(partners)
  <2>1. Decide("done", e) /\ stage' = "done"
    BY <1>1, <1>5 DEF Decide
  <2>2. /\ PlanOK(e) /\ "done" \in Stages
        /\ \A j \in 1 .. Len(e) : e[j].phase = "exchange" /\ e[j].with = partners
    BY <1>2, ExchangesPlan DEF Stages
  <2>3. /\ \A j \in 1 .. Len(e) : e[j].part = "first" => e[j].call \in DOMAIN setup.calls
        /\ \A c \in DOMAIN setup.calls : /\ 2 * c - 1 \in 1 .. Len(e)
                                         /\ e[2 * c - 1].part = "first"
                                         /\ e[2 * c - 1].call = c
    BY <1>2, ExchangesCalls
  <2> HIDE DEF e
  <2>4. \A j \in 1 .. Len(e) :
          /\ e[j].phase \in PhasesOf["done"] /\ e[j].with = partners'
          /\ e[j].phase # "counts" /\ e[j].phase # "points"
    BY <1>1, <2>2 DEF PhasesOf
  <2>5. /\ Results' /\ Agreed' /\ Stopped'
        /\ \A k : k \in Visits' <=> /\ k - Len(plan) \in 1 .. Len(e)
                                    /\ k = Len(plan) + (k - Len(plan))
                                    /\ e[k - Len(plan)].phase = "exchange"
                                    /\ e[k - Len(plan)].part = "first"
    BY <1>2, <1>3, <2>1, <2>2, <2>4, DecideReach
  <2>6. /\ Len(plan) \in Nat /\ \A r \in Ranks : pass[r] = Len(plan)
        /\ \A j \in 1 .. Len(e) : plan'[Len(plan) + j] = e[j]
    BY <1>2, <1>3, <2>1, <2>2, <2>4, DecideStage
  <2>7. Laid'
    <3>1. ASSUME NEW k \in Visits' PROVE plan'[k].call \in DOMAIN setup.calls
      <4>1. PICK j \in 1 .. Len(e) : k = Len(plan) + j /\ e[j].part = "first"
        BY <2>5
      <4>2. plan'[k].call = e[j].call
        BY <2>6, <4>1
      <4>3. QED
        BY <2>3, <4>1, <4>2
    <3>2. ASSUME NEW c \in DOMAIN setup.calls PROVE \E k \in Visits' : plan'[k].call = c
      <4>1. PICK j \in 1 .. Len(e) : e[j].part = "first" /\ e[j].call = c
        BY <2>3
      <4>2. PICK k : k = Len(plan) + j
        OBVIOUS
      <4>3. k - Len(plan) = j /\ k = Len(plan) + (k - Len(plan))
        BY <2>6, <4>2
      <4>4. k \in Visits'
        BY <2>2, <2>5, <4>1, <4>3
      <4>5. plan'[k].call = c
        BY <2>6, <4>1, <4>2
      <4>6. QED
        BY <4>4, <4>5
    <3>3. {plan'[k].call : k \in Visits'} = DOMAIN setup.calls
      BY <3>1, <3>2
    <3>4. QED
      BY <1>3, <2>1, <3>3 DEF Laid
  <2>8. Traced'
    <3>1. \A j \in 1 .. Len(e) : \A s \in Ranks : e[j].with[s] \subseteq setup.far[s]
      BY <1>2, <2>2 DEF Sized
    <3>2. \A r \in Ranks : \A k \in pass'[r] + 1 .. Len(plan') :
            \A s \in Ranks : plan'[k].with[s] \subseteq setup'.far[s]
      BY <2>1, <2>2, <3>1, DecideTraced
    <3>3. QED
      BY <1>1, <1>2, <1>3, <3>2 DEF Traced
  <2>9. Indexed'
    <3>1. \A r \in Ranks : /\ Found(r)' = Found(r)
                           /\ \A q \in Ranks : LocatedOn(r, q)' <=> LocatedOn(r, q)
      BY <1>1 DEF Found, LocatedOn
    <3>2. ASSUME NEW r \in Ranks PROVE Ascending(Found(r))' = Ascending(Found(r))
      <4>1. Ascending(Found(r))' = Ascending(Found(r)')
        BY DEF Ascending
      <4>2. QED
        BY <3>1, <4>1
    <3>3. QED
      BY <1>1, <1>2, <3>1, <3>2 DEF Indexed
  <2>10. Tied'
    <3> SUFFICES ASSUME NEW r \in Ranks, NEW q \in partners[r] PROVE TiedTo(r, q)'
      BY <1>1 DEF Tied
    <3>1. q \in Ranks
      BY <1>2
    <3>2. \A s, t : PointsOn(s, t)' = PointsOn(s, t)
      BY <1>1 DEF PointsOn
    <3>3. Told(q, r)' = Told(q, r)
      BY <1>1, <1>3, <3>2 DEF Told
    <3>4. local_ids[r][q] = PointsOn(r, q) /\ distants[r][q] = Told(q, r)
      <4>1. Filling(r, q)
        BY <1>1, <1>2, <3>1 DEF Lists
      <4>2. HasList(r, q)
        BY <2>6 DEF HasList
      <4>3. QED
        BY <4>1, <4>2 DEF Filling
    <3>5. /\ Len(PointsOn(r, q)) \in Nat
          /\ DOMAIN PointsOn(r, q) = 1 .. Len(PointsOn(r, q))
      BY <1>2, <3>1, PointsListed
    <3> DEFINE n == Len(PointsOn(r, q))
               s == local_ids'[r][q]
    <3>6. s = [k \in 1 .. n |-> Reduced(r, PointsOn(r, q)[k])]
      BY <1>1, <3>1, <3>4, <3>5
    <3>7. Len(s) = n
      <4>1. DOMAIN s = 1 .. n /\ s = [k \in DOMAIN s |-> s[k]]
        BY <3>6
      <4> HIDE DEF s
      <4>2. QED
        BY <3>5, <4>1, ListOfLength
    <3>8. ASSUME NEW k \in 1 .. n
          PROVE  /\ s[k] \in DOMAIN interior[r]
                 /\ interior[r][s[k]] = PointsOn(r, q)[k]
      <4>1. PointsOn(r, q)[k] \in Found(r)
        BY <1>2, <3>1, PointsFound
      <4>2. s[k] = Reduced(r, PointsOn(r, q)[k])
        BY <3>6
      <4> HIDE DEF s
      <4>3. QED
        BY <1>1, <1>2, <4>1, <4>2, ReducedFinds
    <3>9. distants'[r][q] = Told(q, r)'
      BY <1>1, <3>3, <3>4
    <3>10. QED
      BY <1>1, <3>2, <3>7, <3>8, <3>9 DEF TiedTo
  <2>11. QED
    BY <2>5, <2>7, <2>8, <2>9, <2>10 DEF ReachInv
<1>6. QED
  BY <1>4, <1>5

\* What the loops of the calls leave alone.
LEMMA ListsReach ==
  ASSUME Traced, Indexed, Tied, Laid,
         UNCHANGED <<setup, plan, stage, loc, partners, interior, local_ids, distants>>,
         Len(plan) \in Nat, \A r \in Ranks : pass[r] \in Nat /\ pass'[r] \in Nat,
         \A r \in Ranks : pass[r] <= pass'[r]
  PROVE  Traced' /\ Indexed' /\ Tied' /\ Laid'
<1>1. Traced'
  <2>1. ASSUME NEW r \in Ranks, NEW k \in pass'[r] + 1 .. Len(plan)
        PROVE  k \in pass[r] + 1 .. Len(plan)
    BY <2>1
  <2>2. QED
    BY <2>1 DEF Traced
<1>2. Indexed'
  <2>1. \A r : Found(r)' = Found(r) /\ \A q : LocatedOn(r, q)' <=> LocatedOn(r, q)
    BY DEF Found, LocatedOn
  <2>2. ASSUME NEW r PROVE Ascending(Found(r))' = Ascending(Found(r))
    <3>1. Ascending(Found(r))' = Ascending(Found(r)')
      BY DEF Ascending
    <3>2. QED
      BY <2>1, <3>1
  <2>3. QED
    BY <2>1, <2>2 DEF Indexed
<1>3. Tied'
  <2>1. \A s, t : PointsOn(s, t)' = PointsOn(s, t)
    BY DEF PointsOn
  <2>2. \A s, t : Told(s, t)' = Told(s, t)
    BY <2>1 DEF Told
  <2>3. \A s, t : TiedTo(s, t)' <=> TiedTo(s, t)
    BY <2>1, <2>2 DEF TiedTo
  <2>4. QED
    BY <2>3 DEF Tied
<1>4. Laid'
  BY DEF Laid, Visits
<1>5. QED
  BY <1>1, <1>2, <1>3, <1>4

LEMMA ItemsKept ==
  ASSUME UNCHANGED <<setup, interior, local_ids, distants>>
  PROVE  /\ \A r, q, c : Items(r, q, c)' = Items(r, q, c)
         /\ \A r, q, c : FlagOf(r, q, c)' <=> FlagOf(r, q, c)
<1>1. \A r, q, c : FlagOf(r, q, c)' <=> FlagOf(r, q, c)
  BY DEF FlagOf
<1>2. \A r, q : LocalVar(r, q)' = LocalVar(r, q) /\ DistantVar(r, q)' = DistantVar(r, q)
  BY DEF LocalVar, DistantVar
<1>3. \A r, q, c : Values(r, q, c)' = Values(r, q, c)
  BY <1>1, <1>2 DEF Values
<1>4. \A r, q, c, k : Item(r, q, c, k)' = Item(r, q, c, k)
  BY <1>3 DEF Item
<1>5. QED
  BY <1>1, <1>3, <1>4 DEF Items

\* What has been given follows from which visits are over.
LEMMA GivenKept ==
  ASSUME UNCHANGED <<setup, plan, interior, local_ids, distants>>, NEW r \in Ranks,
         \A k \in Visits, q \in Ranks : Over(r, q, k)' <=> Over(r, q, k)
  PROVE  Given(r)' = Given(r)
<1>1. \A q, k : Gift(r, q, k)' = Gift(r, q, k)
  <2>1. \A q, c : Items(r, q, c)' = Items(r, q, c)
    BY ItemsKept
  <2>2. QED
    BY <2>1 DEF Gift
<1>2. Visits' = Visits
  BY DEF Visits
<1>3. ASSUME NEW v
      PROVE  v \in Given(r)' <=> \E k \in Visits, q \in Ranks :
                                   Over(r, q, k) /\ v \in Gift(r, q, k)
  <2>1. v \in Given(r)' <=> \E k \in Visits', q \in Ranks :
                              Over(r, q, k)' /\ v \in Gift(r, q, k)'
    BY DEF Given, Givers
  <2>2. QED
    BY <1>1, <1>2, <2>1
<1>4. \A v : v \in Given(r)' <=> v \in Given(r)
  BY <1>3, GivenHolds
<1>5. QED
  BY <1>4

LEMMA StoppedKept ==
  ASSUME UNCHANGED <<setup, plan, pass, loc, aborted>>, Stopped
  PROVE  Stopped'
<1>1. \A r, q : LocatedOn(r, q)' <=> LocatedOn(r, q)
  BY DEF LocatedOn
<1>2. \A c : Coherent(c)' <=> Coherent(c)
  BY <1>1 DEF Coherent
<1>3. QED
  BY <1>2 DEF Stopped

LEMMA ReachSteady ==
  ASSUME LocatorInv, Theory!LoopInv, ReachInv,
         UNCHANGED <<setup, plan, pass, second, left, stage, loc, partners, interior,
                     local_ids, distants, result, aborted>>
  PROVE  ReachInv'
<1>1. /\ Traced /\ Indexed /\ Tied /\ Laid /\ Results /\ Agreed /\ Stopped
  BY DEF ReachInv
<1>2. Traced' /\ Indexed' /\ Tied' /\ Laid'
  <2>1. \A r \in Ranks : pass[r] \in Nat /\ Len(plan) \in Nat /\ pass[r] <= pass[r]
    BY RanksPlaced DEF Placed
  <2>2. Len(plan) \in Nat
    BY DEF LocatorInv, PlanOK
  <2>3. UNCHANGED <<setup, plan, stage, loc, partners, interior, local_ids, distants>>
        /\ pass' = pass
    OBVIOUS
  <2>4. QED
    BY <1>1, <2>1, <2>2, <2>3, ListsReach
<1>3. \A r, q, k : (Over(r, q, k)' <=> Over(r, q, k)) /\ (Warned(r, q, k)' <=> Warned(r, q, k))
  BY DEF Over, Warned, Partner
<1>4. UNCHANGED <<setup, plan, interior, local_ids, distants>>
  OBVIOUS
<1>5. Results'
  <2>1. \A r \in Ranks : Given(r)' = Given(r)
    BY <1>3, <1>4, GivenKept
  <2>2. QED
    BY <1>1, <2>1 DEF Results
<1>6. Agreed'
  <2>1. \A r, q, c : FlagOf(r, q, c)' <=> FlagOf(r, q, c)
    BY <1>4, ItemsKept
  <2>2. Visits' = Visits
    BY DEF Visits
  <2>3. QED
    BY <1>1, <1>3, <2>1, <2>2 DEF Agreed
<1>7. Stopped'
  BY <1>1, StoppedKept
<1>8. QED
  BY <1>2, <1>5, <1>6, <1>7 DEF ReachInv

LEMMA ReachEnter ==
  ASSUME LocatorInv, Theory!LoopInv, ReachInv, NEW r \in Ranks, Enter(r)
  PROVE  ReachInv'
<1>1. UNCHANGED <<setup, plan, pass, second, left, stage, loc, partners, interior,
                  local_ids, distants, result, aborted>>
  BY DEF Enter, lists
<1>2. QED
  BY <1>1, ReachSteady

\* The end of a loop, in terms of the plan.
LEMMA EndLoopFacts ==
  ASSUME LocatorInv, Theory!LoopInv, NEW r \in Ranks, EndLoop(r)
  PROVE  LET e == plan[pass[r] + 1]
         IN  /\ pass[r] < Len(plan) /\ left[r] = {}
             /\ pass' = [pass EXCEPT ![r] = IF e.part = "first" THEN @ + 2 ELSE @ + 1]
             /\ left' = [left EXCEPT ![r] = Loop!Begins(plan, pass'[r], r)]
             /\ UNCHANGED <<setup, plan, chan, stage, round, loc, todo, got, second, posted,
                            partners, interior, local_ids, n_dist, distants, aborted>>
<1> DEFINE e == plan[pass[r] + 1]
<1>1. EndLoop(r) => UNCHANGED lists /\ Loop!EndLoop(r)
  BY DEF EndLoop
<1>2. Len(Relations) = Len(plan) /\ pass[r] \in Nat
  BY RanksPlaced, PlanRelations DEF LocatorInv, Relations, Rels, Placed
<1>3. pass[r] < Len(plan)
  BY <1>1, <1>2 DEF Loop!EndLoop
<1>4. Relations[pass[r] + 1].part = e.part
  BY <1>3, CurrentEntry, PlanRelations DEF LocatorInv, Relations, Rels
<1>5. pass' = [pass EXCEPT ![r] = IF e.part = "first" THEN @ + 2 ELSE @ + 1]
  BY <1>1, <1>4 DEF Loop!EndLoop, Loop!Twice
<1>6. Loop!Begins(Relations, pass'[r], r) = Loop!Begins(plan, pass'[r], r)
  <2>1. pass'[r] \in Nat /\ Len(plan) \in Nat
    BY <1>2, <1>3, <1>5, CurrentEntry DEF LocatorInv, Positioned
  <2>2. pass'[r] < Len(plan) => pass'[r] + 1 \in 1 .. Len(plan)
    BY <2>1
  <2>3. QED
    BY <1>2, <2>2, PlanRelations DEF LocatorInv, Relations, Rels, Loop!Begins
<1>7. QED
  BY <1>1, <1>3, <1>5, <1>6 DEF EndLoop, Loop!EndLoop, lists

LEMMA ReachEndLoop ==
  ASSUME LocatorInv, Theory!LoopInv, ContentInv, ReachInv, NEW r \in Ranks, EndLoop(r)
  PROVE  ReachInv'
<1> DEFINE e == plan[pass[r] + 1]
           f == plan[pass[r] + 2]
<1>1. /\ pass[r] < Len(plan) /\ left[r] = {}
      /\ pass' = [pass EXCEPT ![r] = IF e.part = "first" THEN @ + 2 ELSE @ + 1]
      /\ left' = [left EXCEPT ![r] = Loop!Begins(plan, pass'[r], r)]
      /\ UNCHANGED <<setup, plan, stage, loc, second, partners, interior, local_ids,
                     distants, aborted>>
  BY EndLoopFacts
<1>2. /\ Traced /\ Indexed /\ Tied /\ Laid /\ Results /\ Agreed /\ Stopped /\ Staged
      /\ pass \in [Ranks -> Nat] /\ left \in [Ranks -> SUBSET Ranks]
  BY DEF ReachInv, ContentInv, LocatorInv, Positioned
<1>3. /\ pass[r] + 1 \in 1 .. Len(plan) /\ Len(plan) \in Nat /\ pass[r] \in Nat
      /\ e.part = "only" <=> e.phase \in Single
      /\ e.part \in {"only", "first"}
      /\ e.part = "first" => Follows(e, f)
  BY <1>1, CurrentEntry
<1>4. UNCHANGED result /\ ~aborted
  BY DEF EndLoop
<1>5. \A s \in Ranks : s # r => pass'[s] = pass[s] /\ left'[s] = left[s]
  BY <1>1, <1>2
<1>6. pass'[r] \in Nat /\ pass[r] <= pass'[r]
  BY <1>1, <1>2, <1>3
<1>7. Traced' /\ Indexed' /\ Tied' /\ Laid'
  <2>1. \A s \in Ranks : pass[s] \in Nat /\ pass'[s] \in Nat /\ pass[s] <= pass'[s]
    BY <1>2, <1>5, <1>6
  <2>2. QED
    BY <1>1, <1>2, <1>3, <2>1, ListsReach
<1>8. ASSUME NEW k \in Visits, NEW s \in Ranks, NEW q \in Ranks
      PROVE  (Over(s, q, k)' <=> Over(s, q, k)) /\ (Warned(s, q, k)' => Warned(s, q, k))
  <2>1. CASE s # r
    BY <1>1, <1>5, <2>1 DEF Over, Warned, Partner
  <2>2. CASE s = r
    <3>1. stage = "done" /\ k \in 1 .. Len(plan) /\ plan[k].part = "first"
      BY <1>2, NoVisit DEF Visits
    <3>2. e.phase \in PhasesOf[stage]
      BY <1>1, <1>2, <1>3, StageOf
    <3>3. e.part = "first"
      BY <1>3, <3>1, <3>2 DEF PhasesOf, Single
    <3>4. pass'[r] = pass[r] + 2 /\ k # pass[r] + 2
      BY <1>1, <1>2, <1>3, <3>1, <3>3 DEF Follows
    <3>5. k = pass'[r] + 1 => left'[r] = partners[r]
      <4>1. ASSUME k = pass'[r] + 1 PROVE left'[r] = partners[r]
        <5>1. pass'[r] < Len(plan) /\ k \in pass[r] + 1 .. Len(plan)
          BY <1>3, <3>1, <3>4, <4>1
        <5>2. plan[k].with = partners
          BY <1>2, <3>1, <5>1 DEF Staged
        <5>3. left'[r] = Loop!Begins(plan, pass'[r], r)
          BY <1>1, <1>2
        <5>4. QED
          BY <4>1, <5>1, <5>2, <5>3 DEF Loop!Begins
      <4>2. QED
        BY <4>1
    <3>6. Over(r, q, k) <=> q \in partners[r] /\ k <= pass[r] + 1
      BY <1>1, <1>3, <3>1 DEF Over
    <3>7. Over(r, q, k)' <=> q \in partners[r] /\ k <= pass[r] + 1
      <4>1. Over(r, q, k)' <=>
              q \in partners[r] /\ (k <= pass'[r] \/ (k = pass'[r] + 1 /\ q \notin left'[r]))
        BY <1>1 DEF Over
      <4>2. k <= pass[r] + 2 <=> k <= pass[r] + 1
        BY <1>3, <3>1, <3>4
      <4>3. QED
        BY <3>4, <3>5, <4>1, <4>2
    <3>8. ~second[r]
      BY <1>1, RanksPlaced DEF Placed
    <3>9. QED
      BY <1>1, <2>2, <3>6, <3>7, <3>8 DEF Warned
  <2>3. QED
    BY <2>1, <2>2
<1>9. Results'
  <2>1. \A s \in Ranks : Given(s)' = Given(s)
    BY <1>1, <1>8, GivenKept
  <2>2. QED
    BY <1>2, <1>4, <2>1 DEF Results
<1>10. Agreed'
  <2>1. \A s, q, c : FlagOf(s, q, c)' <=> FlagOf(s, q, c)
    BY <1>1, ItemsKept
  <2>2. Visits' = Visits
    BY <1>1 DEF Visits
  <2>3. QED
    BY <1>1, <1>2, <1>8, <2>1, <2>2 DEF Agreed
<1>11. Stopped'
  BY <1>1, <1>4 DEF Stopped
<1>12. QED
  BY <1>7, <1>9, <1>10, <1>11 DEF ReachInv

\* What an exchange changes of the locations: those of a rank, to the one it hears.
LEMMA LocReceived ==
  ASSUME Sized, NEW r \in Ranks, NEW q, NEW d, Received(r, q, d), NEW s \in Ranks,
         NEW p \in DOMAIN loc'[s]
  PROVE  /\ p \in DOMAIN loc[s]
         /\ loc'[s][p].rank = loc[s][p].rank \/ (s = r /\ loc'[s][p].rank = q)
<1>1. ByRank(loc)
  BY DEF Sized
<1>2. CASE UNCHANGED loc
  BY <1>2
<1>3. ASSUME NEW f, loc' = [loc EXCEPT ![r] = f], DOMAIN f = DOMAIN loc[r],
             \A x \in DOMAIN f : f[x].rank = loc[r][x].rank \/ f[x].rank = q
      PROVE  /\ p \in DOMAIN loc[s]
             /\ loc'[s][p].rank = loc[s][p].rank \/ (s = r /\ loc'[s][p].rank = q)
  <2>1. loc' = [t \in Ranks |-> IF t = r THEN f ELSE loc[t]]
    BY <1>1, <1>3 DEF ByRank
  <2>2. loc'[s] = IF s = r THEN f ELSE loc[s]
    BY <2>1
  <2>3. QED
    BY <1>3, <2>2
<1>4. CASE Transfer(r, q, d)
  <2> DEFINE at(x) == d[CHOOSE k \in DOMAIN d : interior[r][local_ids[r][q][k]] = x]
             f == [x \in DOMAIN loc[r] |->
                     IF \E k \in DOMAIN d : interior[r][local_ids[r][q][k]] = x
                     THEN [rank |-> q, dist |-> -1, elt |-> at(x)]
                     ELSE loc[r][x]]
  <2>1. loc' = [loc EXCEPT ![r] = f]
    BY <1>4 DEF Transfer
  <2>2. DOMAIN f = DOMAIN loc[r]
    OBVIOUS
  <2> HIDE DEF at
  <2>3. \A x \in DOMAIN f : f[x].rank = loc[r][x].rank \/ f[x].rank = q
    OBVIOUS
  <2> HIDE DEF f
  <2>4. QED
    BY <1>3, <2>1, <2>2, <2>3
<1>5. CASE Answered(r, q, d)
  <2> DEFINE at(x) == CHOOSE k \in DOMAIN d : todo[r][Chosen(r, q)[k]] = x
             f == [x \in DOMAIN loc[r] |->
                     IF \E k \in DOMAIN d : /\ todo[r][Chosen(r, q)[k]] = x
                                            /\ Better(d[k], loc[r][x])
                     THEN [rank |-> q, elt |-> d[at(x)].elt, dist |-> d[at(x)].dist]
                     ELSE loc[r][x]]
  <2>1. loc' = [loc EXCEPT ![r] = f]
    BY <1>5 DEF Answered
  <2>2. DOMAIN f = DOMAIN loc[r]
    OBVIOUS
  <2> HIDE DEF at
  <2>3. \A x \in DOMAIN f : f[x].rank = loc[r][x].rank \/ f[x].rank = q
    OBVIOUS
  <2> HIDE DEF f
  <2>4. QED
    BY <1>3, <2>1, <2>2, <2>3
<1>6. CASE ~Transfer(r, q, d) /\ ~Answered(r, q, d)
  BY <1>2, <1>6 DEF Received, Asked, Counted, Listed, Flagged, Exchanged
<1>7. QED
  BY <1>4, <1>5, <1>6

LEMMA LeaveLocates ==
  ASSUME LocatorInv, Theory!LoopInv, ContentInv, ReachInv, NEW r \in Ranks, Leave(r)
  PROVE  Traced' /\ Indexed' /\ Tied' /\ Laid'
<1>1. PICK q, d : q = Partner(r) /\ d = Incoming(r).data
  OBVIOUS
<1>2. /\ q \in Ranks /\ q \in left[r] /\ pass[r] < Len(plan)
      /\ Received(r, q, d)
      /\ UNCHANGED <<setup, plan, pass, stage, round, todo, interior, partners>>
  BY <1>1, LeaveFacts
<1>3. Traced /\ Indexed /\ Tied /\ Laid /\ Sized
  BY DEF ReachInv, ContentInv
<1>4. /\ stage # "located" => UNCHANGED lists
      /\ stage \in {"located", "done"} => UNCHANGED loc
  BY LeaveKeeps
<1>5. q \in setup.far[r]
  <2>1. pass[r] + 1 \in pass[r] + 1 .. Len(plan) /\ left[r] \subseteq plan[pass[r] + 1].with[r]
    BY <1>2, CurrentEntry, RanksPlaced DEF Placed
  <2>2. plan[pass[r] + 1].with[r] \subseteq setup.far[r]
    BY <1>3, <2>1 DEF Traced
  <2>3. QED
    BY <1>2, <2>1, <2>2
<1>6. Traced'
  <2>1. ASSUME NEW s \in Ranks, NEW p \in DOMAIN loc'[s]
        PROVE  loc'[s][p].rank \in setup.far[s] \cup {-1}
    <3>1. /\ p \in DOMAIN loc[s]
          /\ loc'[s][p].rank = loc[s][p].rank \/ (s = r /\ loc'[s][p].rank = q)
      BY <1>2, <1>3, LocReceived
    <3>2. QED
      BY <1>3, <1>5, <3>1 DEF Traced
  <2>2. \A s \in Ranks : DOMAIN loc'[s] = DOMAIN loc[s]
    <3>1. plan[pass[r] + 1].phase \in Phases /\ aborted \in BOOLEAN
      BY <1>2, CurrentEntry DEF ContentInv, Staged
    <3>2. QED
      BY <1>2, <1>3, <3>1, ReceivedLists
  <2>3. QED
    BY <1>2, <1>3, <2>1, <2>2 DEF Traced
<1>7. Laid'
  BY <1>2, <1>3 DEF Laid, Visits
<1>8. Indexed'
  <2>1. CASE stage \in {"located", "done"}
    <3>1. \A s : Found(s)' = Found(s) /\ \A t : LocatedOn(s, t)' <=> LocatedOn(s, t)
      BY <1>4, <2>1 DEF Found, LocatedOn
    <3>2. ASSUME NEW s PROVE Ascending(Found(s))' = Ascending(Found(s))
      <4>1. Ascending(Found(s))' = Ascending(Found(s)')
        BY DEF Ascending
      <4>2. QED
        BY <3>1, <4>1
    <3>3. QED
      BY <1>2, <1>3, <2>1, <3>1, <3>2 DEF Indexed
  <2>2. CASE stage \notin {"located", "done"}
    BY <1>2, <2>2 DEF Indexed
  <2>3. QED
    BY <2>1, <2>2
<1>9. Tied'
  <2>1. CASE stage = "done"
    <3>1. UNCHANGED <<setup, loc, partners, interior, local_ids, distants>>
      BY <1>2, <1>4, <2>1 DEF lists
    <3>2. \A s, t : PointsOn(s, t)' = PointsOn(s, t)
      BY <3>1 DEF PointsOn
    <3>3. \A s, t : Told(s, t)' = Told(s, t)
      BY <3>1, <3>2 DEF Told
    <3>4. \A s, t : TiedTo(s, t)' <=> TiedTo(s, t)
      BY <3>1, <3>2, <3>3 DEF TiedTo
    <3>5. QED
      BY <1>2, <1>3, <3>1, <3>4 DEF Tied
  <2>2. CASE stage # "done"
    BY <1>2, <2>2 DEF Tied
  <2>3. QED
    BY <2>1, <2>2
<1>10. QED
  BY <1>6, <1>7, <1>8, <1>9

\* Before the calls, exchanges write no value and do not stop the run.
LEMMA LeaveEarly ==
  ASSUME LocatorInv, Theory!LoopInv, ContentInv, ReachInv, NEW r \in Ranks, Leave(r),
         stage # "done"
  PROVE  Results' /\ Agreed' /\ Stopped'
<1>1. PICK q, d : q = Partner(r) /\ d = Incoming(r).data
  OBVIOUS
<1>2. /\ Received(r, q, d) /\ UNCHANGED <<plan, stage>> /\ ~aborted
      /\ plan[pass[r] + 1].phase \in PhasesOf[stage]
  BY <1>1, LeaveFacts DEF Leave
<1>3. Staged /\ Laid /\ Results
  BY DEF ContentInv, ReachInv
<1>4. plan[pass[r] + 1].phase # "exchange"
  BY <1>2, <1>3, StagePhases
<1>5. UNCHANGED <<result, aborted>>
  BY <1>2, <1>4 DEF Received, Transfer, Asked, Answered, Counted, Listed, Flagged, Exchanged,
                    At
<1>6. Visits = {} /\ Visits' = {}
  <2>1. Visits = {}
    BY <1>3, NoVisit
  <2>2. QED
    BY <1>2, <2>1 DEF Visits
<1>7. Results'
  <2>1. \A s \in Ranks : Given(s) = {}
    BY <1>6, NothingGiven
  <2>2. \A s \in Ranks : Given(s)' = {}
    BY <1>6 DEF Given
  <2>3. QED
    BY <1>3, <1>5, <2>1, <2>2 DEF Results
<1>8. QED
  BY <1>2, <1>5, <1>6, <1>7 DEF Agreed, Stopped

\* An exchange of the calls: which one, and what the other rank has for it.
LEMMA LeaveCall ==
  ASSUME LocatorInv, Theory!LoopInv, ContentInv, ReachInv, NEW r \in Ranks, Leave(r),
         stage = "done", NEW q, q = Partner(r), NEW d, d = Incoming(r).data,
         NEW c, c = plan[pass[r] + 1].call
  PROVE  /\ pass[r] + 1 \in Visits /\ pass[r] \in Nat /\ c \in DOMAIN setup.calls
         /\ plan[pass[r] + 1].part = "first" /\ Call(r) = setup.calls[c]
         /\ q \in partners[r] /\ r \in partners[q] /\ q \in Ranks
         /\ IF second[r] THEN Exchanged(r, q, d) ELSE Flagged(r, q, d)
         /\ ~second[r] => d = <<FlagOf(q, r, c)>>
         /\ second[r] => d = Values(r, q, c)
<1> DEFINE e == plan[pass[r] + 1]
           f == plan[pass[r] + 2]
<1>1. /\ q \in Ranks /\ q \in left[r] /\ pass[r] < Len(plan) /\ Received(r, q, d)
      /\ e.phase \in PhasesOf[stage] /\ d = Said(q, r, Loop!Stamp(r))
  BY LeaveFacts
<1>2. Staged /\ Laid /\ Related
  BY DEF ContentInv, ReachInv, LocatorInv
<1>3. e.phase = "exchange"
  BY <1>1, <1>2, StagePhases
<1>4. /\ pass[r] \in Nat /\ pass[r] + 1 \in 1 .. Len(plan)
      /\ e.part = "first" /\ Follows(e, f)
  BY <1>1, <1>3, CurrentEntry DEF Single
<1>5. pass[r] + 1 \in Visits
  BY <1>3, <1>4 DEF Visits
<1>6. c \in DOMAIN setup.calls
  BY <1>2, <1>5 DEF Laid
<1>7. q \in partners[r] /\ r \in partners[q]
  <2>1. pass[r] + 1 \in pass[r] + 1 .. Len(plan)
    BY <1>1, CurrentEntry
  <2>2. e.with = partners
    BY <1>2, <2>1 DEF Staged
  <2>3. left[r] \subseteq e.with[r]
    BY <1>1, RanksPlaced DEF Placed
  <2>4. QED
    BY <1>1, <1>2, <2>2, <2>3 DEF Related, Loop!Symmetric
<1>8. IF second[r] THEN Exchanged(r, q, d) ELSE Flagged(r, q, d)
  BY <1>1, <1>3 DEF Received, Transfer, Asked, Answered, Counted, Listed, Flagged, Exchanged,
                    At
<1>9. ~second[r] => d = <<FlagOf(q, r, c)>>
  <2>1. ~second[r] => Loop!Stamp(r) = pass[r]
    BY <1>1, SingleExchange
  <2>2. QED
    BY <1>1, <1>3, <1>4, <2>1 DEF Said
<1>10. second[r] => d = Values(r, q, c)
  <2>1. /\ second[r] => Loop!Stamp(r) = pass[r] + 1
        /\ (pass[r] + 1) + 1 = pass[r] + 2
    <3>1. second[r] => Loop!Stamp(r) = pass[r] + 1
      BY <1>1, SingleExchange
    <3>2. QED
      BY <1>4, <3>1
  <2>2. f.part = "second" /\ f.phase = "exchange" /\ f.call = c
    BY <1>3, <1>4 DEF Follows
  <2>3. second[r] => d = Said(q, r, pass[r] + 1)
    BY <1>1, <2>1
  <2>4. second[r] => Said(q, r, pass[r] + 1) = Values(r, q, c)
    BY <2>1, <2>2 DEF Said, Values
  <2>5. QED
    BY <2>3, <2>4
<1>11. QED
  BY <1>1, <1>4, <1>5, <1>6, <1>7, <1>8, <1>9, <1>10 DEF Call

\* A rank that is told of values has located points on the other one, and lists them.
LEMMA FlagTells ==
  ASSUME LocatorInv, Sized, Tied, stage = "done", NEW r \in Ranks, NEW q \in partners[r],
         NEW c, FlagOf(q, r, c)
  PROVE  /\ q \in Ranks /\ q \in setup.calls[c].dist /\ LocatedOn(r, q)
         /\ local_ids[r][q] # <<>>
<1>1. q \in Ranks /\ r \in partners[q] /\ TiedTo(r, q) /\ TiedTo(q, r)
  <2>1. q \in Ranks /\ r \in partners[q]
    BY DEF LocatorInv, Related, Loop!Symmetric
  <2>2. QED
    BY <2>1 DEF Tied
<1>2. q \in setup.calls[c].dist /\ Told(r, q) # <<>>
  BY <1>1 DEF FlagOf, TiedTo
<1>3. /\ Len(PointsOn(r, q)) \in Nat /\ Listlike(Told(r, q))
      /\ Len(Told(r, q)) = Len(PointsOn(r, q))
  BY <1>1, PointsListed
<1>4. Len(PointsOn(r, q)) # 0
  BY <1>2, <1>3, NothingListed
<1>5. LocatedOn(r, q)
  <2>1. 1 \in 1 .. Len(PointsOn(r, q))
    BY <1>3, <1>4
  <2>2. QED
    BY <1>1, <2>1, PointsFound DEF LocatedOn
<1>6. local_ids[r][q] # <<>>
  <2>1. Len(local_ids[r][q]) # 0
    BY <1>1, <1>4 DEF TiedTo
  <2>2. QED
    BY <2>1, NothingListed
<1>7. QED
  BY <1>1, <1>2, <1>5, <1>6

\* The first exchange of a visit.
LEMMA LeaveFlagged ==
  ASSUME LocatorInv, Theory!LoopInv, ContentInv, ReachInv, NEW r \in Ranks, Leave(r),
         stage = "done", ~second[r]
  PROVE  Results' /\ Agreed' /\ Stopped'
<1>1. PICK q, d, c : q = Partner(r) /\ d = Incoming(r).data /\ c = plan[pass[r] + 1].call
  OBVIOUS
<1>2. /\ pass[r] + 1 \in Visits /\ pass[r] \in Nat /\ c \in DOMAIN setup.calls
      /\ plan[pass[r] + 1].part = "first" /\ Call(r) = setup.calls[c]
      /\ q \in partners[r] /\ r \in partners[q] /\ q \in Ranks
      /\ Flagged(r, q, d) /\ d = <<FlagOf(q, r, c)>>
  BY <1>1, LeaveCall
<1>3. /\ UNCHANGED <<setup, plan, pass, stage, interior, partners>>
      /\ second' = [second EXCEPT ![r] = TRUE] /\ UNCHANGED left
      /\ pass[r] < Len(plan)
  BY <1>1, <1>2, LeaveFacts
<1>4. /\ Results /\ Agreed /\ Sized /\ Tied /\ ~aborted
      /\ second \in [Ranks -> BOOLEAN]
  BY RanksPlaced DEF ReachInv, ContentInv, Leave
<1>5. /\ UNCHANGED <<loc, partners, interior, local_ids, distants, result>>
      /\ aborted' = (FlagOf(q, r, c) /\ (r \notin setup.calls[c].loc \/ local_ids[r][q] = <<>>))
  <2>1. d[1] = FlagOf(q, r, c)
    BY <1>2
  <2>2. QED
    BY <1>2, <2>1 DEF Flagged, lists
<1>6. Visits' = Visits
  BY <1>3 DEF Visits
<1>7. \A s, t, k : Over(s, t, k)' <=> Over(s, t, k)
  BY <1>3 DEF Over
<1>8. \A s, t, x : FlagOf(s, t, x)' <=> FlagOf(s, t, x)
  BY <1>3, <1>5, ItemsKept
<1>9. Results'
  <2>1. \A s \in Ranks : Given(s)' = Given(s)
    BY <1>3, <1>5, <1>7, GivenKept
  <2>2. QED
    BY <1>4, <1>5, <2>1 DEF Results
<1>10. Agreed'
  <2> SUFFICES ASSUME ~aborted', NEW s \in Ranks, NEW t \in Ranks, NEW k \in Visits,
                      Warned(s, t, k)', FlagOf(t, s, plan[k].call)
               PROVE  s \in setup.calls[plan[k].call].loc
    BY <1>3, <1>6, <1>8 DEF Agreed
  <2>1. CASE Warned(s, t, k)
    BY <1>4, <2>1 DEF Agreed
  <2>2. CASE ~Warned(s, t, k)
    <3>1. k = pass[s] + 1 /\ second'[s] /\ t = Partner(s)
      BY <1>3, <1>7, <2>2 DEF Warned, Partner
    <3>2. s = r
      BY <1>3, <1>4, <2>2, <3>1 DEF Warned
    <3>3. QED
      BY <1>1, <1>5, <3>1, <3>2
  <2>3. QED
    BY <2>1, <2>2
<1>11. Stopped'
  <2> SUFFICES ASSUME aborted'
               PROVE  /\ \E s \in Ranks : pass[s] < Len(plan)
                      /\ \E x \in DOMAIN setup.calls : ~Coherent(x)'
    BY <1>3 DEF Stopped
  <2>1. FlagOf(q, r, c)
    BY <1>5
  <2>2. q \in setup.calls[c].dist /\ LocatedOn(r, q) /\ local_ids[r][q] # <<>>
    BY <1>2, <1>4, <2>1, FlagTells
  <2>3. r \notin setup.calls[c].loc
    BY <1>5, <2>2
  <2>4. LocatedOn(r, q)'
    BY <1>5, <2>2 DEF LocatedOn
  <2>5. ~Coherent(c)'
    BY <1>2, <1>3, <2>2, <2>3, <2>4 DEF Coherent
  <2>6. QED
    BY <1>2, <1>3, <2>5
<1>12. QED
  BY <1>9, <1>10, <1>11

\* The second one: the values are written.
LEMMA LeaveExchanged ==
  ASSUME LocatorInv, Theory!LoopInv, ContentInv, ReachInv, NEW r \in Ranks, Leave(r),
         stage = "done", second[r]
  PROVE  Results' /\ Agreed' /\ Stopped'
<1>1. PICK q, d, c : q = Partner(r) /\ d = Incoming(r).data /\ c = plan[pass[r] + 1].call
  OBVIOUS
<1>2. /\ pass[r] + 1 \in Visits /\ pass[r] \in Nat /\ c \in DOMAIN setup.calls
      /\ plan[pass[r] + 1].part = "first" /\ Call(r) = setup.calls[c]
      /\ q \in partners[r] /\ r \in partners[q] /\ q \in Ranks
      /\ Exchanged(r, q, d) /\ d = Values(r, q, c)
  BY <1>1, LeaveCall
<1>3. /\ UNCHANGED <<setup, plan, pass, stage, interior, partners>>
      /\ second' = [second EXCEPT ![r] = FALSE]
      /\ left' = [left EXCEPT ![r] = @ \ {q}]
  BY <1>1, <1>2, LeaveFacts
<1>4. /\ Results /\ Agreed /\ ~aborted
      /\ second \in [Ranks -> BOOLEAN] /\ left \in [Ranks -> SUBSET Ranks]
  BY RanksPlaced DEF ReachInv, Leave
<1>5. /\ UNCHANGED <<loc, partners, interior, local_ids, distants, aborted>>
      /\ result' = [result EXCEPT ![r] = @ \cup Items(r, q, c)]
  <2> DEFINE place(k) == IF Call(r).reverse THEN <<q, k>> ELSE <<0, local_ids[r][q][k]>>
             written == {[call |-> plan[pass[r] + 1].call, at |-> place(k), val |-> d[k]] :
                           k \in DOMAIN d}
  <2>1. /\ result' = [result EXCEPT ![r] = @ \cup written]
        /\ UNCHANGED <<loc, lists, aborted>>
    BY <1>2 DEF Exchanged
  <2>2. written = Items(r, q, c)
    BY <1>1, <1>2 DEF Items, Item
  <2> HIDE DEF written
  <2>3. QED
    BY <2>1, <2>2 DEF lists
<1>6. Visits' = Visits
  BY <1>3 DEF Visits
<1>7. \A s \in Ranks : s # r => left'[s] = left[s] /\ second'[s] = second[s]
  BY <1>3, <1>4
<1>8. left'[r] = left[r] \ {q} /\ second'[r] = FALSE
  BY <1>3, <1>4
<1>9. ASSUME NEW s \in Ranks, NEW t \in Ranks, NEW k \in Visits
      PROVE  /\ Over(s, t, k)' <=> Over(s, t, k) \/ (s = r /\ t = q /\ k = pass[r] + 1)
             /\ Warned(s, t, k)' => Warned(s, t, k)
  <2>1. CASE s # r
    BY <1>3, <1>7, <2>1 DEF Over, Warned, Partner
  <2>2. CASE s = r
    BY <1>1, <1>2, <1>3, <1>8, <2>2 DEF Over, Warned
  <2>3. QED
    BY <2>1, <2>2
<1>10. /\ \A s, t, x : Items(s, t, x)' = Items(s, t, x)
       /\ \A s, t, x : FlagOf(s, t, x)' <=> FlagOf(s, t, x)
  BY <1>3, <1>5, ItemsKept
<1>11. Results'
  <2>1. ASSUME NEW s \in Ranks, s # r PROVE Given(s)' = Given(s)
    BY <1>3, <1>5, <1>9, <2>1, GivenKept
  <2>2. Given(r)' = Given(r) \cup Items(r, q, c)
    <3>1. \A t, k : Gift(r, t, k)' = Gift(r, t, k)
      BY <1>3, <1>10 DEF Gift
    <3>2. ASSUME NEW v
          PROVE  v \in Given(r)' <=> \E k \in Visits, t \in Ranks :
                                       Over(r, t, k)' /\ v \in Gift(r, t, k)
      <4>1. v \in Given(r)' <=> \E k \in Visits', t \in Ranks :
                                  Over(r, t, k)' /\ v \in Gift(r, t, k)'
        BY DEF Given, Givers
      <4>2. QED
        BY <1>6, <3>1, <4>1
    <3>3. Gift(r, q, pass[r] + 1) = Items(r, q, c)
      BY <1>1 DEF Gift
    <3>4. ASSUME NEW v
          PROVE  v \in Given(r)' <=> v \in Given(r) \/ v \in Items(r, q, c)
      BY <1>2, <1>9, <3>2, <3>3, GivenHolds
    <3>5. QED
      BY <3>4
  <2>3. result' = [s \in Ranks |-> IF s = r THEN Given(r) \cup Items(r, q, c) ELSE Given(s)]
    BY <1>4, <1>5 DEF Results
  <2>4. QED
    BY <2>1, <2>2, <2>3 DEF Results
<1>12. Agreed'
  BY <1>3, <1>4, <1>5, <1>6, <1>9, <1>10 DEF Agreed
<1>13. Stopped'
  BY <1>4, <1>5 DEF Stopped
<1>14. QED
  BY <1>11, <1>12, <1>13

LEMMA ReachStep ==
  ASSUME LocatorInv, Theory!LoopInv, ContentInv, ReachInv, [Next]_vars
  PROVE  ReachInv'
<1>1. CASE Flags \/ GatherExtents \/ LocationRanks \/ Located
  BY <1>1, ReachFlags, ReachGather, ReachRanks, ReachLocated
<1>2. ASSUME NEW r \in Ranks, Enter(r) PROVE ReachInv'
  BY <1>2, ReachEnter
<1>3. ASSUME NEW r \in Ranks, EndLoop(r) PROVE ReachInv'
  BY <1>3, ReachEndLoop
<1>4. ASSUME NEW r \in Ranks, Leave(r) PROVE ReachInv'
  <2>1. Results' /\ Agreed' /\ Stopped'
    BY <1>4, LeaveEarly, LeaveFlagged, LeaveExchanged
  <2>2. QED
    BY <1>4, <2>1, LeaveLocates DEF ReachInv
<1>5. CASE UNCHANGED vars
  <2>1. UNCHANGED <<setup, plan, pass, second, left, stage, loc, partners, interior,
                    local_ids, distants, result, aborted>>
    BY <1>5 DEF vars, lists
  <2>2. QED
    BY <2>1, ReachSteady
<1>6. QED
  BY <1>1, <1>2, <1>3, <1>4, <1>5 DEF Next

\* When the calls have ended: what each rank has written in each of them.
LEMMA AllWritten ==
  ASSUME LocatorInv, Theory!LoopInv, ReachInv, Ended, NEW r \in Ranks,
         NEW c \in DOMAIN setup.calls
  PROVE  /\ \A v : v \in Written(r, c) <=> \E q \in partners[r] : v \in Items(r, q, c)
         /\ \E k \in Visits : plan[k].call = c /\ \A q \in partners[r] : Over(r, q, k)
<1>1. /\ Laid /\ Results /\ stage = "done" /\ pass[r] = Len(plan)
      /\ partners \in [Ranks -> SUBSET Ranks]
  BY DEF ReachInv, Ended, LocatorInv, Related
<1>2. pass[r] \in Nat
  BY RanksPlaced DEF Placed
<1>3. \A k \in Visits : k <= pass[r]
  BY <1>1, <1>2 DEF Visits
<1>4. ASSUME NEW k \in Visits, NEW q PROVE Over(r, q, k) <=> q \in partners[r]
  BY <1>3 DEF Over
<1>5. PICK k \in Visits : plan[k].call = c
  BY <1>1 DEF Laid
<1>6. \A q, x : \A v \in Items(r, q, x) : v.call = x
  BY DEF Items, Item
<1>7. result[r] = Given(r)
  BY <1>1 DEF Results
<1>8. ASSUME NEW v PROVE v \in Written(r, c) <=> \E q \in partners[r] : v \in Items(r, q, c)
  <2>1. v \in Written(r, c) <=> v \in Given(r) /\ v.call = c
    BY <1>7 DEF Written
  <2>2. ASSUME v \in Given(r), v.call = c PROVE \E q \in partners[r] : v \in Items(r, q, c)
    <3>1. PICK l \in Visits, q \in Ranks : Over(r, q, l) /\ v \in Gift(r, q, l)
      BY <2>2, GivenHolds
    <3>2. v \in Items(r, q, plan[l].call)
      BY <3>1 DEF Gift
    <3>3. plan[l].call = c
      BY <1>6, <2>2, <3>2
    <3>4. QED
      BY <1>4, <3>1, <3>2, <3>3
  <2>3. ASSUME NEW q \in partners[r], v \in Items(r, q, c) PROVE v \in Given(r) /\ v.call = c
    <3>1. q \in Ranks
      BY <1>1
    <3>2. Over(r, q, k) /\ v \in Gift(r, q, k)
      BY <1>4, <1>5, <2>3 DEF Gift
    <3>3. QED
      BY <1>6, <2>3, <3>1, <3>2, GivenHolds
  <2>4. QED
    BY <2>1, <2>2, <2>3
<1>9. QED
  BY <1>4, <1>5, <1>8

\* A rank that has values is one that the other rank exchanges with, and tells it.
LEMMA TellsFlag ==
  ASSUME LocatorInv, ContentInv, ReachInv, stage = "done", NEW r \in Ranks, NEW q \in Ranks,
         LocatedOn(r, q)
  PROVE  /\ q \in partners[r] /\ r \in partners[q]
         /\ \A c : q \in setup.calls[c].dist => FlagOf(q, r, c)
<1>1. Sized /\ Tied /\ Indexed
  BY DEF ContentInv, ReachInv
<1>2. q \in partners[r] /\ r \in partners[q]
  BY <1>1 DEF Indexed, LocatorInv, Related, Loop!Symmetric
<1>3. distants[q][r] = Told(r, q)
  BY <1>1, <1>2 DEF Tied, TiedTo
<1>4. PICK p \in DOMAIN loc[r] : loc[r][p].rank = q
  BY DEF LocatedOn
<1>5. \E k \in 1 .. Len(PointsOn(r, q)) : PointsOn(r, q)[k] = p
  BY <1>1, <1>4, PointsFound
<1>6. /\ Len(PointsOn(r, q)) \in Nat /\ Len(Told(r, q)) = Len(PointsOn(r, q))
  BY <1>1, PointsListed
<1>7. Len(Told(r, q)) # 0
  BY <1>5, <1>6
<1>8. Told(r, q) # <<>>
  BY <1>7, NothingListed
<1>9. QED
  BY <1>2, <1>3, <1>8 DEF FlagOf

LEMMA CallsCoherent ==
  ASSUME LocatorInv, Theory!LoopInv, ContentInv, ReachInv, Ended, NEW c \in DOMAIN setup.calls
  PROVE  Coherent(c)
<1>1. Agreed /\ Stopped /\ stage = "done"
  BY DEF ReachInv, Ended
<1>2. ~aborted
  <2>1. \A r \in Ranks : pass[r] = Len(plan) /\ pass[r] \in Nat
    BY RanksPlaced DEF Placed, Ended
  <2>2. QED
    BY <1>1, <2>1 DEF Stopped
<1> SUFFICES ASSUME NEW r \in Ranks, NEW q \in Ranks,
                    r \in setup.calls[c].dist, LocatedOn(q, r)
             PROVE  q \in setup.calls[c].loc
  BY DEF Coherent
<1>3. r \in partners[q] /\ FlagOf(r, q, c)
  BY <1>1, TellsFlag
<1>4. PICK k \in Visits : plan[k].call = c /\ \A t \in partners[q] : Over(q, t, k)
  BY AllWritten
<1>5. Warned(q, r, k)
  BY <1>3, <1>4 DEF Warned
<1>6. QED
  BY <1>1, <1>2, <1>3, <1>4, <1>5 DEF Agreed

\* The located points are listed once.
LEMMA InteriorOnce ==
  ASSUME LocatorInv, Sized, Indexed, stage = "done", NEW r \in Ranks
  PROVE  /\ \A i \in DOMAIN interior[r] : interior[r][i] \in Found(r)
         /\ \A i, j \in DOMAIN interior[r] : interior[r][i] = interior[r][j] => i = j
<1>1. /\ setup.pts[r] \in Seq(Int) /\ DOMAIN loc[r] \in {{}, DOMAIN setup.pts[r]}
      /\ Found(r) \subseteq DOMAIN loc[r] /\ interior[r] = Ascending(Found(r))
  BY PointLists DEF LocatorInv, Sized, Found, Indexed
<1>2. /\ DOMAIN Ascending(Found(r)) = 1 .. Len(Ascending(Found(r)))
      /\ \A k \in 1 .. Len(Ascending(Found(r))) : Ascending(Found(r))[k] \in Found(r)
      /\ \A j, k \in 1 .. Len(Ascending(Found(r))) :
           Ascending(Found(r))[j] = Ascending(Found(r))[k] => j = k
  BY <1>1, SomePoints, PointsAllListed
<1>3. QED
  BY <1>1, <1>2

\* What r receives from q in a call is about the points that are located there.
LEMMA ForwardItem ==
  ASSUME LocatorInv, ContentInv, ReachInv, stage = "done", NEW r \in Ranks,
         NEW q \in partners[r], NEW c, ~setup.calls[c].reverse, FlagOf(q, r, c)
  PROVE  /\ DOMAIN Values(r, q, c) = 1 .. Len(PointsOn(r, q))
         /\ \A k \in 1 .. Len(PointsOn(r, q)) :
              LET p == PointsOn(r, q)[k]
              IN  Item(r, q, c, k) =
                    [call |-> c, at |-> <<0, local_ids[r][q][k]>>,
                     val |-> [rank |-> q, elt |-> loc[r][p].elt, x |-> setup.pts[r][p]]]
<1>1. q \in Ranks /\ r \in partners[q] /\ Tied /\ Sized
  BY DEF LocatorInv, Related, Loop!Symmetric, ReachInv, ContentInv
<1>2. distants[q][r] = Told(r, q)
  BY <1>1 DEF Tied, TiedTo
<1>3. DOMAIN PointsOn(r, q) = 1 .. Len(PointsOn(r, q))
  BY <1>1, PointsListed
<1>4. /\ DOMAIN Told(r, q) = 1 .. Len(PointsOn(r, q))
      /\ \A k \in 1 .. Len(PointsOn(r, q)) :
           Told(r, q)[k] = [elt |-> loc[r][PointsOn(r, q)[k]].elt,
                            x |-> setup.pts[r][PointsOn(r, q)[k]]]
  BY <1>3 DEF Told
<1>5. Values(r, q, c) = DistantVar(q, r)
  BY DEF Values
<1>6. /\ DOMAIN DistantVar(q, r) = 1 .. Len(PointsOn(r, q))
      /\ \A k \in 1 .. Len(PointsOn(r, q)) :
           DistantVar(q, r)[k] = [rank |-> q, elt |-> loc[r][PointsOn(r, q)[k]].elt,
                                  x |-> setup.pts[r][PointsOn(r, q)[k]]]
  BY <1>2, <1>4 DEF DistantVar
<1>7. QED
  BY <1>5, <1>6 DEF Item

\* What r makes of the k-th value that q has for it in a call in reverse.
Returned(r, q, c, k) ==
  [call |-> c, at |-> <<q, k>>, val |-> [rank |-> q, point |-> PointsOn(q, r)[k]]]

LEMMA ReverseItem ==
  ASSUME LocatorInv, ContentInv, ReachInv, stage = "done", NEW r \in Ranks,
         NEW q \in partners[r], NEW c, setup.calls[c].reverse, FlagOf(r, q, c)
  PROVE  /\ DOMAIN Values(r, q, c) = 1 .. Len(PointsOn(q, r))
         /\ \A k \in 1 .. Len(PointsOn(q, r)) :
              /\ Item(r, q, c, k) = Returned(r, q, c, k)
              /\ distants[r][q][k] = [elt |-> loc[q][PointsOn(q, r)[k]].elt,
                                      x |-> setup.pts[q][PointsOn(q, r)[k]]]
<1>1. q \in Ranks /\ r \in partners[q] /\ Tied /\ Sized
  BY DEF LocatorInv, Related, Loop!Symmetric, ReachInv, ContentInv
<1>2. TiedTo(q, r) /\ distants[r][q] = Told(q, r)
  BY <1>1 DEF Tied, TiedTo
<1>3. /\ DOMAIN PointsOn(q, r) = 1 .. Len(PointsOn(q, r)) /\ Listlike(local_ids[q][r])
  BY <1>1, PointsListed DEF Sized
<1>4. DOMAIN local_ids[q][r] = 1 .. Len(PointsOn(q, r))
  BY <1>2, <1>3 DEF Listlike, TiedTo
<1>5. \A k \in 1 .. Len(PointsOn(q, r)) :
        Told(q, r)[k] = [elt |-> loc[q][PointsOn(q, r)[k]].elt,
                         x |-> setup.pts[q][PointsOn(q, r)[k]]]
  BY <1>3 DEF Told
<1>6. Values(r, q, c) = LocalVar(q, r)
  BY DEF Values
<1>7. /\ DOMAIN LocalVar(q, r) = 1 .. Len(PointsOn(q, r))
      /\ \A k \in 1 .. Len(PointsOn(q, r)) :
           LocalVar(q, r)[k] = [rank |-> q, point |-> PointsOn(q, r)[k]]
  BY <1>2, <1>4 DEF LocalVar, TiedTo
<1>8. QED
  BY <1>2, <1>5, <1>6, <1>7 DEF Item, Returned

\* What a call writes at the i-th located point.
Landed(r, c, i) ==
  LET p == interior[r][i]
  IN  [call |-> c, at |-> <<0, i>>,
       val |-> [rank |-> loc[r][p].rank, elt |-> loc[r][p].elt, x |-> setup.pts[r][p]]]

LEMMA ForwardReaches ==
  ASSUME LocatorInv, Theory!LoopInv, ContentInv, ReachInv, Ended, NEW r \in Ranks,
         NEW c \in DOMAIN setup.calls, ~setup.calls[c].reverse
  PROVE  ForwardDone(r, c)
<1> DEFINE I == {k \in DOMAIN interior[r] :
                   loc[r][interior[r][k]].rank \in setup.calls[c].dist}
<1>1. /\ stage = "done" /\ Sized /\ Tied /\ Indexed /\ setup \in Setups
      /\ partners[r] \subseteq Ranks
  BY DEF Ended, ContentInv, ReachInv, LocatorInv, Related
<1>2. \A v : v \in Written(r, c) <=> \E q \in partners[r] : v \in Items(r, q, c)
  BY AllWritten
<1>3. ASSUME NEW q \in partners[r], NEW v \in Items(r, q, c)
      PROVE  \E i \in I : v = Landed(r, c, i)
  <2>1. FlagOf(q, r, c)
    <3>1. ~FlagOf(q, r, c) => Values(r, q, c) = <<>>
      BY DEF Values
    <3>2. QED
      BY <3>1, NothingListed DEF Items
  <2>2. q \in setup.calls[c].dist /\ q \in Ranks
    BY <1>1, <2>1, FlagTells
  <2>3. PICK k \in 1 .. Len(PointsOn(r, q)) : v = Item(r, q, c, k)
    BY <1>1, <2>1, ForwardItem DEF Items
  <2>4. PICK p, i : p = PointsOn(r, q)[k] /\ i = local_ids[r][q][k]
    OBVIOUS
  <2>5. v = [call |-> c, at |-> <<0, i>>,
             val |-> [rank |-> q, elt |-> loc[r][p].elt, x |-> setup.pts[r][p]]]
    BY <1>1, <2>1, <2>3, <2>4, ForwardItem
  <2>6. i \in DOMAIN interior[r] /\ interior[r][i] = p
    BY <1>1, <2>4 DEF Tied, TiedTo
  <2>7. loc[r][p].rank = q
    BY <1>1, <2>2, <2>4, PointsFound
  <2>8. i \in I
    BY <2>2, <2>6, <2>7
  <2>9. v = Landed(r, c, i)
    BY <2>5, <2>6, <2>7 DEF Landed
  <2>10. QED
    BY <2>8, <2>9
<1>4. ASSUME NEW i \in I
      PROVE  \E q \in partners[r] : Landed(r, c, i) \in Items(r, q, c)
  <2>1. PICK p, q : p = interior[r][i] /\ q = loc[r][p].rank
    OBVIOUS
  <2>2. p \in Found(r) /\ i \in DOMAIN interior[r] /\ q \in setup.calls[c].dist
    BY <1>1, <2>1, InteriorOnce
  <2>3. p \in DOMAIN loc[r] /\ q > -1
    BY <2>1, <2>2 DEF Found
  <2>4. q \in Ranks
    <3>1. q \in setup.far[r] \cup {-1} /\ q # -1
      BY <2>1, <2>3 DEF ReachInv, Traced
    <3>2. QED
      BY <1>1, <3>1, FarRanks
  <2>5. LocatedOn(r, q)
    BY <2>1, <2>3 DEF LocatedOn
  <2>6. q \in partners[r] /\ FlagOf(q, r, c)
    BY <1>1, <2>2, <2>4, <2>5, TellsFlag
  <2>7. PICK k \in 1 .. Len(PointsOn(r, q)) : PointsOn(r, q)[k] = p
    BY <1>1, <2>1, <2>3, <2>4, PointsFound
  <2>8. local_ids[r][q][k] = i
    <3>1. local_ids[r][q][k] \in DOMAIN interior[r] /\ interior[r][local_ids[r][q][k]] = p
      BY <1>1, <2>6, <2>7 DEF Tied, TiedTo
    <3>2. QED
      BY <1>1, <2>1, <2>2, <3>1, InteriorOnce
  <2>9. /\ Item(r, q, c, k) =
             [call |-> c, at |-> <<0, i>>,
              val |-> [rank |-> q, elt |-> loc[r][p].elt, x |-> setup.pts[r][p]]]
        /\ k \in DOMAIN Values(r, q, c)
    BY <1>1, <2>6, <2>7, <2>8, ForwardItem
  <2>10. Landed(r, c, i) = Item(r, q, c, k)
    BY <2>1, <2>9 DEF Landed
  <2>11. Item(r, q, c, k) \in Items(r, q, c)
    BY <2>9 DEF Items
  <2>12. QED
    BY <2>6, <2>10, <2>11
<1>5. Written(r, c) = {Landed(r, c, i) : i \in I}
  <2> HIDE DEF I
  <2>1. \A v : v \in Written(r, c) <=> \E i \in I : v = Landed(r, c, i)
    BY <1>2, <1>3, <1>4
  <2>2. \A v : v \in {Landed(r, c, i) : i \in I} <=> \E i \in I : v = Landed(r, c, i)
    OBVIOUS
  <2>3. QED
    BY <2>1, <2>2
<1>6. QED
  BY <1>5 DEF ForwardDone, Landed

LEMMA ReverseReaches ==
  ASSUME LocatorInv, Theory!LoopInv, ContentInv, ReachInv, Ended, NEW r \in Ranks,
         NEW c \in DOMAIN setup.calls, setup.calls[c].reverse
  PROVE  ReverseDone(r, c)
<1> DEFINE All == UNION {[rank : {q}, point : DOMAIN setup.pts[q]] : q \in Ranks}
           Those == {v \in All : r \in setup.calls[c].dist /\ loc[v.rank][v.point].rank = r}
<1>1. /\ stage = "done" /\ Sized /\ Tied /\ Indexed /\ setup \in Setups /\ Traced
      /\ partners[r] \subseteq Ranks /\ Related
  BY DEF Ended, ContentInv, ReachInv, LocatorInv, Related
<1>1a. ASSUME NEW q \in partners[r], FlagOf(r, q, c)
      PROVE  /\ DOMAIN Values(r, q, c) = 1 .. Len(PointsOn(q, r))
             /\ \A j \in 1 .. Len(PointsOn(q, r)) : Item(r, q, c, j) = Returned(r, q, c, j)
  BY <1>1a, <1>1, ReverseItem
<1>2. \A v : v \in Written(r, c) <=> \E q \in partners[r] : v \in Items(r, q, c)
  BY AllWritten
<1>3. \A q \in Ranks : DOMAIN loc[q] = DOMAIN setup.pts[q]
  BY <1>1 DEF Traced
<1>4. \A u : u \in Those <=>
        \E q \in Ranks : \E p \in DOMAIN setup.pts[q] :
          u = [rank |-> q, point |-> p] /\ r \in setup.calls[c].dist /\ loc[q][p].rank = r
  <2>1. ASSUME NEW u \in Those
        PROVE  \E q \in Ranks : \E p \in DOMAIN setup.pts[q] :
                 u = [rank |-> q, point |-> p] /\ r \in setup.calls[c].dist
                 /\ loc[q][p].rank = r
    <3>1. PICK q \in Ranks : u \in [rank : {q}, point : DOMAIN setup.pts[q]]
      OBVIOUS
    <3>2. /\ u.rank = q /\ u.point \in DOMAIN setup.pts[q]
          /\ u = [rank |-> q, point |-> u.point]
      BY <3>1
    <3>3. QED
      BY <3>2
  <2>2. ASSUME NEW q \in Ranks, NEW p \in DOMAIN setup.pts[q],
               r \in setup.calls[c].dist, loc[q][p].rank = r
        PROVE  [rank |-> q, point |-> p] \in Those
    <3>1. [rank |-> q, point |-> p] \in [rank : {q}, point : DOMAIN setup.pts[q]]
      OBVIOUS
    <3>2. [rank |-> q, point |-> p] \in All
      BY <3>1
    <3> HIDE DEF All
    <3>3. [rank |-> q, point |-> p].rank = q /\ [rank |-> q, point |-> p].point = p
      OBVIOUS
    <3>4. QED
      BY <2>2, <3>2, <3>3
  <2> HIDE DEF Those
  <2>3. QED
    BY <2>1, <2>2
<1> HIDE DEF Those
<1>5. ASSUME NEW v \in Written(r, c)
      PROVE  /\ v.val \in Those /\ v.at[1] = v.val.rank
             /\ distants[r][v.at[1]][v.at[2]].elt = loc[v.val.rank][v.val.point].elt
             /\ distants[r][v.at[1]][v.at[2]].x = setup.pts[v.val.rank][v.val.point]
  <2>1. PICK q \in partners[r] : v \in Items(r, q, c)
    BY <1>2
  <2>2. FlagOf(r, q, c)
    <3>1. ~FlagOf(r, q, c) => Values(r, q, c) = <<>>
      BY DEF Values
    <3>2. QED
      BY <2>1, <3>1, NothingListed DEF Items
  <2>3. PICK k \in 1 .. Len(PointsOn(q, r)) : v = Item(r, q, c, k)
    BY <1>1, <2>1, <2>2, ReverseItem DEF Items
  <2>4. PICK p : p = PointsOn(q, r)[k]
    OBVIOUS
  <2>5. /\ v = [call |-> c, at |-> <<q, k>>, val |-> [rank |-> q, point |-> p]]
        /\ distants[r][q][k] = [elt |-> loc[q][p].elt, x |-> setup.pts[q][p]]
    <3>1. v = Returned(r, q, c, k)
      BY <1>1a, <2>2, <2>3
    <3>2. QED
      BY <1>1, <2>2, <2>3, <2>4, <3>1, ReverseItem DEF Returned
  <2>6. q \in Ranks /\ p \in DOMAIN loc[q] /\ loc[q][p].rank = r
    BY <1>1, <2>4, PointsFound
  <2>7. v.val = [rank |-> q, point |-> p] /\ v.at = <<q, k>>
    BY <2>5
  <2>8. v.val \in Those
    BY <1>3, <1>4, <2>2, <2>6, <2>7 DEF FlagOf
  <2>9. v.val.rank = q /\ v.val.point = p /\ v.at[1] = q /\ v.at[2] = k
    BY <2>7
  <2>10. QED
    BY <2>5, <2>8, <2>9
<1>6. ASSUME NEW u \in Those PROVE \E v \in Written(r, c) : v.val = u
  <2>0. PICK q \in Ranks : \E p \in DOMAIN setup.pts[q] :
          u = [rank |-> q, point |-> p] /\ r \in setup.calls[c].dist /\ loc[q][p].rank = r
    BY <1>4
  <2>1. PICK p \in DOMAIN setup.pts[q] :
          u = [rank |-> q, point |-> p] /\ r \in setup.calls[c].dist /\ loc[q][p].rank = r
    BY <2>0
  <2>2. p \in DOMAIN loc[q] /\ LocatedOn(q, r)
    BY <1>3, <2>1 DEF LocatedOn
  <2>3. q \in partners[r] /\ FlagOf(r, q, c)
    BY <1>1, <2>1, <2>2, TellsFlag
  <2>4. PICK k \in 1 .. Len(PointsOn(q, r)) : PointsOn(q, r)[k] = p
    BY <1>1, <2>1, <2>2, PointsFound
  <2>5. /\ Item(r, q, c, k) = [call |-> c, at |-> <<q, k>>,
                               val |-> [rank |-> q, point |-> p]]
        /\ k \in DOMAIN Values(r, q, c)
    <3> HIDE DEF All
    <3>1. q \in partners[r] /\ FlagOf(r, q, c)
      BY <2>3
    <3>2. k \in DOMAIN Values(r, q, c) /\ Item(r, q, c, k) = Returned(r, q, c, k)
      BY <1>1a, <3>1
    <3>3. QED
      BY <2>4, <3>2 DEF Returned
  <2>6. Item(r, q, c, k) \in Written(r, c)
    BY <1>2, <2>3, <2>5 DEF Items
  <2>7. Item(r, q, c, k).val = u
    BY <2>1, <2>5
  <2>8. QED
    BY <2>6, <2>7
<1>7. {v.val : v \in Written(r, c)} = Those
  BY <1>5, <1>6
<1>8. QED
  BY <1>5, <1>7 DEF ReverseDone, Those

\* The values reach their points, and the run stops only when calls do not match.
LEMMA ReachFollows ==
  ASSUME LocatorInv, Theory!LoopInv, ContentInv, ReachInv
  PROVE  ValuesReach
<1>1. ASSUME Ended, NEW c \in DOMAIN setup.calls
      PROVE  /\ Coherent(c)
             /\ \A r \in Ranks : IF setup.calls[c].reverse THEN ReverseDone(r, c)
                                 ELSE ForwardDone(r, c)
  BY <1>1, CallsCoherent, ForwardReaches, ReverseReaches
<1>2. aborted => \E c \in DOMAIN setup.calls : ~Coherent(c)
  BY DEF ReachInv, Stopped
<1>3. QED
  BY <1>1, <1>2 DEF ValuesReach

LEMMA ReachKept == Spec => []ReachInv
<1>1. Init => ReachInv
  BY ReachInit
<1>2. LocatorInv /\ Theory!LoopInv /\ ContentInv /\ ReachInv /\ [Next]_vars => ReachInv'
  BY ReachStep
<1>3. Theory!LoopSpec => []Theory!LoopInv
  BY Theory!LoopInvInductive, RanksAssumption
<1>4. QED
  BY <1>1, <1>2, <1>3, LocatorLoops, PlansAgree, ListsMatch, PTL DEF Spec

\* Values reach the points that are located on the elements they come from, and in reverse
\* the elements those of the points, in each of the calls, for any ranks, points, elements,
\* tolerances and calls: the lists of the ranks, built apart from each other, number the
\* same points, and an array is missing only where the calls do not match.
THEOREM ValuesAlwaysReach == Spec => []ValuesReach
<1>1. LocatorInv /\ Theory!LoopInv /\ ContentInv /\ ReachInv => ValuesReach
  BY ReachFollows
<1>2. Theory!LoopSpec => []Theory!LoopInv
  BY Theory!LoopInvInductive, RanksAssumption
<1>3. QED
  BY <1>1, <1>2, LocatorLoops, PlansAgree, ListsMatch, ReachKept, PTL

-------------------------------------------------------------------------------
(***************************************************************************)
(* Each point is located on the nearest element.  The searches are those   *)
(* of the rounds up to the present one; a point that one of them found is  *)
(* carried through the next ones, by the ranks that hold it in their lists.*)
(***************************************************************************)

\* The first n searches find an element near p; c is the one to locate it on.
Seen(r, p, n) == \E k \in 0 .. n - 1 : Candidates(r, p, k) # {}
Elected(r, p, n, c) ==
  \E k \in 0 .. n - 1 :
    /\ c \in Candidates(r, p, k) /\ \A j \in 0 .. k - 1 : Candidates(r, p, j) = {}
    /\ \A d \in Candidates(r, p, k) : Distance(r, p, c) <= Distance(r, p, d)

Spot(r, p) == <<loc[r][p].rank, loc[r][p].elt>>
Nowhere == <<-1, -1>>
Settled(r, p, n) ==
  IF Seen(r, p, n) THEN p \in DOMAIN loc[r] /\ Elected(r, p, n, Spot(r, p))
  ELSE p \in DOMAIN loc[r] => Spot(r, p) = Nowhere

\* Between two searches, the lists hold all that has been located.
Carried ==
  stage = "flags" =>
    /\ \A r \in Ranks : \A p \in DOMAIN setup.pts[r] : Settled(r, p, round)
    /\ \A r, q \in Ranks : LocatedOn(r, q) => q \in partners[r]
    /\ \A r \in Ranks : \A q \in partners[r] : TiedTo(r, q)

\* Then they give back each point its location.
Held(r, q, k) == interior[r][local_ids[r][q][k]]
Moved(r, q) == q \in partners[r] /\ (pass[r] = Len(plan) \/ q \notin left[r])
Regained(r, p) == Spot(r, p) = Nowhere \/ Elected(r, p, round, Spot(r, p))
Moving ==
  stage = "extents" => \A r \in Ranks :
    /\ \A q \in partners[r] : \A k \in 1 .. Len(local_ids[r][q]) :
         Elected(r, Held(r, q, k), round, <<q, distants[q][r][k].elt>>)
    /\ \A p \in DOMAIN setup.pts[r] :
         /\ Regained(r, p)
         /\ Seen(r, p, round) => \E q \in partners[r] : \E k \in 1 .. Len(local_ids[r][q]) :
              Held(r, q, k) = p /\ (Moved(r, q) => Spot(r, p) # Nowhere)

\* During a search, the best answer of the ranks visited so far.
Visited(r, q) == q \in plan[Len(plan)].with[r] /\ (pass[r] = Len(plan) \/ q \notin left[r])
Close(r, p, q) == Near(q, setup.pts[r][p], round)
Sought(r, p) ==
  IF loc[r][p].elt < 0
  THEN Spot(r, p) = Nowhere /\ \A q \in Ranks : Visited(r, q) => Close(r, p, q) = {}
  ELSE /\ Spot(r, p) \in Candidates(r, p, round)
       /\ loc[r][p].dist = Distance(r, p, Spot(r, p))
       /\ \A q \in Ranks : Visited(r, q) =>
            \A e \in Close(r, p, q) : loc[r][p].dist <= Distance(r, p, <<q, e>>)
Searching ==
  stage = "ranks" => \A r \in Ranks :
    /\ pass[r] < Len(plan) => pass[r] + 2 = Len(plan)
    /\ \A j \in DOMAIN todo[r] : todo[r][j] = j
    /\ \A p \in DOMAIN setup.pts[r] :
         IF p \in DOMAIN todo[r]
         THEN /\ ~Seen(r, p, round) /\ Sought(r, p)
              /\ \A q \in setup.far[r] : Close(r, p, q) # {} => q \in plan[Len(plan)].with[r]
         ELSE Elected(r, p, round, Spot(r, p))

Concluded ==
  stage \in {"located", "done"} =>
    \A r \in Ranks : \A p \in DOMAIN setup.pts[r] : Settled(r, p, round + 1)

NearInv ==
  /\ Carried /\ Moving /\ Searching /\ Concluded
  /\ ~setup.nearest => round = 0

\* A list of integers has a least element and a greatest one.
LEMMA LeastValue ==
  ASSUME NEW n \in Nat, n # 0, NEW f, \A k \in 1 .. n : f[k] \in Int
  PROVE  \E m \in 1 .. n : \A k \in 1 .. n : f[m] <= f[k]
<1> DEFINE upto(i) == {j \in 1 .. n : f[j] <= f[i]}
           T == {upto(i) : i \in 1 .. n}
<1>1. T \subseteq FiniteSubsetsOf(Nat) /\ T # {}
  <2>1. IsFiniteSet(1 .. n) /\ 1 \in 1 .. n
    BY FS_Interval
  <2>2. ASSUME NEW i \in 1 .. n PROVE upto(i) \in FiniteSubsetsOf(Nat)
    <3>1. upto(i) \in SUBSET (1 .. n) /\ upto(i) \in SUBSET Nat
      OBVIOUS
    <3> HIDE DEF upto
    <3>2. IsFiniteSet(upto(i))
      BY <2>1, <3>1, FS_Subset
    <3>3. QED
      BY <3>1, <3>2 DEF FiniteSubsetsOf
  <2>3. upto(1) \in T
    BY <2>1
  <2> HIDE DEF upto
  <2>4. QED
    BY <2>2, <2>3
<1>2. IsWellFoundedOn(StrictSubsetOrdering(Nat), FiniteSubsetsOf(Nat))
  BY FS_StrictSubsetOrderingWellFounded
<1>3. PICK x \in T : \A y \in T : ~(<<y, x>> \in StrictSubsetOrdering(Nat))
  BY <1>1, <1>2, WFMin
<1>4. PICK m \in 1 .. n : x = upto(m)
  OBVIOUS
<1>5. ASSUME NEW k \in 1 .. n, ~(f[m] <= f[k]) PROVE FALSE
  <2>1. f[k] \in Int /\ f[m] \in Int /\ f[k] < f[m]
    BY <1>5
  <2>2. \A j \in 1 .. n : f[j] \in Int /\ (f[j] <= f[k] => f[j] <= f[m])
    BY <2>1
  <2>3. m \in upto(m) /\ m \notin upto(k)
    BY <2>1
  <2>4. upto(k) \subseteq upto(m) /\ upto(m) \subseteq Nat
    BY <2>2
  <2>5. upto(k) \in T
    OBVIOUS
  <2> HIDE DEF upto, T
  <2>6. <<upto(k), upto(m)>> \in StrictSubsetOrdering(Nat)
    BY <2>3, <2>4 DEF StrictSubsetOrdering
  <2>7. QED
    BY <1>3, <1>4, <2>5, <2>6
<1>6. QED
  BY <1>5

LEMMA ExtentsHold ==
  ASSUME NEW n \in Nat, n # 0, NEW f, \A k \in 1 .. n : f[k] \in Int, NEW t \in Int,
         NEW S, S = {f[k] : k \in 1 .. n}
  PROVE  /\ Extents(S, t).lo \in Int /\ Extents(S, t).hi \in Int
         /\ \A k \in 1 .. n : Extents(S, t).lo <= f[k] - t /\ f[k] + t <= Extents(S, t).hi
<1>1. PICK a \in 1 .. n : \A k \in 1 .. n : f[a] <= f[k]
  BY LeastValue
<1>2. PICK b \in 1 .. n : \A k \in 1 .. n : f[b] >= f[k]
  <2> DEFINE g == [k \in 1 .. n |-> -f[k]]
  <2>1. \A k \in 1 .. n : g[k] \in Int /\ g[k] = -f[k]
    OBVIOUS
  <2> HIDE DEF g
  <2>2. PICK b \in 1 .. n : \A k \in 1 .. n : g[b] <= g[k]
    BY <2>1, LeastValue
  <2>3. \A k \in 1 .. n : f[b] >= f[k]
    BY <2>1, <2>2
  <2>4. QED
    BY <2>3
<1>3. f[a] \in S /\ (\A x \in S : f[a] <= x) /\ f[b] \in S /\ (\A x \in S : f[b] >= x)
  BY <1>1, <1>2
<1>4. S # {} /\ S \subseteq Int
  BY <1>3
<1>5. Min(S) \in S /\ \A x \in S : Min(S) <= x
  BY <1>3 DEF Min
<1>6. Max(S) \in S /\ \A x \in S : Max(S) >= x
  BY <1>3 DEF Max
<1>7. \A k \in 1 .. n : f[k] \in S
  OBVIOUS
<1>8. Extents(S, t) = [lo |-> Min(S) - t, hi |-> Max(S) + t]
  BY <1>4 DEF Extents
<1>9. Extents(S, t).lo = Min(S) - t /\ Extents(S, t).hi = Max(S) + t
  BY <1>8
<1>10. Min(S) \in Int /\ Max(S) \in Int
  BY <1>4, <1>5, <1>6
<1>11. \A k \in 1 .. n : f[k] \in Int /\ Min(S) <= f[k] /\ f[k] <= Max(S)
  BY <1>5, <1>6, <1>7, <1>10
<1>12. PICK lo, hi : lo = Min(S) /\ hi = Max(S)
  OBVIOUS
<1>13. /\ lo - t \in Int /\ hi + t \in Int
       /\ \A k \in 1 .. n : lo - t <= f[k] - t /\ f[k] + t <= hi + t
  BY <1>10, <1>11, <1>12
<1>14. QED
  BY <1>9, <1>12, <1>13

\* The coordinates and the tolerances are integers.
Mesh(q) == /\ Len(setup.elts[q]) \in Nat /\ DOMAIN setup.elts[q] = 1 .. Len(setup.elts[q])
           /\ \A e \in DOMAIN setup.elts[q] : setup.elts[q][e] \in Int
           /\ \A k \in Nat : Tolerance(q, k) \in Int
LEMMA Meshes == ASSUME setup \in Setups PROVE \A q \in Ranks : Mesh(q)
<1>1. ASSUME NEW q \in Ranks PROVE Mesh(q)
  <2>1. setup.elts[q] \in Seq(Int) /\ setup.tol[q] \in Int
    BY SetupAssumption
  <2>2. \A k \in Nat : 4^k \in Int
    OBVIOUS
  <2>3. \A k \in Nat : Tolerance(q, k) \in Int
    BY <2>1, <2>2 DEF Tolerance
  <2>4. QED
    BY <2>1, <2>3 DEF Mesh
<1>2. QED
  BY <1>1

\* A point close to an element of q is within the extents of its mesh.
LEMMA CloseWithin ==
  ASSUME setup \in Setups, round \in Nat, NEW q \in Ranks, NEW x \in Int,
         Near(q, x, round) # {}
  PROVE  /\ Within(x, MeshExtents(q))
         /\ MeshExtents(q).lo \in Int /\ MeshExtents(q).hi \in Int
<1>1. Mesh(q)
  BY Meshes
<1>2. PICK e \in DOMAIN setup.elts[q] : Abs(x - setup.elts[q][e]) < Tolerance(q, round)
  BY DEF Near
<1>3. PICK n, t, f, y : n = Len(setup.elts[q]) /\ t = Tolerance(q, round) /\ f = setup.elts[q]
                        /\ y = f[e]
  OBVIOUS
<1>4. /\ n \in Nat /\ t \in Int /\ y \in Int /\ e \in 1 .. n /\ n # 0
      /\ \A k \in 1 .. n : f[k] \in Int
  <2>1. /\ n \in Nat /\ DOMAIN setup.elts[q] = 1 .. n /\ t \in Int
        /\ \A k \in 1 .. n : f[k] \in Int
    BY <1>1, <1>3 DEF Mesh
  <2>2. e \in 1 .. n
    BY <1>2, <2>1
  <2>3. n # 0
    BY <2>1, <2>2
  <2>4. QED
    BY <1>3, <2>1, <2>2, <2>3
<1>5. Range(f) = {f[k] : k \in 1 .. n}
  BY <1>1, <1>3 DEF Range, Mesh
<1>6. MeshExtents(q) = Extents(Range(f), t)
  BY <1>3 DEF MeshExtents
<1>7. PICK g : g = MeshExtents(q)
  OBVIOUS
<1>8. g.lo \in Int /\ g.hi \in Int /\ g.lo <= y - t /\ y + t <= g.hi
  <2>1. /\ g.lo \in Int /\ g.hi \in Int
        /\ \A k \in 1 .. n : g.lo <= f[k] - t /\ f[k] + t <= g.hi
    <3>1. PICK S : S = Range(f)
      OBVIOUS
    <3>2. S = {f[k] : k \in 1 .. n} /\ g = Extents(S, t)
      BY <1>5, <1>6, <1>7, <3>1
    <3>3. /\ Extents(S, t).lo \in Int /\ Extents(S, t).hi \in Int
          /\ \A k \in 1 .. n : Extents(S, t).lo <= f[k] - t /\ f[k] + t <= Extents(S, t).hi
      BY <1>4, <3>2, ExtentsHold
    <3>4. QED
      BY <3>2, <3>3
  <2>2. QED
    BY <1>3, <1>4, <2>1
<1>9. x - y < t /\ y - x < t
  BY <1>2, <1>3, <1>4 DEF Abs
<1>10. g.lo <= x /\ x <= g.hi
  BY <1>4, <1>8, <1>9
<1>11. QED
  BY <1>7, <1>8, <1>10 DEF Within

LEMMA CloseMeet ==
  ASSUME setup \in Setups, round \in Nat, NEW r \in Ranks, NEW q \in Ranks,
         NEW n \in Nat, n <= Len(setup.pts[r]), NEW p \in 1 .. n,
         Near(q, setup.pts[r][p], round) # {}
  PROVE  Meet(PointExtents(r, n), MeshExtents(q))
<1>1. PICK f, x : f = setup.pts[r] /\ x = f[p]
  OBVIOUS
<1>2. f \in Seq(Int) /\ Len(f) \in Nat
  BY <1>1, PointLists
<1>3. x \in Int /\ n # 0 /\ \A k \in 1 .. n : f[k] \in Int
  BY <1>1, <1>2
<1>4. PICK g : g = MeshExtents(q)
  OBVIOUS
<1>5. Within(x, MeshExtents(q)) /\ MeshExtents(q).lo \in Int /\ MeshExtents(q).hi \in Int
  BY <1>1, <1>3, CloseWithin
<1>6. g.lo \in Int /\ g.hi \in Int /\ g.lo <= x /\ x <= g.hi
  BY <1>4, <1>5 DEF Within
<1>7. PICK S, z : S = {f[k] : k \in 1 .. n} /\ z = 0
  OBVIOUS
<1>8. PICK h : h = Extents(S, z)
  OBVIOUS
<1>9. /\ Extents(S, z).lo \in Int /\ Extents(S, z).hi \in Int
      /\ \A k \in 1 .. n : Extents(S, z).lo <= f[k] - z /\ f[k] + z <= Extents(S, z).hi
  <2>1. z \in Int
    BY <1>7
  <2>2. QED
    BY <1>3, <1>7, <2>1, ExtentsHold
<1>10. h.lo \in Int /\ h.hi \in Int /\ h.lo <= x - z /\ x + z <= h.hi
  BY <1>1, <1>8, <1>9
<1>11. h = PointExtents(r, n)
  BY <1>1, <1>7, <1>8 DEF PointExtents
<1>12. h.lo <= g.hi /\ g.lo <= h.hi
  BY <1>3, <1>6, <1>7, <1>10
<1>13. QED
  BY <1>4, <1>11, <1>12 DEF Meet

\* What a rank answers: its nearest element, among those that are close enough.
LEMMA LocateFinds ==
  ASSUME setup \in Setups, NEW q \in Ranks, NEW x \in Int
  PROVE  IF Near(q, x, round) = {} THEN Locate(q, x).dist = -1 /\ Locate(q, x).elt = -1
         ELSE /\ Locate(q, x).elt \in Near(q, x, round)
              /\ Locate(q, x).dist = Abs(x - setup.elts[q][Locate(q, x).elt])
              /\ Locate(q, x).dist \in Nat
              /\ \A e \in Near(q, x, round) : Locate(q, x).dist <= Abs(x - setup.elts[q][e])
<1>1. CASE Near(q, x, round) = {}
  BY <1>1 DEF Locate
<1>2. CASE Near(q, x, round) # {}
  <2>1. PICK N, f : N = Near(q, x, round) /\ f = setup.elts[q]
    OBVIOUS
  <2>2. N # {} /\ N \subseteq DOMAIN f /\ N \subseteq Nat /\ \A e \in N : f[e] \in Int
    <3>1. Mesh(q)
      BY Meshes
    <3>2. QED
      BY <1>2, <2>1, <3>1 DEF Near, Mesh
  <2>3. \A e \in N : Abs(x - f[e]) \in Nat
    BY <2>2 DEF Abs
  <2>4. PICK D : D = {Abs(x - f[e]) : e \in N}
    OBVIOUS
  <2>5. D \subseteq Nat /\ D # {}
    BY <2>2, <2>3, <2>4
  <2>6. PICK m \in D : \A d \in D : m <= d
    BY <2>5, RanksAssumption, Theory!LeastExists
  <2>7. Min(D) \in D /\ \A d \in D : Min(D) <= d
    BY <2>6 DEF Min
  <2>8. PICK E : E = {e \in N : Abs(x - f[e]) = Min(D)}
    OBVIOUS
  <2>9. E \subseteq Nat /\ E # {}
    BY <2>2, <2>4, <2>7, <2>8
  <2>10. PICK b \in E : \A e \in E : b <= e
    BY <2>9, RanksAssumption, Theory!LeastExists
  <2>11. Min(E) \in E
    BY <2>10 DEF Min
  <2>12. Locate(q, x) = [elt |-> Min(E), dist |-> Min(D)]
    BY <1>2, <2>1, <2>4, <2>8 DEF Locate
  <2>13. PICK i, d : i = Min(E) /\ d = Min(D)
    OBVIOUS
  <2>14. Locate(q, x).elt = i /\ Locate(q, x).dist = d
    BY <2>12, <2>13
  <2>15. i \in N /\ d = Abs(x - f[i]) /\ d \in Nat /\ \A e \in N : d <= Abs(x - f[e])
    BY <2>4, <2>5, <2>7, <2>8, <2>11, <2>13
  <2>16. QED
    BY <1>2, <2>1, <2>14, <2>15
<1>3. QED
  BY <1>1, <1>2

\* The candidates and the searches.
LEMMA CandidatesAre ==
  ASSUME NEW r, NEW p, NEW k
  PROVE  /\ \A q, e :
              /\ <<q, e>> \in Candidates(r, p, k) <=>
                   q \in setup.far[r] /\ e \in Near(q, setup.pts[r][p], k)
              /\ Distance(r, p, <<q, e>>) = Abs(setup.pts[r][p] - setup.elts[q][e])
         /\ \A c \in Candidates(r, p, k) : \E q \in setup.far[r] :
              \E e \in Near(q, setup.pts[r][p], k) : c = <<q, e>>
<1>1. \A c \in Candidates(r, p, k) : \E q \in setup.far[r] :
              \E e \in Near(q, setup.pts[r][p], k) : c = <<q, e>>
  BY DEF Candidates
<1>2. \A q, e : <<q, e>> \in Candidates(r, p, k) =>
                  q \in setup.far[r] /\ e \in Near(q, setup.pts[r][p], k)
  BY <1>1
<1>3. ASSUME NEW q \in setup.far[r], NEW e \in Near(q, setup.pts[r][p], k)
      PROVE  <<q, e>> \in Candidates(r, p, k)
  BY DEF Candidates
<1>4. \A q, e : Distance(r, p, <<q, e>>) = Abs(setup.pts[r][p] - setup.elts[q][e])
  BY DEF Distance
<1>5. QED
  BY <1>1, <1>2, <1>3, <1>4

LEMMA ElectedIs ==
  ASSUME setup \in Setups, NEW r \in Ranks, NEW p, NEW n \in Nat, NEW q, NEW e,
         Elected(r, p, n, <<q, e>>)
  PROVE  /\ Seen(r, p, n) /\ Elected(r, p, n + 1, <<q, e>>)
         /\ q \in setup.far[r] /\ q \in Ranks /\ q > -1 /\ e \in Nat /\ ~(e < 0)
         /\ <<q, e>> # Nowhere
<1>1. PICK k \in 0 .. n - 1 :
        /\ <<q, e>> \in Candidates(r, p, k) /\ \A j \in 0 .. k - 1 : Candidates(r, p, j) = {}
        /\ \A d \in Candidates(r, p, k) : Distance(r, p, <<q, e>>) <= Distance(r, p, d)
  BY DEF Elected
<1>2. k \in 0 .. (n + 1) - 1
  BY <1>1
<1>3. Seen(r, p, n) /\ Elected(r, p, n + 1, <<q, e>>)
  BY <1>1, <1>2 DEF Seen, Elected
<1>4. q \in setup.far[r] /\ e \in Near(q, setup.pts[r][p], k)
  BY <1>1, CandidatesAre
<1>5. q \in Ranks /\ q \in Nat
  BY <1>4, FarRanks, RanksAssumption
<1>6. e \in Nat
  <2>1. Mesh(q)
    BY <1>5, Meshes
  <2>2. e \in DOMAIN setup.elts[q]
    BY <1>4 DEF Near
  <2>3. QED
    BY <2>1, <2>2 DEF Mesh
<1>7. q > -1 /\ ~(e < 0)
  BY <1>5, <1>6
<1>8. <<q, e>> # Nowhere
  BY <1>5 DEF Nowhere
<1>9. QED
  BY <1>3, <1>4, <1>5, <1>6, <1>7, <1>8

LEMMA ElectedNow ==
  ASSUME NEW r, NEW p, NEW n \in Nat, ~Seen(r, p, n),
         NEW c \in Candidates(r, p, n),
         \A d \in Candidates(r, p, n) : Distance(r, p, c) <= Distance(r, p, d)
  PROVE  Elected(r, p, n + 1, c) /\ Seen(r, p, n + 1)
<1>1. n \in 0 .. (n + 1) - 1 /\ \A j \in 0 .. n - 1 : Candidates(r, p, j) = {}
  BY DEF Seen
<1>2. QED
  BY <1>1 DEF Elected, Seen

LEMMA SeenLater ==
  ASSUME NEW r, NEW p, NEW n \in Nat
  PROVE  Seen(r, p, n + 1) <=> Seen(r, p, n) \/ Candidates(r, p, n) # {}
<1>1. \A k : k \in 0 .. (n + 1) - 1 <=> k \in 0 .. n - 1 \/ k = n
  OBVIOUS
<1>2. QED
  BY <1>1 DEF Seen

\* The points that are left when the search is extended are the first ones.
LEMMA FirstLeft ==
  ASSUME InOrder(setup, Nat), setup.nearest, NEW r \in Ranks,
         NEW p \in DOMAIN setup.pts[r], NEW o \in 1 .. p - 1, NEW n \in Nat, Seen(r, o, n)
  PROVE  Seen(r, p, n)
<1>1. PICK k \in 0 .. n - 1 : Candidates(r, o, k) # {}
  BY DEF Seen
<1>2. \A i, j : Reaches(setup, r, i, j) <=> Candidates(r, i, j) # {}
  <2>1. ASSUME NEW i, NEW j, Reaches(setup, r, i, j) PROVE Candidates(r, i, j) # {}
    <3>1. PICK q \in setup.far[r] : \E e \in DOMAIN setup.elts[q] :
            Abs(setup.pts[r][i] - setup.elts[q][e]) < setup.tol[q] * 4^j
      BY <2>1 DEF Reaches
    <3>2. PICK e \in Near(q, setup.pts[r][i], j) : TRUE
      BY <3>1 DEF Near, Tolerance
    <3>3. QED
      BY <3>2, CandidatesAre
  <2>2. ASSUME NEW i, NEW j, Candidates(r, i, j) # {} PROVE Reaches(setup, r, i, j)
    <3>1. PICK q \in setup.far[r] : Near(q, setup.pts[r][i], j) # {}
      BY <2>2, CandidatesAre
    <3>2. QED
      BY <3>1 DEF Near, Tolerance, Reaches
  <2>3. QED
    BY <2>1, <2>2
<1>3. k \in Nat
  OBVIOUS
<1>4. PICK j \in Nat : j <= k /\ Reaches(setup, r, p, j)
  BY <1>1, <1>2, <1>3 DEF InOrder
<1>5. j \in 0 .. n - 1
  BY <1>3, <1>4
<1>6. QED
  BY <1>2, <1>4, <1>5 DEF Seen

LEMMA NearInit == Init => NearInv
<1> SUFFICES ASSUME Init PROVE NearInv
  OBVIOUS
<1>1. stage = "flags" /\ round = 0
  BY DEF Init
<1>2. \A r \in Ranks : loc[r] = <<>> /\ partners[r] = {}
  BY DEF Init
<1>3. DOMAIN <<>> = {}
  OBVIOUS
<1>4. \A r \in Ranks : DOMAIN loc[r] = {} /\ partners[r] = {}
  BY <1>2, <1>3
<1>5. 0 .. 0 - 1 = {}
  OBVIOUS
<1>6. Carried
  <2>1. \A r \in Ranks : \A p \in DOMAIN setup.pts[r] : Settled(r, p, round)
    BY <1>1, <1>4, <1>5 DEF Settled, Seen
  <2>2. \A r, q \in Ranks : ~LocatedOn(r, q)
    BY <1>4 DEF LocatedOn
  <2>3. QED
    BY <1>4, <2>1, <2>2 DEF Carried
<1>7. Moving /\ Searching /\ Concluded
  BY <1>1 DEF Moving, Searching, Concluded
<1>8. QED
  BY <1>1, <1>6, <1>7 DEF NearInv

LEMMA NearFollows ==
  ASSUME LocatorInv, ContentInv, ReachInv, NearInv
  PROVE  NearestFound
<1> SUFFICES ASSUME stage = "done", NEW r \in Ranks, NEW p \in DOMAIN setup.pts[r],
                    NEW found, found = Spot(r, p), NEW rounds,
                    rounds = {k \in 0 .. round : Candidates(r, p, k) # {}}
             PROVE  IF rounds = {} THEN found = <<-1, -1>> /\ p \notin Range(interior[r])
                    ELSE LET cs == Candidates(r, p, Min(rounds))
                         IN  /\ found \in cs
                             /\ \A c \in cs : Distance(r, p, found) <= Distance(r, p, c)
  BY DEF NearestFound, Spot
<1>1. /\ Sized /\ Indexed /\ Traced /\ round \in Nat /\ Settled(r, p, round + 1)
  BY DEF ContentInv, ReachInv, NearInv, Concluded, Staged
<1>2. p \in DOMAIN loc[r]
  BY <1>1 DEF Traced
<1>3. 0 .. (round + 1) - 1 = 0 .. round
  BY <1>1
<1>4. Seen(r, p, round + 1) <=> rounds # {}
  BY <1>3 DEF Seen
<1>5. CASE rounds = {}
  <2>1. found = Nowhere /\ loc[r][p].rank = -1
    BY <1>1, <1>2, <1>4, <1>5 DEF Settled, Spot, Nowhere
  <2>2. p \notin Found(r)
    BY <2>1 DEF Found
  <2>3. \A i \in DOMAIN interior[r] : interior[r][i] \in Found(r)
    BY <1>1, InteriorOnce
  <2>4. p \notin Range(interior[r])
    BY <2>2, <2>3 DEF Range
  <2>5. QED
    BY <1>5, <2>1, <2>4 DEF Nowhere
<1>6. CASE rounds # {}
  <2>1. Elected(r, p, round + 1, found)
    BY <1>1, <1>4, <1>6 DEF Settled
  <2>2. PICK k \in 0 .. round :
          /\ found \in Candidates(r, p, k) /\ \A j \in 0 .. k - 1 : Candidates(r, p, j) = {}
          /\ \A d \in Candidates(r, p, k) : Distance(r, p, found) <= Distance(r, p, d)
    BY <1>3, <2>1 DEF Elected
  <2>3. k \in rounds /\ \A j \in rounds : k <= j
    <3>1. k \in rounds
      BY <2>2
    <3>2. ASSUME NEW j \in rounds, ~(k <= j) PROVE FALSE
      <4>1. j \in 0 .. k - 1
        BY <1>1, <3>2
      <4>2. QED
        BY <2>2, <3>2, <4>1
    <3>3. QED
      BY <3>1, <3>2
  <2>4. Min(rounds) = k
    <3>1. \A j \in rounds : j \in Int
      OBVIOUS
    <3>2. \A j \in rounds : (\A i \in rounds : j <= i) => j = k
      BY <2>3, <3>1
    <3>3. QED
      BY <2>3, <3>2 DEF Min
  <2>5. QED
    BY <1>6, <2>2, <2>4
<1>7. QED
  BY <1>5, <1>6

\* The lists of both ends are about the same points once places in interior are used.
LEMMA LocatedTies ==
  ASSUME LocatorInv, ContentInv, ReachInv, Located, NEW r \in Ranks, NEW q \in partners[r]
  PROVE  TiedTo(r, q)'
<1>1. /\ stage = "located"
      /\ local_ids' = [s \in Ranks |-> [t \in Ranks |->
                         [k \in DOMAIN local_ids[s][t] |-> Reduced(s, local_ids[s][t][k])]]]
      /\ UNCHANGED <<setup, loc, todo, partners, interior, n_dist, distants>>
      /\ \A s \in Ranks : pass[s] = Len(plan)
  BY DEF Located, Decide
<1>2. /\ Staged /\ Sized /\ Lists /\ setup \in Setups /\ Traced /\ Indexed
      /\ partners \in [Ranks -> SUBSET Ranks]
  BY DEF ContentInv, LocatorInv, Related, ReachInv
<1>3. q \in Ranks
  BY <1>2
<1>4. \A s, t : PointsOn(s, t)' = PointsOn(s, t)
  BY <1>1 DEF PointsOn
<1>5. Told(q, r)' = Told(q, r)
  BY <1>1, <1>4 DEF Told
<1>6. local_ids[r][q] = PointsOn(r, q) /\ distants[r][q] = Told(q, r)
  <2>1. Filling(r, q)
    BY <1>1, <1>2, <1>3 DEF Lists
  <2>2. Len(plan) \in Nat
    BY PlanRelations DEF LocatorInv
  <2>3. HasList(r, q)
    BY <1>1, <2>2 DEF HasList
  <2>4. QED
    BY <2>1, <2>3 DEF Filling
<1>7. /\ Len(PointsOn(r, q)) \in Nat
      /\ DOMAIN PointsOn(r, q) = 1 .. Len(PointsOn(r, q))
  BY <1>2, <1>3, PointsListed
<1> DEFINE n == Len(PointsOn(r, q))
           s == local_ids'[r][q]
<1>8. s = [k \in 1 .. n |-> Reduced(r, PointsOn(r, q)[k])]
  BY <1>1, <1>3, <1>6, <1>7
<1>9. Len(s) = n
  <2>1. DOMAIN s = 1 .. n /\ s = [k \in DOMAIN s |-> s[k]]
    BY <1>8
  <2> HIDE DEF s
  <2>2. QED
    BY <1>7, <2>1, ListOfLength
<1>10. ASSUME NEW k \in 1 .. n
       PROVE  s[k] \in DOMAIN interior[r] /\ interior[r][s[k]] = PointsOn(r, q)[k]
  <2>1. PointsOn(r, q)[k] \in Found(r)
    BY <1>2, <1>3, PointsFound
  <2>2. s[k] = Reduced(r, PointsOn(r, q)[k])
    BY <1>8
  <2> HIDE DEF s
  <2>3. QED
    BY <1>1, <1>2, <2>1, <2>2, ReducedFinds
<1>11. distants'[r][q] = Told(q, r)'
  BY <1>1, <1>5, <1>6
<1>12. QED
  BY <1>1, <1>4, <1>9, <1>10, <1>11 DEF TiedTo

\* The searches depend on the setup only.
LEMMA SameSearches ==
  ASSUME UNCHANGED setup
  PROVE  /\ \A q, x, k : Near(q, x, k)' = Near(q, x, k)
         /\ \A r, p, k : Candidates(r, p, k)' = Candidates(r, p, k)
         /\ \A r, p, c : Distance(r, p, c)' = Distance(r, p, c)
         /\ \A r, p, n : Seen(r, p, n)' <=> Seen(r, p, n)
         /\ \A r, p, n, c : Elected(r, p, n, c)' <=> Elected(r, p, n, c)
<1>1. \A q, x, k : Near(q, x, k)' = Near(q, x, k)
  BY DEF Near, Tolerance
<1>2. \A r, p, k : Candidates(r, p, k)' = Candidates(r, p, k)
  BY <1>1 DEF Candidates
<1>3. \A r, p, c : Distance(r, p, c)' = Distance(r, p, c)
  BY DEF Distance
<1>4. \A r, p, n : Seen(r, p, n)' <=> Seen(r, p, n)
  BY <1>2 DEF Seen
<1>5. \A r, p, n, c : Elected(r, p, n, c)' <=> Elected(r, p, n, c)
  BY <1>2, <1>3 DEF Elected
<1>6. QED
  BY <1>1, <1>2, <1>3, <1>4, <1>5

LEMMA SameSpots ==
  ASSUME UNCHANGED <<setup, loc>>
  PROVE  /\ \A r, p : Spot(r, p)' = Spot(r, p)
         /\ \A r, p, n : Settled(r, p, n)' <=> Settled(r, p, n)
<1>1. \A r, p : Spot(r, p)' = Spot(r, p)
  BY DEF Spot
<1>2. ASSUME NEW r, NEW p, NEW n
      PROVE  Settled(r, p, n)' <=> Settled(r, p, n)
  <2>1. PICK c : c = Spot(r, p)
    OBVIOUS
  <2>2. Spot(r, p)' = c
    BY <1>1, <2>1
  <2>3. Elected(r, p, n, Spot(r, p))' <=> Elected(r, p, n, c)'
    BY <2>2 DEF Elected
  <2>4. /\ Elected(r, p, n, c)' <=> Elected(r, p, n, Spot(r, p))
        /\ Seen(r, p, n)' <=> Seen(r, p, n)
    BY <2>1, SameSearches
  <2>5. QED
    BY <1>1, <2>3, <2>4 DEF Settled, Nowhere
<1>3. QED
  BY <1>1, <1>2

LEMMA NearLocated ==
  ASSUME LocatorInv, ContentInv, ReachInv, NearInv, Located
  PROVE  NearInv'
<1>1. /\ stage = "located" /\ UNCHANGED <<setup, loc, todo, partners, interior, distants>>
      /\ \/ stage' = "flags" /\ round' = round + 1 /\ setup.nearest
         \/ stage' = "done" /\ round' = round
  BY DEF Located, Decide
<1>2. PICK n : n = round + 1
  OBVIOUS
<1>3. ASSUME NEW r \in Ranks, NEW p \in DOMAIN setup.pts[r]
      PROVE  Settled(r, p, n)'
  <2>1. Settled(r, p, n)
    BY <1>1, <1>2 DEF NearInv, Concluded
  <2>2. QED
    BY <1>1, <2>1, SameSpots
<1>4. CASE stage' = "flags"
  <2>1. round' = n /\ setup.nearest /\ stage' # "located" /\ stage' # "done"
    BY <1>1, <1>2, <1>4
  <2>2. ASSUME NEW r \in Ranks, NEW p \in DOMAIN setup.pts[r]
        PROVE  Settled(r, p, round)'
    <3>1. Settled(r, p, n)'
      BY <1>3
    <3>2. QED
      BY <2>1, <3>1 DEF Settled, Seen, Elected
  <2>3. \A r, q \in Ranks : LocatedOn(r, q)' => q \in partners'[r]
    BY <1>1 DEF LocatedOn, ReachInv, Indexed
  <2>4. \A r \in Ranks : \A q \in partners[r] : TiedTo(r, q)'
    BY LocatedTies
  <2>5. Carried'
    BY <1>1, <2>2, <2>3, <2>4 DEF Carried
  <2>6. Moving' /\ Searching' /\ Concluded'
    BY <1>4 DEF Moving, Searching, Concluded
  <2>7. QED
    BY <1>1, <2>1, <2>5, <2>6 DEF NearInv
<1>5. CASE stage' = "done"
  <2>1. round' + 1 = n /\ UNCHANGED <<setup, round>>
    BY <1>1, <1>2, <1>5
  <2>2. ASSUME NEW r \in Ranks, NEW p \in DOMAIN setup.pts[r]
        PROVE  Settled(r, p, round + 1)'
    <3>1. Settled(r, p, n)'
      BY <1>3
    <3>2. QED
      BY <2>1, <3>1 DEF Settled, Seen, Elected
  <2>3. Concluded'
    BY <1>1, <2>2 DEF Concluded
  <2>4. Moving' /\ Searching' /\ Carried'
    BY <1>5 DEF Moving, Searching, Carried
  <2>5. ~setup'.nearest => round' = 0
    BY <2>1 DEF NearInv
  <2>6. QED
    BY <2>3, <2>4, <2>5 DEF NearInv
<1>6. QED
  BY <1>1, <1>4, <1>5

LEMMA NearRanks ==
  ASSUME LocatorInv, ContentInv, ReachInv, NearInv, LocationRanks
  PROVE  NearInv'
<1>1. /\ stage = "ranks" /\ stage' = "located" /\ UNCHANGED <<setup, round, loc>>
      /\ \A r \in Ranks : pass[r] = Len(plan)
  BY DEF LocationRanks, Decide
<1>2. setup \in Setups /\ round \in Nat /\ Traced /\ Sized
  BY DEF LocatorInv, ContentInv, ReachInv, Staged
<1>3. PICK n : n = round + 1
  OBVIOUS
<1>4. ASSUME NEW r \in Ranks, NEW p \in DOMAIN setup.pts[r]
      PROVE  Settled(r, p, n)
  <2>1. /\ p \in DOMAIN loc[r]
        /\ IF p \in DOMAIN todo[r]
           THEN /\ ~Seen(r, p, round) /\ Sought(r, p)
                /\ \A q \in setup.far[r] :
                     Close(r, p, q) # {} => q \in plan[Len(plan)].with[r]
           ELSE Elected(r, p, round, Spot(r, p))
    BY <1>1, <1>2 DEF NearInv, Searching, Traced
  <2>2. CASE p \notin DOMAIN todo[r]
    <3>1. PICK q, e : q = loc[r][p].rank /\ e = loc[r][p].elt
      OBVIOUS
    <3>2. Elected(r, p, round, <<q, e>>)
      BY <2>1, <2>2, <3>1 DEF Spot
    <3>3. Elected(r, p, round + 1, <<q, e>>)
      BY <1>2, <3>2, ElectedIs
    <3>4. Seen(r, p, n)
      BY <1>2, <1>3, <3>2, ElectedIs, SeenLater
    <3>5. QED
      BY <1>3, <2>1, <3>1, <3>3, <3>4 DEF Settled, Spot
  <2>3. CASE p \in DOMAIN todo[r]
    <3>1. ASSUME NEW q \in setup.far[r], NEW e \in Near(q, setup.pts[r][p], round)
          PROVE  q \in Ranks /\ Visited(r, q) /\ e \in Close(r, p, q)
      <4>1. q \in Ranks /\ e \in Close(r, p, q)
        BY <1>2, FarRanks DEF Close
      <4>2. q \in plan[Len(plan)].with[r]
        BY <2>1, <2>3, <4>1
      <4>3. QED
        BY <1>1, <4>1, <4>2 DEF Visited
    <3>2. CASE loc[r][p].elt < 0
      <4>1. Spot(r, p) = Nowhere /\ \A q \in Ranks : Visited(r, q) => Close(r, p, q) = {}
        BY <2>1, <2>3, <3>2 DEF Sought
      <4>2. Candidates(r, p, round) = {}
        BY <3>1, <4>1, CandidatesAre
      <4>3. ~Seen(r, p, n)
        BY <1>2, <1>3, <2>1, <2>3, <4>2, SeenLater
      <4>4. QED
        BY <4>1, <4>3 DEF Settled
    <3>3. CASE ~(loc[r][p].elt < 0)
      <4>1. /\ Spot(r, p) \in Candidates(r, p, round)
            /\ loc[r][p].dist = Distance(r, p, Spot(r, p))
            /\ \A q \in Ranks : Visited(r, q) =>
                 \A e \in Close(r, p, q) : loc[r][p].dist <= Distance(r, p, <<q, e>>)
        BY <2>1, <2>3, <3>3 DEF Sought
      <4>2. ASSUME NEW c \in Candidates(r, p, round)
            PROVE  Distance(r, p, Spot(r, p)) <= Distance(r, p, c)
        <5>1. PICK q \in setup.far[r] :
                \E e \in Near(q, setup.pts[r][p], round) : c = <<q, e>>
          BY CandidatesAre
        <5>2. PICK e \in Near(q, setup.pts[r][p], round) : c = <<q, e>>
          BY <5>1
        <5>3. q \in Ranks /\ Visited(r, q) /\ e \in Close(r, p, q)
          BY <3>1
        <5>4. QED
          BY <4>1, <5>2, <5>3
      <4>3. PICK c : c = Spot(r, p)
        OBVIOUS
      <4>4. Elected(r, p, round + 1, c) /\ Seen(r, p, round + 1)
        BY <1>2, <2>1, <2>3, <4>1, <4>2, <4>3, ElectedNow
      <4>5. QED
        BY <1>3, <2>1, <4>3, <4>4 DEF Settled
    <3>4. QED
      BY <3>2, <3>3
  <2>4. QED
    BY <2>2, <2>3
<1>5. ASSUME NEW r \in Ranks, NEW p \in DOMAIN setup.pts[r]
      PROVE  Settled(r, p, round + 1)'
  <2>1. Settled(r, p, n)'
    BY <1>1, <1>4, SameSpots
  <2>2. n = round' + 1
    BY <1>1, <1>3
  <2>3. QED
    BY <2>1, <2>2 DEF Settled, Seen, Elected
<1>6. Concluded'
  BY <1>1, <1>5 DEF Concluded
<1>7. Carried' /\ Moving' /\ Searching'
  BY <1>1 DEF Carried, Moving, Searching
<1>8. ~setup'.nearest => round' = 0
  BY <1>1 DEF NearInv
<1>9. QED
  BY <1>6, <1>7, <1>8 DEF NearInv

LEMMA NearFlags ==
  ASSUME LocatorInv, Theory!LoopInv, ContentInv, ReachInv, NearInv, Flags
  PROVE  NearInv'
<1>1. /\ loc' = [r \in Ranks |-> [p \in DOMAIN setup.pts[r] |-> Unlocated]]
      /\ UNCHANGED <<setup, round, todo, partners, interior, local_ids, n_dist, distants>>
      /\ stage = "flags"
  BY DEF Flags, lists, Decide
<1>2. /\ Staged /\ Sized /\ setup \in Setups /\ round \in Nat
      /\ partners \in [Ranks -> SUBSET Ranks] /\ Loop!Symmetric(partners)
  BY DEF ContentInv, LocatorInv, Related, Staged
<1>3. ~setup'.nearest => round' = 0
  BY <1>1 DEF NearInv
<1>4. CASE \A r \in Ranks : setup.pts[r] = <<>>
  <2>1. stage' = "located"
    BY <1>4 DEF Flags, Decide
  <2>2. \A r \in Ranks : DOMAIN setup'.pts[r] = {}
    BY <1>1, <1>4, NothingListed
  <2>3. Concluded'
    BY <1>1, <2>2 DEF Concluded
  <2>4. Carried' /\ Moving' /\ Searching'
    BY <2>1 DEF Carried, Moving, Searching
  <2>5. QED
    BY <1>3, <2>3, <2>4 DEF NearInv
<1>5. CASE ~ \A r \in Ranks : setup.pts[r] = <<>>
  <2> DEFINE o == Once(partners, "transfer")
  <2>1. Decide("extents", o) /\ stage' = "extents"
    BY <1>5 DEF Flags, Decide
  <2>2. PlanOK(o) /\ Len(o) = 1 /\ o[1].with = partners /\ o[1].phase = "transfer"
    <3>1. PlanOK(o) /\ Len(o) = 1 /\ o[1] = Entry(partners, "transfer", "only", 0)
      BY <1>2, OncePlan DEF Single
    <3>2. /\ Entry(partners, "transfer", "only", 0).with = partners
          /\ Entry(partners, "transfer", "only", 0).phase = "transfer"
      BY DEF Entry
    <3> HIDE DEF o
    <3>3. QED
      BY <3>1, <3>2
  <2> HIDE DEF o
  <2>3. /\ Len(plan) \in Nat /\ Len(plan') = Len(plan) + 1
        /\ plan'[Len(plan) + 1].with = partners
        /\ \A r \in Ranks : pass[r] = Len(plan) /\ pass'[r] = Len(plan)
    <3>1. /\ "extents" \in Stages /\ round' \in Nat
          /\ \A j \in 1 .. Len(o) : /\ o[j].phase \in PhasesOf["extents"]
                                    /\ o[j].with = partners' /\ o[j].phase # "counts"
                                    /\ o[j].phase # "points"
      BY <1>1, <1>2, <2>2 DEF PhasesOf, Stages
    <3>2. /\ \A r \in Ranks : pass[r] = Len(plan) /\ pass'[r] = Len(plan)
          /\ Len(plan) \in Nat /\ Len(plan') = Len(plan) + Len(o)
          /\ \A j \in 1 .. Len(o) : plan'[Len(plan) + j] = o[j]
      BY <1>2, <2>1, <2>2, <3>1, DecideStage
    <3>3. QED
      BY <2>2, <3>2
  <2>4. ASSUME NEW r \in Ranks, NEW q PROVE ~Moved(r, q)'
    <3>1. left'[r] = partners[r]
      <4>1. left'[r] = Loop!Begins(plan', pass[r], r)
        BY <2>1 DEF Decide
      <4>2. pass[r] < Len(plan') /\ pass[r] = Len(plan)
        BY <2>3
      <4>3. QED
        BY <2>3, <4>1, <4>2 DEF Loop!Begins
    <3>2. pass'[r] # Len(plan')
      BY <2>3
    <3>3. QED
      BY <1>1, <3>1, <3>2 DEF Moved
  <2>5. ASSUME NEW r \in Ranks, NEW p \in DOMAIN setup.pts[r]
        PROVE  Settled(r, p, round) /\ Spot(r, p)' = Nowhere
    BY <1>1 DEF NearInv, Carried, Spot, Unlocated, Nowhere
  <2>6. ASSUME NEW r \in Ranks, NEW q \in partners[r]
        PROVE  /\ q \in Ranks /\ Len(local_ids[r][q]) = Len(PointsOn(r, q))
               /\ \A k \in 1 .. Len(PointsOn(r, q)) :
                    /\ Held(r, q, k) = PointsOn(r, q)[k]
                    /\ distants[q][r][k].elt = loc[r][PointsOn(r, q)[k]].elt
    <3>1. q \in Ranks /\ r \in partners[q]
      BY <1>2 DEF Loop!Symmetric
    <3>2. TiedTo(r, q) /\ TiedTo(q, r)
      BY <1>1, <3>1 DEF NearInv, Carried
    <3>3. DOMAIN PointsOn(r, q) = 1 .. Len(PointsOn(r, q))
      BY <1>2, <3>1, PointsListed
    <3>4. QED
      BY <3>1, <3>2, <3>3 DEF TiedTo, Told, Held
  <2>7. ASSUME NEW r \in Ranks, NEW q \in partners[r], NEW k \in 1 .. Len(local_ids[r][q])
        PROVE  Elected(r, Held(r, q, k), round, <<q, distants[q][r][k].elt>>)
    <3>1. PICK p : p = PointsOn(r, q)[k]
      OBVIOUS
    <3>2. /\ Held(r, q, k) = p /\ distants[q][r][k].elt = loc[r][p].elt /\ q \in Ranks
          /\ k \in 1 .. Len(PointsOn(r, q))
      BY <2>6, <3>1
    <3>3. p \in DOMAIN loc[r] /\ loc[r][p].rank = q
      BY <1>2, <3>1, <3>2, PointsFound
    <3>4. p \in DOMAIN setup.pts[r]
      BY <1>2, <3>3 DEF Sized
    <3>5. Spot(r, p) # Nowhere
      BY <3>2, <3>3, RanksAssumption DEF Spot, Nowhere
    <3>6. Elected(r, p, round, Spot(r, p))
      BY <2>5, <3>3, <3>4, <3>5 DEF Settled
    <3>7. Spot(r, p) = <<q, distants[q][r][k].elt>>
      BY <3>2, <3>3 DEF Spot
    <3>8. QED
      BY <3>2, <3>6, <3>7
  <2>8. ASSUME NEW r \in Ranks, NEW p \in DOMAIN setup.pts[r], Seen(r, p, round)
        PROVE  \E q \in partners[r] : \E k \in 1 .. Len(local_ids[r][q]) : Held(r, q, k) = p
    <3>1. PICK q : q = loc[r][p].rank
      OBVIOUS
    <3>2. p \in DOMAIN loc[r] /\ Elected(r, p, round, <<q, loc[r][p].elt>>)
      BY <2>5, <2>8, <3>1 DEF Settled, Spot
    <3>3. q \in Ranks /\ LocatedOn(r, q)
      BY <1>2, <3>1, <3>2, ElectedIs DEF LocatedOn
    <3>4. q \in partners[r]
      BY <1>1, <3>3 DEF NearInv, Carried
    <3>5. PICK k \in 1 .. Len(PointsOn(r, q)) : PointsOn(r, q)[k] = p
      BY <1>2, <3>1, <3>2, <3>3, PointsFound
    <3>6. QED
      BY <2>6, <3>4, <3>5
  <2>9. Moving'
    <3>1. ASSUME NEW r \in Ranks, NEW q \in partners'[r],
                 NEW k \in 1 .. Len(local_ids'[r][q])
          PROVE  Elected(r, Held(r, q, k), round, <<q, distants[q][r][k].elt>>)'
      <4>1. PICK p, n, e : p = Held(r, q, k) /\ n = round /\ e = distants[q][r][k].elt
        OBVIOUS
      <4>2. Elected(r, p, n, <<q, e>>)
        BY <1>1, <2>7, <4>1
      <4>3. Held(r, q, k)' = p /\ round' = n /\ distants'[q][r][k].elt = e
        BY <1>1, <4>1 DEF Held
      <4>4. Elected(r, p, n, <<q, e>>)'
        BY <1>1, <4>2, SameSearches
      <4>5. QED
        BY <4>3, <4>4 DEF Elected
    <3>2. ASSUME NEW r \in Ranks, NEW p \in DOMAIN setup'.pts[r]
          PROVE  /\ Regained(r, p)'
                 /\ Seen(r, p, round)' =>
                      \E q \in partners'[r] : \E k \in 1 .. Len(local_ids'[r][q]) :
                        Held(r, q, k)' = p /\ ~Moved(r, q)'
      <4>1. Regained(r, p)'
        BY <1>1, <2>5 DEF Regained, Nowhere
      <4>2. Seen(r, p, round)' <=> Seen(r, p, round)
        <5>1. PICK n : n = round
          OBVIOUS
        <5>2. Seen(r, p, n)' <=> Seen(r, p, n)
          BY <1>1, SameSearches
        <5>3. QED
          BY <1>1, <5>1, <5>2 DEF Seen
      <4>3. \A q, k : Held(r, q, k)' = Held(r, q, k)
        BY <1>1 DEF Held
      <4>4. QED
        BY <1>1, <2>4, <2>8, <4>1, <4>2, <4>3
    <3>3. QED
      BY <3>1, <3>2 DEF Moving
  <2>10. Carried' /\ Searching' /\ Concluded'
    BY <2>1 DEF Carried, Searching, Concluded
  <2>11. QED
    BY <1>3, <2>9, <2>10 DEF NearInv
<1>6. QED
  BY <1>4, <1>5

\* A set of places that holds all those before each of its own; its list.
LEMMA FirstPlaces ==
  ASSUME NEW m \in Nat, NEW S, S \subseteq 1 .. m, \A p \in S : \A o \in 1 .. p - 1 : o \in S
  PROVE  \E n \in Nat : n <= m /\ S = 1 .. n
<1> DEFINE T == {k \in 1 .. m + 1 : k \notin S}
<1>1. T \subseteq Nat /\ m + 1 \in T
  OBVIOUS
<1> HIDE DEF T
<1>2. PICK f \in T : \A k \in T : f <= k
  BY <1>1, RanksAssumption, Theory!LeastExists
<1>3. f \in 1 .. m + 1 /\ f \notin S
  BY DEF T
<1>4. PICK n : n = f - 1
  OBVIOUS
<1>5. n \in Nat /\ n <= m /\ f = n + 1
  BY <1>3, <1>4
<1>6. ASSUME NEW k \in 1 .. n PROVE k \in S
  <2>1. k \in 1 .. m + 1 /\ ~(f <= k)
    BY <1>5
  <2>2. QED
    BY <1>2, <2>1 DEF T
<1>7. ASSUME NEW k \in S PROVE k \in 1 .. n
  <2>1. k \in 1 .. m /\ k # f
    BY <1>3
  <2>2. f \notin 1 .. k - 1
    BY <1>3
  <2>3. QED
    BY <1>3, <1>5, <2>1, <2>2
<1>8. S = 1 .. n
  BY <1>6, <1>7
<1>9. QED
  BY <1>5, <1>8

LEMMA AscendingAll ==
  ASSUME NEW n \in Nat
  PROVE  Ascending(1 .. n) = [k \in 1 .. n |-> k]
<1>1. \A k \in Nat : IsFiniteSet(1 .. k) /\ Cardinality(1 .. k) = k
  <2>1. \A k \in Nat : Cardinality(1 .. k) = IF 1 > k THEN 0 ELSE k - 1 + 1
    BY FS_Interval
  <2>2. QED
    BY <2>1, FS_Interval
<1>2. ASSUME NEW i \in 1 .. n PROVE Cardinality({j \in 1 .. n : j <= i}) = i
  <2>1. PICK T : T = {j \in 1 .. n : j <= i}
    OBVIOUS
  <2>2. T = 1 .. i /\ i \in Nat
    BY <2>1
  <2>3. Cardinality(T) = i
    BY <1>1, <2>2
  <2>4. QED
    BY <2>1, <2>3
<1>3. ASSUME NEW k \in 1 .. n
      PROVE  (CHOOSE i \in 1 .. n : Cardinality({j \in 1 .. n : j <= i}) = k) = k
  BY <1>2
<1>4. QED
  BY <1>1, <1>3 DEF Ascending

\* At the end of the transfers, what no search has found is what is left.
LEMMA LeftOver ==
  ASSUME LocatorInv, ContentInv, ReachInv, NearInv, GatherExtents, InOrder(setup, Nat),
         NEW r \in Ranks
  PROVE  /\ \A p \in DOMAIN setup.pts[r] :
              IF Seen(r, p, round) THEN Elected(r, p, round, Spot(r, p)) /\ ~(loc[r][p].elt < 0)
              ELSE Spot(r, p) = Nowhere /\ loc[r][p].elt < 0
         /\ \E n \in Nat : /\ n <= Len(setup.pts[r]) /\ todo'[r] = [k \in 1 .. n |-> k]
                           /\ 1 .. n = {p \in DOMAIN setup.pts[r] : ~Seen(r, p, round)}
<1>1. /\ stage = "extents" /\ \A s \in Ranks : pass[s] = Len(plan)
      /\ todo' = [s \in Ranks |-> Ascending({p \in DOMAIN loc[s] : loc[s][p].elt < 0})]
  BY DEF GatherExtents, Decide
<1>2. setup \in Setups /\ round \in Nat /\ Traced
  BY DEF LocatorInv, ContentInv, ReachInv, Staged
<1>3. ASSUME NEW p \in DOMAIN setup.pts[r]
      PROVE  IF Seen(r, p, round)
             THEN Elected(r, p, round, Spot(r, p)) /\ ~(loc[r][p].elt < 0)
             ELSE Spot(r, p) = Nowhere /\ loc[r][p].elt < 0
  <2>1. PICK c, q, e : c = Spot(r, p) /\ q = loc[r][p].rank /\ e = loc[r][p].elt
    OBVIOUS
  <2>2. c = <<q, e>>
    BY <2>1 DEF Spot
  <2>3. /\ c = Nowhere \/ Elected(r, p, round, c)
        /\ Seen(r, p, round) => \E t \in partners[r] : Moved(r, t) => c # Nowhere
    BY <1>1, <2>1 DEF NearInv, Moving, Regained
  <2>4. Elected(r, p, round, c) => Seen(r, p, round) /\ ~(e < 0) /\ c # Nowhere
    BY <1>2, <2>2, ElectedIs
  <2>5. Seen(r, p, round) => c # Nowhere
    BY <1>1, <2>3 DEF Moved
  <2>6. c = Nowhere => e < 0
    BY <2>2 DEF Nowhere
  <2>7. QED
    BY <2>1, <2>3, <2>4, <2>5, <2>6
<1>4. PICK S : S = {p \in DOMAIN setup.pts[r] : ~Seen(r, p, round)}
  OBVIOUS
<1>5. {p \in DOMAIN loc[r] : loc[r][p].elt < 0} = S
  <2>1. DOMAIN loc[r] = DOMAIN setup.pts[r]
    BY <1>1, <1>2 DEF Traced
  <2>2. QED
    BY <1>3, <1>4, <2>1
<1>6. todo'[r] = Ascending(S)
  BY <1>1, <1>5
<1>7. PICK m : m = Len(setup.pts[r])
  OBVIOUS
<1>8. m \in Nat /\ DOMAIN setup.pts[r] = 1 .. m
  BY <1>2, <1>7, PointLists
<1>9. \A p \in S : \A o \in 1 .. p - 1 : o \in S
  <2> SUFFICES ASSUME NEW p \in S, NEW o \in 1 .. p - 1, o \notin S PROVE FALSE
    OBVIOUS
  <2>1. p \in 1 .. m /\ p \in DOMAIN setup.pts[r] /\ ~Seen(r, p, round)
    BY <1>4, <1>8
  <2>2. o \in 1 .. m
    BY <1>8, <2>1
  <2>3. Seen(r, o, round)
    BY <1>4, <1>8, <2>2
  <2>4. setup.nearest
    <3>1. round = 0 => 0 .. round - 1 = {}
      OBVIOUS
    <3>2. QED
      BY <2>3, <3>1 DEF NearInv, Seen
  <2>5. QED
    BY <1>2, <2>1, <2>3, <2>4, FirstLeft
<1>10. PICK n \in Nat : n <= m /\ S = 1 .. n
  BY <1>4, <1>8, <1>9, FirstPlaces
<1>11. Ascending(S) = [k \in 1 .. n |-> k]
  BY <1>10, AscendingAll
<1>12. QED
  BY <1>3, <1>4, <1>6, <1>7, <1>10, <1>11

LEMMA NearGather ==
  ASSUME LocatorInv, Theory!LoopInv, ContentInv, ReachInv, NearInv, GatherExtents,
         InOrder(setup, Nat)
  PROVE  NearInv'
<1> DEFINE w == Intersects([r \in Ranks |-> Len(todo'[r])])
           b == Both(w, "search")
<1>1. stage = "extents" /\ Decide("ranks", b) /\ UNCHANGED <<round, loc>>
  BY DEF GatherExtents
<1>2. Staged /\ Sized /\ setup \in Setups /\ round \in Nat
  BY DEF ContentInv, LocatorInv, Staged
<1>3. round' \in Nat /\ UNCHANGED setup /\ stage' = "ranks"
  BY <1>1, <1>2 DEF Decide
<1>4. w \in [Ranks -> SUBSET Ranks] /\ Loop!Symmetric(w)
  BY <1>2, IntersectsSymmetric
<1>5. \A r \in Ranks : w[r] = {q \in setup.far[r] :
                                 Intersect(r, q, [s \in Ranks |-> Len(todo'[s])])}
  BY DEF Intersects
<1> HIDE DEF w
<1>6. /\ PlanOK(b) /\ Len(b) = 2 /\ b[1] = Entry(w, "search", "first", 0)
      /\ b[2] = Entry(w, "search", "second", 0) /\ "ranks" \in Stages
  BY <1>4, BothPlan DEF Stages
<1>7. \A p : Entry(w, "search", p, 0).with = w /\ Entry(w, "search", p, 0).phase = "search"
  BY DEF Entry
<1> HIDE DEF b
<1>8. \A j \in 1 .. Len(b) : /\ b[j].phase = "search" /\ b[j].with = w
                             /\ b[j].phase \in PhasesOf["ranks"]
  <2>1. \A j \in 1 .. 2 : j = 1 \/ j = 2
    OBVIOUS
  <2>2. QED
    BY <1>6, <1>7, <2>1 DEF PhasesOf
<1>9. /\ \A r \in Ranks : pass[r] = Len(plan) /\ pass'[r] = Len(plan)
      /\ Len(plan) \in Nat /\ Len(plan') = Len(plan) + 2
      /\ plan'[Len(plan) + 1].with = w /\ plan'[Len(plan) + 2].with = w
  <2>1. \A j \in 1 .. Len(b) : /\ b[j].phase \in PhasesOf["ranks"]
                               /\ b[j].phase # "counts" /\ b[j].phase # "points"
    BY <1>8
  <2>2. /\ \A r \in Ranks : pass[r] = Len(plan) /\ pass'[r] = Len(plan)
        /\ Len(plan) \in Nat /\ Len(plan') = Len(plan) + Len(b)
        /\ \A j \in 1 .. Len(b) : plan'[Len(plan) + j] = b[j]
    BY <1>1, <1>2, <1>3, <1>6, <2>1, DecideStage
  <2>3. 1 \in 1 .. Len(b) /\ 2 \in 1 .. Len(b)
    BY <1>6
  <2>4. QED
    BY <1>6, <1>8, <2>2, <2>3
<1>10. ASSUME NEW r \in Ranks PROVE \A q : ~Visited(r, q)'
  <2>1. left'[r] = Loop!Begins(plan', pass[r], r)
    BY <1>1 DEF Decide
  <2>2. pass[r] < Len(plan') /\ pass'[r] # Len(plan') /\ pass[r] = Len(plan)
    BY <1>9
  <2>3. left'[r] = w[r] /\ plan'[Len(plan')].with[r] = w[r]
    BY <1>9, <2>1, <2>2 DEF Loop!Begins
  <2>4. QED
    BY <2>2, <2>3 DEF Visited
<1>11. ASSUME NEW r \in Ranks
       PROVE  /\ pass'[r] < Len(plan') => pass'[r] + 2 = Len(plan')
              /\ \A j \in DOMAIN todo'[r] : todo'[r][j] = j
              /\ \A p \in DOMAIN setup'.pts[r] :
                   IF p \in DOMAIN todo'[r]
                   THEN /\ ~Seen(r, p, round)' /\ Sought(r, p)'
                        /\ \A q \in setup'.far[r] :
                             Close(r, p, q)' # {} => q \in plan'[Len(plan')].with[r]
                   ELSE Elected(r, p, round, Spot(r, p))'
  <2>1. PICK n \in Nat : /\ n <= Len(setup.pts[r]) /\ todo'[r] = [k \in 1 .. n |-> k]
                         /\ 1 .. n = {p \in DOMAIN setup.pts[r] : ~Seen(r, p, round)}
    BY LeftOver
  <2>2. pass'[r] + 2 = Len(plan') /\ plan'[Len(plan')].with = w
    BY <1>9
  <2>3. DOMAIN todo'[r] = 1 .. n /\ (\A j \in 1 .. n : todo'[r][j] = j) /\ Len(todo'[r]) = n
    BY <2>1
  <2>4. PICK k : k = round
    OBVIOUS
  <2>5. k = round' /\ k \in Nat
    BY <1>1, <1>2, <2>4
  <2>6. ASSUME NEW p \in DOMAIN setup.pts[r], p \in 1 .. n
        PROVE  /\ ~Seen(r, p, round)' /\ Sought(r, p)'
               /\ \A q \in setup'.far[r] : Close(r, p, q)' # {} => q \in w[r]
    <3>1. ~Seen(r, p, k) /\ Spot(r, p) = Nowhere /\ loc[r][p].elt < 0
      <4>1. ~Seen(r, p, round)
        BY <2>1, <2>6
      <4>2. QED
        BY <2>4, <4>1, LeftOver
    <3>2. ~Seen(r, p, k)'
      BY <1>3, <3>1, SameSearches
    <3>3. ~Seen(r, p, round)'
      BY <2>5, <3>2 DEF Seen
    <3>4. Spot(r, p)' = Nowhere /\ loc'[r][p].elt < 0
      BY <1>1, <3>1 DEF Spot
    <3>5. Sought(r, p)'
      BY <1>10, <3>4 DEF Sought, Nowhere
    <3>6. ASSUME NEW q \in setup.far[r], Close(r, p, q)' # {} PROVE q \in w[r]
      <4>1. Near(q, setup.pts[r][p], round) # {}
        BY <1>1, <1>3, <3>6, SameSearches DEF Close, Near, Tolerance
      <4>2. q \in Ranks
        BY <1>2, FarRanks
      <4>3. Meet(PointExtents(r, n), MeshExtents(q))
        BY <1>2, <2>1, <2>6, <4>1, <4>2, CloseMeet
      <4>4. Intersect(r, q, [s \in Ranks |-> Len(todo'[s])])
        BY <2>3, <4>3 DEF Intersect
      <4>5. QED
        BY <1>5, <4>4
    <3>7. QED
      BY <1>3, <3>3, <3>5, <3>6
  <2>7. ASSUME NEW p \in DOMAIN setup.pts[r], p \notin 1 .. n
        PROVE  Elected(r, p, round, Spot(r, p))'
    <3>1. PICK c : c = Spot(r, p)
      OBVIOUS
    <3>2. Elected(r, p, k, c)
      <4>1. Seen(r, p, round)
        BY <2>1, <2>7
      <4>2. QED
        BY <2>4, <3>1, <4>1, LeftOver
    <3>3. Elected(r, p, k, c)'
      BY <1>3, <3>2, SameSearches
    <3>4. Spot(r, p)' = c
      BY <1>1, <3>1 DEF Spot
    <3>5. QED
      BY <2>5, <3>3, <3>4 DEF Elected
  <2>8. QED
    BY <1>3, <2>2, <2>3, <2>6, <2>7
<1>12. Searching'
  BY <1>11 DEF Searching
<1>13. Carried' /\ Moving' /\ Concluded'
  BY <1>3 DEF Carried, Moving, Concluded
<1>14. ~setup'.nearest => round' = 0
  BY <1>1, <1>3 DEF NearInv
<1>15. QED
  BY <1>12, <1>13, <1>14 DEF NearInv

\* A step that locates nothing: nobody is further in a loop than before, or has ended it.
LEMMA NearQuiet ==
  ASSUME NearInv, UNCHANGED <<setup, plan, stage, round, loc, todo, partners, interior,
                              local_ids, distants>>,
         stage = "extents" => \A r, q \in Ranks : Moved(r, q)' => Moved(r, q),
         stage = "extents" => partners \in [Ranks -> SUBSET Ranks],
         stage = "ranks" => \A r \in Ranks :
           /\ pass'[r] < Len(plan) => pass'[r] + 2 = Len(plan)
           /\ \A q \in Ranks : Visited(r, q)' => Visited(r, q)
  PROVE  NearInv'
<1>1. PICK n : n = round
  OBVIOUS
<1>2. n = round'
  BY <1>1
<1>3. \A r, p : Spot(r, p)' = Spot(r, p)
  BY SameSpots
<1>4. \A r, p : /\ Settled(r, p, round)' <=> Settled(r, p, round)
                /\ Settled(r, p, round + 1)' <=> Settled(r, p, round + 1)
                /\ Seen(r, p, round)' <=> Seen(r, p, round)
  <2>1. \A r, p, k : Settled(r, p, k)' <=> Settled(r, p, k)
    BY SameSpots
  <2>2. \A r, p, k : Seen(r, p, k)' <=> Seen(r, p, k)
    BY SameSearches
  <2>3. \A r, p : Settled(r, p, round)' <=> Settled(r, p, n)'
    BY <1>2 DEF Settled, Seen, Elected
  <2>4. \A r, p : Settled(r, p, round + 1)' <=> Settled(r, p, n + 1)'
    BY <1>2 DEF Settled, Seen, Elected
  <2>5. \A r, p : Seen(r, p, round)' <=> Seen(r, p, n)'
    BY <1>2 DEF Seen
  <2>6. QED
    BY <1>1, <2>1, <2>2, <2>3, <2>4, <2>5
<1>5. \A r, p, c : Elected(r, p, round, c)' <=> Elected(r, p, round, c)
  <2>1. \A r, p, c : Elected(r, p, n, c)' <=> Elected(r, p, n, c)
    BY SameSearches
  <2>2. \A r, p, c : Elected(r, p, round, c)' <=> Elected(r, p, n, c)'
    BY <1>2 DEF Elected
  <2>3. QED
    BY <1>1, <2>1, <2>2
<1>6. Carried'
  <2>1. \A r, q : LocatedOn(r, q)' <=> LocatedOn(r, q)
    BY DEF LocatedOn
  <2>2. \A r, q : PointsOn(r, q)' = PointsOn(r, q)
    BY DEF PointsOn
  <2>3. \A r, q : Told(r, q)' = Told(r, q)
    BY <2>2 DEF Told
  <2>4. \A r, q : TiedTo(r, q)' <=> TiedTo(r, q)
    BY <2>2, <2>3 DEF TiedTo
  <2>5. Carried
    BY DEF NearInv
  <2>6. QED
    BY <1>4, <2>1, <2>4, <2>5 DEF Carried
<1>7. Moving'
  <2> SUFFICES ASSUME stage = "extents" PROVE Moving'
    BY DEF Moving
  <2>1. \A r, q, k : Held(r, q, k)' = Held(r, q, k)
    BY DEF Held
  <2>2. ASSUME NEW r \in Ranks, NEW q \in partners[r], NEW k \in 1 .. Len(local_ids[r][q])
        PROVE  Elected(r, Held(r, q, k), round, <<q, distants[q][r][k].elt>>)'
    <3>1. Elected(r, Held(r, q, k), round, <<q, distants[q][r][k].elt>>)
      BY DEF NearInv, Moving
    <3>2. PICK p, c : p = Held(r, q, k) /\ c = <<q, distants[q][r][k].elt>>
      OBVIOUS
    <3>3. Elected(r, p, round, c)'
      BY <1>5, <3>1, <3>2
    <3>4. Held(r, q, k)' = p /\ <<q, distants'[q][r][k].elt>> = c
      BY <2>1, <3>2
    <3>5. QED
      BY <3>3, <3>4 DEF Elected
  <2>3. ASSUME NEW r \in Ranks, NEW p \in DOMAIN setup.pts[r]
        PROVE  /\ Regained(r, p)'
               /\ Seen(r, p, round)' =>
                    \E q \in partners'[r] : \E k \in 1 .. Len(local_ids'[r][q]) :
                      Held(r, q, k)' = p /\ (Moved(r, q)' => Spot(r, p)' # Nowhere)
    <3>1. Regained(r, p)'
      <4>1. PICK c : c = Spot(r, p)
        OBVIOUS
      <4>2. c = Nowhere \/ Elected(r, p, round, c)'
        BY <1>5, <4>1 DEF NearInv, Moving, Regained
      <4>3. Spot(r, p)' = c
        BY <1>3, <4>1
      <4>4. QED
        BY <4>2, <4>3 DEF Regained, Elected, Nowhere
    <3>2. ASSUME Seen(r, p, round)'
          PROVE  \E q \in partners'[r] : \E k \in 1 .. Len(local_ids'[r][q]) :
                   Held(r, q, k)' = p /\ (Moved(r, q)' => Spot(r, p)' # Nowhere)
      <4>1. PICK q \in partners[r] : \E k \in 1 .. Len(local_ids[r][q]) :
              Held(r, q, k) = p /\ (Moved(r, q) => Spot(r, p) # Nowhere)
        BY <1>4, <3>2 DEF NearInv, Moving
      <4>2. q \in Ranks
        OBVIOUS
      <4>3. QED
        BY <1>3, <2>1, <4>1, <4>2
    <3>3. QED
      BY <3>1, <3>2
  <2>4. QED
    BY <2>2, <2>3 DEF Moving
<1>8. Searching'
  <2> SUFFICES ASSUME stage = "ranks" PROVE Searching'
    BY DEF Searching
  <2>1. Searching
    BY DEF NearInv
  <2>2. \A r, p, q : Close(r, p, q)' = Close(r, p, q)
    BY DEF Close, Near, Tolerance
  <2>3. \A r, p, k : Candidates(r, p, k)' = Candidates(r, p, k)
    BY SameSearches
  <2>4. \A r, p, c : Distance(r, p, c)' = Distance(r, p, c)
    BY SameSearches
  <2>5. ASSUME NEW r \in Ranks, NEW p, Sought(r, p) PROVE Sought(r, p)'
    <3>1. PICK c : c = Spot(r, p)
      OBVIOUS
    <3>2. Spot(r, p)' = c
      BY <1>3, <3>1
    <3>3. CASE loc[r][p].elt < 0
      <4>1. c = Nowhere /\ \A q \in Ranks : Visited(r, q)' => Close(r, p, q)' = {}
        BY <2>2, <2>5, <3>1, <3>3 DEF Sought
      <4>2. QED
        BY <3>2, <3>3, <4>1 DEF Sought, Nowhere
    <3>4. CASE ~(loc[r][p].elt < 0)
      <4>1. /\ c \in Candidates(r, p, n) /\ loc[r][p].dist = Distance(r, p, c)
            /\ \A q \in Ranks : Visited(r, q) =>
                 \A e \in Close(r, p, q) : loc[r][p].dist <= Distance(r, p, <<q, e>>)
        BY <1>1, <2>5, <3>1, <3>4 DEF Sought
      <4>2. c \in Candidates(r, p, n)' /\ loc[r][p].dist = Distance(r, p, c)'
        BY <2>3, <2>4, <4>1
      <4>3. Spot(r, p)' \in Candidates(r, p, round)'
        BY <1>2, <3>2, <4>2 DEF Candidates, Near
      <4>4. loc'[r][p].dist = Distance(r, p, Spot(r, p))'
        BY <3>2, <4>2 DEF Distance
      <4>5. \A q \in Ranks : Visited(r, q)' => \A e \in Close(r, p, q)' :
              loc'[r][p].dist <= Distance(r, p, <<q, e>>)'
        BY <2>2, <2>4, <4>1
      <4>6. QED
        BY <3>4, <4>3, <4>4, <4>5 DEF Sought
    <3>5. QED
      BY <3>3, <3>4
  <2>6. \A r, p : Elected(r, p, round, Spot(r, p))' <=> Elected(r, p, round, Spot(r, p))
    <3> SUFFICES ASSUME NEW r, NEW p
                 PROVE  Elected(r, p, round, Spot(r, p))' <=> Elected(r, p, round, Spot(r, p))
      OBVIOUS
    <3>1. PICK c : c = Spot(r, p)
      OBVIOUS
    <3>2. Spot(r, p)' = c
      BY <1>3, <3>1
    <3>3. Elected(r, p, round, Spot(r, p))' <=> Elected(r, p, round, c)'
      BY <3>2 DEF Elected
    <3>4. QED
      BY <1>5, <3>1, <3>3
  <2>7. QED
    BY <1>4, <2>1, <2>2, <2>5, <2>6 DEF Searching
<1>9. Concluded'
  BY <1>4 DEF NearInv, Concluded
<1>10. QED
  BY <1>6, <1>7, <1>8, <1>9 DEF NearInv

LEMMA NearSteady ==
  ASSUME LocatorInv, NearInv, UNCHANGED <<setup, plan, pass, left, stage, round, loc, todo,
                                          partners, interior, local_ids, distants>>
  PROVE  NearInv'
<1>1. \A r, q : Moved(r, q)' <=> Moved(r, q)
  BY DEF Moved
<1>2. \A r, q : Visited(r, q)' <=> Visited(r, q)
  BY DEF Visited
<1>3. partners \in [Ranks -> SUBSET Ranks]
  BY DEF LocatorInv, Related
<1>4. stage = "ranks" => \A r \in Ranks : pass'[r] < Len(plan) => pass'[r] + 2 = Len(plan)
  BY DEF NearInv, Searching
<1>5. QED
  BY <1>1, <1>2, <1>3, <1>4, NearQuiet

LEMMA NearEnter ==
  ASSUME LocatorInv, NearInv, NEW r \in Ranks, Enter(r)
  PROVE  NearInv'
<1>1. UNCHANGED <<setup, plan, pass, left, stage, round, loc, todo, partners, interior,
                  local_ids, distants>>
  BY DEF Enter, lists
<1>2. QED
  BY <1>1, NearSteady

\* The end of the loop of a search, or of the one that gives back the locations: the rank
\* had visited all the others.
LEMMA NearEndLoop ==
  ASSUME LocatorInv, Theory!LoopInv, ContentInv, NearInv, NEW r \in Ranks, EndLoop(r)
  PROVE  NearInv'
<1> DEFINE e == plan[pass[r] + 1]
<1>1. /\ pass[r] < Len(plan) /\ left[r] = {}
      /\ pass' = [pass EXCEPT ![r] = IF e.part = "first" THEN @ + 2 ELSE @ + 1]
      /\ left' = [left EXCEPT ![r] = Loop!Begins(plan, pass'[r], r)]
      /\ UNCHANGED <<setup, plan, stage, round, loc, todo, partners, interior, local_ids,
                     distants>>
  BY EndLoopFacts
<1>2. /\ pass \in [Ranks -> Nat] /\ left \in [Ranks -> SUBSET Ranks]
      /\ partners \in [Ranks -> SUBSET Ranks] /\ Staged
  BY DEF LocatorInv, Positioned, Related, ContentInv
<1>3. \A s \in Ranks : s # r => pass'[s] = pass[s] /\ left'[s] = left[s]
  BY <1>1, <1>2
<1>4. \A s, q \in Ranks : Moved(s, q)' => Moved(s, q)
  <2>1. \A q : Moved(r, q)' => Moved(r, q)
    BY <1>1 DEF Moved
  <2>2. \A s \in Ranks, q \in Ranks : s # r => (Moved(s, q)' => Moved(s, q))
    BY <1>1, <1>3 DEF Moved
  <2>3. QED
    BY <2>1, <2>2
<1>5. \A s, q \in Ranks : Visited(s, q)' => Visited(s, q)
  <2>1. \A q : Visited(r, q)' => Visited(r, q)
    BY <1>1 DEF Visited
  <2>2. \A s \in Ranks, q \in Ranks : s # r => (Visited(s, q)' => Visited(s, q))
    BY <1>1, <1>3 DEF Visited
  <2>3. QED
    BY <2>1, <2>2
<1>6. ASSUME stage = "ranks", NEW s \in Ranks, pass'[s] < Len(plan)
      PROVE  pass'[s] + 2 = Len(plan)
  <2>1. \A t \in Ranks : pass[t] < Len(plan) => pass[t] + 2 = Len(plan)
    BY <1>6 DEF NearInv, Searching
  <2>2. CASE s # r
    BY <1>3, <1>6, <2>1, <2>2
  <2>3. CASE s = r
    <3>1. /\ pass[r] + 1 \in 1 .. Len(plan) /\ pass[r] \in Nat /\ e.part \in {"only", "first"}
          /\ e.part = "only" <=> e.phase \in Single
      BY <1>1, CurrentEntry
    <3>2. e.phase \in PhasesOf[stage]
      BY <1>1, <1>2, <3>1, StageOf
    <3>3. e.part = "first"
      BY <1>6, <3>1, <3>2 DEF PhasesOf, Single
    <3>4. pass'[r] = pass[r] + 2
      BY <1>1, <1>2, <3>3
    <3>5. QED
      BY <1>1, <1>6, <2>1, <2>3, <3>4
  <2>4. QED
    BY <2>2, <2>3
<1>7. QED
  BY <1>1, <1>2, <1>4, <1>5, <1>6, NearQuiet

\* A rank gets back the locations of its points on another one: they are those that the
\* lists hold.
LEMMA NearTransfer ==
  ASSUME LocatorInv, Theory!LoopInv, ContentInv, ReachInv, NearInv, NEW r \in Ranks, Leave(r),
         stage = "extents"
  PROVE  NearInv'
<1>1. PICK q, d : q = Partner(r) /\ d = Incoming(r).data
  OBVIOUS
<1> DEFINE e == plan[pass[r] + 1]
           n == Len(local_ids[r][q])
<1>2. /\ q \in Ranks /\ q \in left[r] /\ pass[r] < Len(plan)
      /\ e.phase \in PhasesOf[stage] /\ d = Said(q, r, Loop!Stamp(r))
      /\ Received(r, q, d)
      /\ UNCHANGED <<setup, plan, pass, stage, round, todo, interior, partners>>
      /\ IF e.part = "first" /\ ~second[r]
         THEN second' = [second EXCEPT ![r] = TRUE] /\ UNCHANGED left
         ELSE second' = [second EXCEPT ![r] = FALSE] /\ left' = [left EXCEPT ![r] = @ \ {q}]
  BY <1>1, LeaveFacts
<1>3. /\ Staged /\ Sized /\ Lists /\ Traced /\ Moving /\ setup \in Setups /\ round \in Nat
      /\ pass \in [Ranks -> Nat] /\ left \in [Ranks -> SUBSET Ranks]
      /\ partners \in [Ranks -> SUBSET Ranks] /\ (~setup.nearest => round = 0)
  BY DEF ContentInv, ReachInv, NearInv, LocatorInv, Positioned, Related, Staged
<1>4. e.phase = "transfer" /\ e.part = "only" /\ pass[r] + 1 \in pass[r] + 1 .. Len(plan)
  BY <1>2, CurrentEntry DEF PhasesOf, Single
<1>5. ~second[r] /\ Loop!Stamp(r) = pass[r]
  BY <1>2, <1>4, SingleExchange DEF Single
<1>6. Transfer(r, q, d) /\ UNCHANGED lists
  BY <1>2, <1>4, LeaveKeeps DEF Received, Asked, Answered, Counted, Listed, Flagged,
                                Exchanged, At
<1>7. q \in partners[r]
  <2>1. left[r] \subseteq e.with[r]
    BY <1>2, RanksPlaced DEF Placed
  <2>2. e.with = partners
    BY <1>3, <1>4 DEF Staged
  <2>3. QED
    BY <1>2, <2>1, <2>2
<1>8. n \in Nat /\ DOMAIN d = 1 .. n /\ \A k \in 1 .. n : d[k] = distants[q][r][k].elt
  <2>1. d = [j \in DOMAIN distants[q][r] |-> distants[q][r][j].elt]
    BY <1>2, <1>4, <1>5 DEF Said
  <2>2. Listlike(distants[q][r]) /\ Len(distants[q][r]) = n
    BY <1>2, <1>3 DEF Sized, Lists, Matched
  <2>3. QED
    BY <2>1, <2>2 DEF Listlike
<1>9. \A k \in 1 .. n : Elected(r, Held(r, q, k), round, <<q, d[k]>>)
  BY <1>3, <1>7, <1>8 DEF Moving
<1> DEFINE at(p) == CHOOSE k \in DOMAIN d : interior[r][local_ids[r][q][k]] = p
           f == [p \in DOMAIN loc[r] |->
                   IF \E k \in DOMAIN d : interior[r][local_ids[r][q][k]] = p
                   THEN [rank |-> q, dist |-> -1, elt |-> d[at(p)]]
                   ELSE loc[r][p]]
<1>10. loc' = [loc EXCEPT ![r] = f]
  BY <1>6 DEF Transfer
<1>11. loc'[r] = f /\ \A s \in Ranks : s # r => loc'[s] = loc[s]
  <2>1. ByRank(loc)
    BY <1>3 DEF Sized
  <2> HIDE DEF f
  <2>2. loc' = [s \in Ranks |-> IF s = r THEN f ELSE loc[s]]
    BY <1>10, <2>1 DEF ByRank
  <2>3. QED
    BY <2>2
<1>12. DOMAIN loc[r] = DOMAIN setup.pts[r]
  BY <1>3 DEF Traced
<1>13. ASSUME NEW p \in DOMAIN setup.pts[r], NEW k \in 1 .. n, Held(r, q, k) = p
       PROVE  Elected(r, p, round, Spot(r, p)')
  <2>1. \E j \in DOMAIN d : interior[r][local_ids[r][q][j]] = p
    BY <1>8, <1>13 DEF Held
  <2>2. at(p) \in 1 .. n /\ Held(r, q, at(p)) = p
    BY <1>8, <2>1 DEF Held
  <2>3. f[p] = [rank |-> q, dist |-> -1, elt |-> d[at(p)]]
    BY <1>12, <2>1
  <2> HIDE DEF at, f
  <2>4. Spot(r, p)' = <<q, d[at(p)]>>
    BY <1>11, <2>3 DEF Spot
  <2>5. QED
    BY <1>9, <2>2, <2>4
<1>14. ASSUME NEW p \in DOMAIN setup.pts[r], ~\E k \in 1 .. n : Held(r, q, k) = p
       PROVE  Spot(r, p)' = Spot(r, p)
  <2>1. ~\E j \in DOMAIN d : interior[r][local_ids[r][q][j]] = p
    BY <1>8, <1>14 DEF Held
  <2>2. f[p] = loc[r][p]
    BY <1>12, <2>1
  <2> HIDE DEF f
  <2>3. QED
    BY <1>11, <2>2 DEF Spot
<1> HIDE DEF f, at
<1>15. UNCHANGED <<local_ids, distants>>
  BY <1>6 DEF lists
<1>16. \A s, t, k : Held(s, t, k)' = Held(s, t, k)
  BY <1>2, <1>15 DEF Held
<1>17. \A s, p, c : Elected(s, p, round, c)' <=> Elected(s, p, round, c)
  <2>1. PICK m : m = round
    OBVIOUS
  <2>2. \A s, p, c : Elected(s, p, m, c)' <=> Elected(s, p, m, c)
    BY <1>2, SameSearches
  <2>3. m = round'
    BY <1>2, <2>1
  <2>4. \A s, p, c : Elected(s, p, round, c)' <=> Elected(s, p, m, c)'
    BY <2>3 DEF Elected
  <2>5. QED
    BY <2>1, <2>2, <2>4
<1>18. \A s, p : Seen(s, p, round)' <=> Seen(s, p, round)
  BY <1>2 DEF Seen, Candidates, Near, Tolerance
<1>19. ASSUME NEW s \in Ranks, NEW p \in DOMAIN setup.pts[s]
       PROVE  Spot(s, p)' = Nowhere \/ Elected(s, p, round, Spot(s, p)')
  <2>1. Spot(s, p) = Nowhere \/ Elected(s, p, round, Spot(s, p))
    BY <1>3 DEF Moving, Regained
  <2>2. CASE s # r
    <3>1. Spot(s, p)' = Spot(s, p)
      BY <1>11, <2>2 DEF Spot
    <3>2. QED
      BY <2>1, <3>1
  <2>3. CASE s = r
    BY <1>13, <1>14, <2>1, <2>3
  <2>4. QED
    BY <2>2, <2>3
<1>20. ASSUME NEW s \in Ranks, NEW p \in DOMAIN setup.pts[s], Seen(s, p, round)
       PROVE  \E t \in partners[s] : \E k \in 1 .. Len(local_ids[s][t]) :
                Held(s, t, k) = p /\ (Moved(s, t)' => Spot(s, p)' # Nowhere)
  <2>1. PICK t \in partners[s] : \E k \in 1 .. Len(local_ids[s][t]) :
          Held(s, t, k) = p /\ (Moved(s, t) => Spot(s, p) # Nowhere)
    BY <1>3, <1>20 DEF Moving
  <2>2. PICK k \in 1 .. Len(local_ids[s][t]) :
          Held(s, t, k) = p /\ (Moved(s, t) => Spot(s, p) # Nowhere)
    BY <2>1
  <2>3. CASE s # r
    <3>1. Spot(s, p)' = Spot(s, p)
      BY <1>11, <2>3 DEF Spot
    <3>2. left'[s] = left[s]
      BY <1>2, <1>3, <1>4, <2>3
    <3>3. Moved(s, t)' => Moved(s, t)
      BY <1>2, <3>2 DEF Moved
    <3>4. QED
      BY <2>2, <3>1, <3>3
  <2>4. CASE s = r /\ \E j \in 1 .. n : Held(r, q, j) = p
    <3>1. Elected(r, p, round, Spot(r, p)')
      BY <1>13, <2>4
    <3>2. PICK a, b : <<a, b>> = Spot(r, p)'
      BY DEF Spot
    <3>3. Elected(r, p, round, <<a, b>>)
      BY <3>1, <3>2
    <3>4. <<a, b>> # Nowhere
      BY <1>3, <3>3, ElectedIs
    <3>5. QED
      BY <2>2, <2>4, <3>2, <3>4
  <2>5. CASE s = r /\ ~\E j \in 1 .. n : Held(r, q, j) = p
    <3>1. Spot(s, p)' = Spot(s, p) /\ t # q
      BY <1>14, <2>2, <2>5
    <3>2. left'[r] = left[r] \ {q}
      BY <1>2, <1>3, <1>4
    <3>3. Moved(s, t)' => Moved(s, t)
      BY <1>2, <2>5, <3>1, <3>2 DEF Moved
    <3>4. QED
      BY <2>2, <3>1, <3>3
  <2>6. QED
    BY <2>3, <2>4, <2>5
<1>21. Moving'
  <2>1. ASSUME NEW s \in Ranks, NEW t \in partners[s], NEW k \in 1 .. Len(local_ids[s][t])
        PROVE  Elected(s, Held(s, t, k), round, <<t, distants[t][s][k].elt>>)'
    <3>1. PICK p, c : p = Held(s, t, k) /\ c = <<t, distants[t][s][k].elt>>
      OBVIOUS
    <3>2. Elected(s, p, round, c)'
      BY <1>3, <1>17, <3>1 DEF Moving
    <3>3. Held(s, t, k)' = p /\ <<t, distants'[t][s][k].elt>> = c
      BY <1>15, <1>16, <3>1
    <3>4. QED
      BY <3>2, <3>3 DEF Elected
  <2>2. ASSUME NEW s \in Ranks, NEW p \in DOMAIN setup.pts[s] PROVE Regained(s, p)'
    <3>1. PICK c : c = Spot(s, p)'
      OBVIOUS
    <3>2. c = Nowhere \/ Elected(s, p, round, c)'
      BY <1>17, <1>19, <3>1
    <3>3. QED
      BY <3>1, <3>2 DEF Regained, Elected, Nowhere
  <2>3. QED
    BY <1>2, <1>15, <1>16, <1>18, <1>20, <2>1, <2>2 DEF Moving
<1>22. QED
  BY <1>2, <1>3, <1>21 DEF NearInv, Carried, Searching, Concluded

\* What an answer is about: the points that are within the extents of the other rank, and
\* so all those that one of its elements is close to.
LEMMA AnswerIs ==
  ASSUME LocatorInv, Theory!LoopInv, ContentInv, ReachInv, NearInv, NEW r \in Ranks, Leave(r),
         stage = "ranks", second[r], NEW q, q = Partner(r), NEW d, d = Incoming(r).data
  PROVE  /\ q \in Ranks /\ q \in setup.far[r] /\ q \in plan[Len(plan)].with[r]
         /\ pass[r] < Len(plan) /\ Answered(r, q, d) /\ left' = [left EXCEPT ![r] = @ \ {q}]
         /\ UNCHANGED <<setup, plan, pass, stage, round, todo, lists>>
         /\ DOMAIN d = DOMAIN Chosen(r, q)
         /\ \A k \in DOMAIN d : /\ Chosen(r, q)[k] \in DOMAIN todo[r]
                                /\ todo[r][Chosen(r, q)[k]] = Chosen(r, q)[k]
                                /\ d[k] = Locate(q, setup.pts[r][Chosen(r, q)[k]])
         /\ \A p \in DOMAIN todo[r] :
              Close(r, p, q) # {} => \E k \in DOMAIN d : Chosen(r, q)[k] = p
<1> DEFINE e == plan[pass[r] + 1]
           f == plan[pass[r] + 2]
           l == todo[r]
           S == {j \in DOMAIN l : Within(setup.pts[r][j], MeshExtents(q))}
<1>1. /\ q \in Ranks /\ q \in left[r] /\ pass[r] < Len(plan)
      /\ e.phase \in PhasesOf[stage] /\ d = Said(q, r, Loop!Stamp(r))
      /\ Received(r, q, d)
      /\ UNCHANGED <<setup, plan, pass, stage, round, todo, interior, partners>>
      /\ IF e.part = "first" /\ ~second[r]
         THEN second' = [second EXCEPT ![r] = TRUE] /\ UNCHANGED left
         ELSE second' = [second EXCEPT ![r] = FALSE] /\ left' = [left EXCEPT ![r] = @ \ {q}]
  BY LeaveFacts
<1>2. /\ Staged /\ Sized /\ Traced /\ Searching /\ setup \in Setups /\ round \in Nat
      /\ pass \in [Ranks -> Nat]
  BY DEF ContentInv, ReachInv, NearInv, LocatorInv, Positioned, Staged
<1>3. /\ e.phase = "search" /\ e.part = "first" /\ Follows(e, f)
      /\ pass[r] + 1 \in pass[r] + 1 .. Len(plan) /\ pass[r] + 2 = Len(plan)
  BY <1>1, <1>2, CurrentEntry DEF PhasesOf, Single, Searching
<1>4. Loop!Stamp(r) = pass[r] + 1 /\ (pass[r] + 1) + 1 = pass[r] + 2
  <2>1. Loop!Stamp(r) = pass[r] + 1
    BY <1>1, SingleExchange
  <2>2. pass[r] \in Nat
    BY <1>2
  <2>3. QED
    BY <2>1, <2>2
<1>5. Answered(r, q, d) /\ UNCHANGED lists
  BY <1>1, <1>3, LeaveKeeps DEF Received, Transfer, Asked, Counted, Listed, Flagged,
                                Exchanged, At
<1>6. q \in setup.far[r] /\ q \in plan[Len(plan)].with[r]
  <2>1. left[r] \subseteq e.with[r]
    BY <1>1, RanksPlaced DEF Placed
  <2>2. e.with[r] \subseteq setup.far[r]
    BY <1>2, <1>3 DEF Traced
  <2>3. plan[Len(plan)].with = e.with
    BY <1>3 DEF Follows
  <2>4. QED
    BY <1>1, <2>1, <2>2, <2>3
<1>7. /\ l \in Seq(Int) /\ DOMAIN l \subseteq DOMAIN setup.pts[r]
      /\ \A j \in DOMAIN setup.pts[r] : setup.pts[r][j] \in Int
  <2>1. /\ l \in Seq(DOMAIN setup.pts[r]) /\ Len(l) <= Len(setup.pts[r])
        /\ setup.pts[r] \in Seq(Int) /\ Len(setup.pts[r]) \in Nat
        /\ DOMAIN setup.pts[r] = 1 .. Len(setup.pts[r])
    BY <1>2, PointLists DEF Sized
  <2>2. DOMAIN setup.pts[r] \subseteq Int
    BY <2>1
  <2> HIDE DEF l
  <2>3. l \in Seq(Int)
    BY <2>1, <2>2, SeqMonotonic
  <2>4. DOMAIN l = 1 .. Len(l) /\ Len(l) \in Nat
    BY <2>1
  <2>5. DOMAIN l \subseteq DOMAIN setup.pts[r]
    BY <2>1, <2>4
  <2>6. \A j \in DOMAIN setup.pts[r] : setup.pts[r][j] \in Int
    BY <2>1
  <2>7. QED
    BY <2>3, <2>5, <2>6
<1>8. Chosen(r, q) = Ascending(S) /\ S \subseteq DOMAIN l
  BY DEF Chosen
<1>9. /\ DOMAIN Chosen(r, q) = 1 .. Len(Chosen(r, q))
      /\ \A k \in DOMAIN Chosen(r, q) : Chosen(r, q)[k] \in S
      /\ \A i \in S : \E k \in DOMAIN Chosen(r, q) : Chosen(r, q)[k] = i
  <2> HIDE DEF S, l
  <2>1. DOMAIN Chosen(r, q) = 1 .. Len(Chosen(r, q))
    BY <1>7, <1>8, SomePoints
  <2>2. /\ \A k \in 1 .. Len(Ascending(S)) : Ascending(S)[k] \in S
        /\ \A i \in S : \E k \in 1 .. Len(Ascending(S)) : Ascending(S)[k] = i
    BY <1>7, <1>8, PointsAllListed
  <2>3. QED
    BY <1>8, <2>1, <2>2
<1>10. d = [j \in DOMAIN Coords(r, q) |-> Locate(q, Coords(r, q)[j])]
  <2>1. f.phase = "search" /\ f.part = "second"
    BY <1>3 DEF Follows
  <2>2. QED
    BY <1>1, <1>4, <2>1 DEF Said
<1>11. DOMAIN d = DOMAIN Chosen(r, q)
  BY <1>10 DEF Coords
<1>12. \A k \in DOMAIN d : d[k] = Locate(q, setup.pts[r][Chosen(r, q)[k]])
  BY <1>10 DEF Coords
<1>13. \A k \in DOMAIN d : Chosen(r, q)[k] \in DOMAIN l /\ l[Chosen(r, q)[k]] = Chosen(r, q)[k]
  BY <1>2, <1>8, <1>9, <1>11 DEF Searching
<1>14. ASSUME NEW p \in DOMAIN l, Close(r, p, q) # {}
       PROVE  \E k \in DOMAIN d : Chosen(r, q)[k] = p
  <2>1. setup.pts[r][p] \in Int
    BY <1>7
  <2>2. Within(setup.pts[r][p], MeshExtents(q))
    BY <1>1, <1>2, <1>14, <2>1, CloseWithin DEF Close
  <2>3. p \in S
    BY <2>2
  <2>4. QED
    BY <1>9, <1>11, <2>3
<1>15. left' = [left EXCEPT ![r] = @ \ {q}]
  BY <1>1
<1>16. UNCHANGED <<setup, plan, pass, stage, round, todo, lists>>
  BY <1>1, <1>5
<1>17. QED
  BY <1>1, <1>5, <1>6, <1>11, <1>12, <1>13, <1>14, <1>15, <1>16

\* What the answer changes: the locations of the points that it is better for.
LEMMA AnswerSets ==
  ASSUME LocatorInv, Theory!LoopInv, ContentInv, ReachInv, NearInv, NEW r \in Ranks, Leave(r),
         stage = "ranks", second[r], NEW q, q = Partner(r)
  PROVE  /\ \A s \in Ranks : s # r => loc'[s] = loc[s]
         /\ \A p \in DOMAIN setup.pts[r] \ DOMAIN todo[r] : loc'[r][p] = loc[r][p]
         /\ \A p \in DOMAIN setup.pts[r] \cap DOMAIN todo[r] :
              LET a == Locate(q, setup.pts[r][p])
              IN  IF Close(r, p, q) # {} /\ Better(a, loc[r][p])
                  THEN /\ loc'[r][p].rank = q /\ loc'[r][p].elt = a.elt
                       /\ loc'[r][p].dist = a.dist
                  ELSE loc'[r][p] = loc[r][p]
<1>1. PICK d : d = Incoming(r).data
  OBVIOUS
<1> DEFINE c == Chosen(r, q)
<1>2. /\ Answered(r, q, d) /\ DOMAIN d = DOMAIN c /\ q \in Ranks
      /\ \A k \in DOMAIN d : /\ c[k] \in DOMAIN todo[r] /\ todo[r][c[k]] = c[k]
                             /\ d[k] = Locate(q, setup.pts[r][c[k]])
      /\ \A p \in DOMAIN todo[r] :
           Close(r, p, q) # {} => \E k \in DOMAIN d : c[k] = p
  BY <1>1, AnswerIs
<1>3. ByRank(loc) /\ DOMAIN loc[r] = DOMAIN setup.pts[r] /\ setup \in Setups
  BY DEF ContentInv, Sized, ReachInv, Traced, LocatorInv
<1> DEFINE at(p) == CHOOSE k \in DOMAIN d : todo[r][Chosen(r, q)[k]] = p
           new(p) == [rank |-> q, elt |-> d[at(p)].elt, dist |-> d[at(p)].dist]
           g == [p \in DOMAIN loc[r] |->
                   IF \E k \in DOMAIN d : /\ todo[r][Chosen(r, q)[k]] = p
                                          /\ Better(d[k], loc[r][p])
                   THEN new(p) ELSE loc[r][p]]
<1>4. loc' = [loc EXCEPT ![r] = g]
  BY <1>2 DEF Answered
<1>5. loc'[r] = g /\ \A s \in Ranks : s # r => loc'[s] = loc[s]
  <2> HIDE DEF g
  <2>1. loc' = [s \in Ranks |-> IF s = r THEN g ELSE loc[s]]
    BY <1>3, <1>4 DEF ByRank
  <2>2. QED
    BY <2>1
<1>6. ASSUME NEW p \in DOMAIN setup.pts[r] \ DOMAIN todo[r] PROVE loc'[r][p] = loc[r][p]
  <2>1. ~\E k \in DOMAIN d : todo[r][Chosen(r, q)[k]] = p /\ Better(d[k], loc[r][p])
    BY <1>2
  <2>2. g[p] = loc[r][p]
    BY <1>3, <2>1
  <2> HIDE DEF g
  <2>3. QED
    BY <1>5, <2>2
<1>7. ASSUME NEW p \in DOMAIN setup.pts[r], p \in DOMAIN todo[r],
             Close(r, p, q) # {}, Better(Locate(q, setup.pts[r][p]), loc[r][p])
      PROVE  /\ loc'[r][p].rank = q /\ loc'[r][p].elt = Locate(q, setup.pts[r][p]).elt
             /\ loc'[r][p].dist = Locate(q, setup.pts[r][p]).dist
  <2>1. PICK k \in DOMAIN d : c[k] = p
    BY <1>2, <1>7
  <2>2. todo[r][Chosen(r, q)[k]] = p /\ Better(d[k], loc[r][p])
    BY <1>2, <1>7, <2>1
  <2>3. at(p) \in DOMAIN d /\ todo[r][Chosen(r, q)[at(p)]] = p
    BY <2>2
  <2>4. g[p] = new(p)
    BY <1>3, <2>2
  <2> HIDE DEF at
  <2>5. d[at(p)] = Locate(q, setup.pts[r][p])
    BY <1>2, <2>3
  <2>6. g[p] = [rank |-> q, elt |-> d[at(p)].elt, dist |-> d[at(p)].dist]
    BY <2>4
  <2> HIDE DEF g
  <2>7. QED
    BY <1>5, <2>5, <2>6
<1>8. ASSUME NEW p \in DOMAIN setup.pts[r], p \in DOMAIN todo[r],
             ~(Close(r, p, q) # {} /\ Better(Locate(q, setup.pts[r][p]), loc[r][p]))
      PROVE  loc'[r][p] = loc[r][p]
  <2>1. ASSUME NEW k \in DOMAIN d, todo[r][Chosen(r, q)[k]] = p, Better(d[k], loc[r][p])
        PROVE  FALSE
    <3>1. d[k] = Locate(q, setup.pts[r][p])
      BY <1>2, <2>1
    <3>2. Close(r, p, q) = {}
      BY <1>8, <2>1, <3>1
    <3>3. Locate(q, setup.pts[r][p]).dist = -1
      BY <3>2 DEF Close, Locate
    <3>4. QED
      BY <2>1, <3>1, <3>3 DEF Better
  <2>2. g[p] = loc[r][p]
    BY <1>3, <2>1
  <2> HIDE DEF g
  <2>3. QED
    BY <1>5, <2>2
<1> HIDE DEF g
<1>9. QED
  BY <1>5, <1>6, <1>7, <1>8

\* The best answer so far remains so, if the ranks visited since have none that is better.
LEMMA SoughtKept ==
  ASSUME UNCHANGED <<setup, round>>, NEW r, NEW p, loc'[r][p] = loc[r][p], Sought(r, p),
         \A q \in Ranks : Visited(r, q)' =>
           \/ Visited(r, q) \/ Close(r, p, q) = {}
           \/ /\ ~(loc[r][p].elt < 0)
              /\ \A e \in Close(r, p, q) : loc[r][p].dist <= Distance(r, p, <<q, e>>)
  PROVE  Sought(r, p)'
<1>1. PICK c : c = Spot(r, p)
  OBVIOUS
<1>2. Spot(r, p)' = c
  BY <1>1 DEF Spot
<1>3. \A q : Close(r, p, q)' = Close(r, p, q)
  BY DEF Close, Near, Tolerance
<1>4. \A d : Distance(r, p, d)' = Distance(r, p, d)
  BY SameSearches
<1>5. CASE loc[r][p].elt < 0
  <2>1. c = Nowhere /\ \A q \in Ranks : Visited(r, q)' => Close(r, p, q)' = {}
    BY <1>1, <1>3, <1>5 DEF Sought
  <2>2. QED
    BY <1>2, <1>5, <2>1 DEF Sought, Nowhere
<1>6. CASE ~(loc[r][p].elt < 0)
  <2>1. c \in Candidates(r, p, round) /\ loc[r][p].dist = Distance(r, p, c)
    BY <1>1, <1>6 DEF Sought
  <2>2. Candidates(r, p, round)' = Candidates(r, p, round)
    BY DEF Candidates, Near, Tolerance
  <2>3. /\ Spot(r, p)' \in Candidates(r, p, round)'
        /\ loc'[r][p].dist = Distance(r, p, Spot(r, p))'
    <3>1. Distance(r, p, Spot(r, p))' = Distance(r, p, c)'
      BY <1>2 DEF Distance
    <3>2. QED
      BY <1>2, <1>4, <2>1, <2>2, <3>1
  <2>4. \A q \in Ranks : Visited(r, q)' =>
          \A e \in Close(r, p, q)' : loc'[r][p].dist <= Distance(r, p, <<q, e>>)'
    BY <1>3, <1>4, <1>6 DEF Sought
  <2>5. QED
    BY <1>6, <2>3, <2>4 DEF Sought
<1>7. QED
  BY <1>5, <1>6

LEMMA AnswerSought ==
  ASSUME LocatorInv, Theory!LoopInv, ContentInv, ReachInv, NearInv, NEW r \in Ranks, Leave(r),
         stage = "ranks", second[r], NEW p \in DOMAIN setup.pts[r], p \in DOMAIN todo[r]
  PROVE  Sought(r, p)'
<1>1. PICK q, a, x, l :
        q = Partner(r) /\ x = setup.pts[r][p] /\ a = Locate(q, x) /\ l = loc[r][p]
  OBVIOUS
<1>2. /\ q \in Ranks /\ q \in setup.far[r] /\ q \in plan[Len(plan)].with[r]
      /\ pass[r] < Len(plan) /\ left' = [left EXCEPT ![r] = @ \ {q}]
      /\ UNCHANGED <<setup, plan, pass, stage, round, todo, lists>>
  BY <1>1, AnswerIs
<1>3. IF Close(r, p, q) # {} /\ Better(a, l)
      THEN loc'[r][p].rank = q /\ loc'[r][p].elt = a.elt /\ loc'[r][p].dist = a.dist
      ELSE loc'[r][p] = loc[r][p]
  BY <1>1, AnswerSets
<1>4. /\ Sought(r, p) /\ setup \in Setups /\ left \in [Ranks -> SUBSET Ranks] /\ x \in Int
  <2>1. setup.pts[r] \in Seq(Int) /\ setup \in Setups
    BY PointLists DEF LocatorInv
  <2>2. x \in Int
    BY <1>1, <2>1
  <2>3. QED
    BY <2>1, <2>2 DEF NearInv, Searching, LocatorInv, Positioned
<1>5. \A t \in Ranks : Visited(r, t)' => Visited(r, t) \/ t = q
  BY <1>2, <1>4 DEF Visited
<1>6. \A t : Close(r, p, t)' = Close(r, p, t)
  BY <1>2 DEF Close, Near, Tolerance
<1>7. ASSUME NEW t \in Ranks, NEW e \in Close(r, p, t)
      PROVE  Distance(r, p, <<t, e>>) \in Int /\ e \in Nat
  <2>1. Mesh(t) /\ e \in DOMAIN setup.elts[t]
    BY <1>4, Meshes DEF Close, Near
  <2>2. setup.elts[t][e] \in Int /\ e \in Nat
    BY <2>1 DEF Mesh
  <2>3. Distance(r, p, <<t, e>>) = Abs(x - setup.elts[t][e])
    BY <1>1 DEF Distance
  <2>4. QED
    BY <1>4, <2>2, <2>3 DEF Abs
<1>8. Close(r, p, q) # {} =>
        /\ a.elt \in Close(r, p, q) /\ a.dist \in Nat /\ a.dist = Distance(r, p, <<q, a.elt>>)
        /\ \A e \in Close(r, p, q) : a.dist <= Distance(r, p, <<q, e>>)
  <2>1. Close(r, p, q) = Near(q, x, round)
    BY <1>1 DEF Close
  <2>2. \A e : Distance(r, p, <<q, e>>) = Abs(x - setup.elts[q][e])
    BY <1>1 DEF Distance
  <2>3. Near(q, x, round) # {} =>
          /\ a.elt \in Near(q, x, round) /\ a.dist \in Nat
          /\ a.dist = Abs(x - setup.elts[q][a.elt])
          /\ \A e \in Near(q, x, round) : a.dist <= Abs(x - setup.elts[q][e])
    BY <1>1, <1>2, <1>4, LocateFinds
  <2>4. QED
    BY <2>1, <2>2, <2>3
<1>9. ~(l.elt < 0) => l.dist \in Int
  <2>1. ASSUME ~(l.elt < 0) PROVE l.dist \in Int
    <3>1. Spot(r, p) \in Candidates(r, p, round) /\ l.dist = Distance(r, p, Spot(r, p))
      BY <1>1, <1>4, <2>1 DEF Sought
    <3>2. PICK t \in setup.far[r] : \E e \in Near(t, setup.pts[r][p], round) :
            Spot(r, p) = <<t, e>>
      BY <3>1, CandidatesAre
    <3>3. t \in Ranks
      BY <1>4, FarRanks
    <3>4. QED
      BY <1>7, <3>1, <3>2, <3>3 DEF Close
  <2>2. QED
    BY <2>1
<1>10. CASE Close(r, p, q) # {} /\ Better(a, l)
  <2>1. PICK c : c = <<q, a.elt>>
    OBVIOUS
  <2>2. Spot(r, p)' = c /\ loc'[r][p].elt = a.elt /\ loc'[r][p].dist = a.dist
    BY <1>3, <1>10, <2>1 DEF Spot
  <2>3. ~(loc'[r][p].elt < 0)
    <3>1. a.elt \in Nat
      BY <1>2, <1>7, <1>8, <1>10
    <3>2. QED
      BY <2>2, <3>1
  <2>4. Spot(r, p)' \in Candidates(r, p, round)'
    <3>1. c \in Candidates(r, p, round)
      BY <1>1, <1>2, <1>8, <1>10, <2>1, CandidatesAre DEF Close
    <3>2. Candidates(r, p, round)' = Candidates(r, p, round)
      BY <1>2 DEF Candidates, Near, Tolerance
    <3>3. QED
      BY <2>2, <3>1, <3>2
  <2>5. \A d : Distance(r, p, d)' = Distance(r, p, d)
    BY <1>2, SameSearches
  <2>6. loc'[r][p].dist = Distance(r, p, Spot(r, p))'
    <3>1. Distance(r, p, Spot(r, p))' = Distance(r, p, c)'
      BY <2>2 DEF Distance
    <3>2. QED
      BY <1>8, <1>10, <2>1, <2>2, <2>5, <3>1
  <2>7. ASSUME NEW t \in Ranks, Visited(r, t)', NEW e \in Close(r, p, t)
        PROVE  a.dist <= Distance(r, p, <<t, e>>)
    <3>1. CASE t = q
      BY <1>8, <1>10, <2>7, <3>1
    <3>2. CASE t # q
      <4>1. ~(l.elt < 0) /\ l.dist <= Distance(r, p, <<t, e>>)
        BY <1>1, <1>4, <1>5, <2>7, <3>2 DEF Sought
      <4>2. a.dist < l.dist
        BY <1>10, <4>1 DEF Better
      <4>3. a.dist \in Int /\ l.dist \in Int /\ Distance(r, p, <<t, e>>) \in Int
        BY <1>7, <1>8, <1>9, <1>10, <2>7, <4>1
      <4>4. QED
        BY <4>1, <4>2, <4>3
    <3>3. QED
      BY <3>1, <3>2
  <2>8. \A t \in Ranks : Visited(r, t)' =>
          \A e \in Close(r, p, t)' : loc'[r][p].dist <= Distance(r, p, <<t, e>>)'
    BY <1>6, <2>2, <2>5, <2>7
  <2>9. QED
    BY <2>3, <2>4, <2>6, <2>8 DEF Sought
<1>11. CASE Close(r, p, q) # {} /\ ~Better(a, l)
  <2>1. a.dist \in Nat /\ 10 * a.dist > -1
    BY <1>8, <1>11
  <2>2. ~(l.elt < 0) /\ ~(a.dist < l.dist)
    BY <1>11, <2>1 DEF Better
  <2>3. \A e \in Close(r, p, q) : l.dist <= Distance(r, p, <<q, e>>)
    <3> SUFFICES ASSUME NEW e \in Close(r, p, q) PROVE l.dist <= Distance(r, p, <<q, e>>)
      OBVIOUS
    <3>1. a.dist <= Distance(r, p, <<q, e>>) /\ Distance(r, p, <<q, e>>) \in Int
      BY <1>2, <1>7, <1>8
    <3>2. l.dist \in Int
      BY <1>9, <2>2
    <3>3. QED
      BY <2>1, <2>2, <3>1, <3>2
  <2>4. loc'[r][p] = loc[r][p]
    BY <1>3, <1>11
  <2>5. QED
    BY <1>1, <1>2, <1>4, <1>5, <2>2, <2>3, <2>4, SoughtKept
<1>12. CASE Close(r, p, q) = {}
  <2>1. loc'[r][p] = loc[r][p]
    BY <1>3, <1>12
  <2>2. QED
    BY <1>2, <1>4, <1>5, <1>12, <2>1, SoughtKept
<1>13. QED
  BY <1>10, <1>11, <1>12

LEMMA NearAnswered ==
  ASSUME LocatorInv, Theory!LoopInv, ContentInv, ReachInv, NearInv, NEW r \in Ranks, Leave(r),
         stage = "ranks", second[r]
  PROVE  NearInv'
<1>1. PICK q : q = Partner(r)
  OBVIOUS
<1>2. /\ q \in Ranks /\ q \in setup.far[r] /\ q \in plan[Len(plan)].with[r]
      /\ pass[r] < Len(plan) /\ left' = [left EXCEPT ![r] = @ \ {q}]
      /\ UNCHANGED <<setup, plan, pass, stage, round, todo, lists>>
  BY <1>1, AnswerIs
<1>3. /\ \A s \in Ranks : s # r => loc'[s] = loc[s]
      /\ \A p \in DOMAIN setup.pts[r] \ DOMAIN todo[r] : loc'[r][p] = loc[r][p]
      /\ \A p \in DOMAIN setup.pts[r] \cap DOMAIN todo[r] :
           LET a == Locate(q, setup.pts[r][p])
           IN  IF Close(r, p, q) # {} /\ Better(a, loc[r][p])
               THEN /\ loc'[r][p].rank = q /\ loc'[r][p].elt = a.elt
                    /\ loc'[r][p].dist = a.dist
               ELSE loc'[r][p] = loc[r][p]
  BY <1>1, AnswerSets
<1>4. /\ Searching /\ setup \in Setups /\ round \in Nat /\ (~setup.nearest => round = 0)
      /\ left \in [Ranks -> SUBSET Ranks]
  BY DEF NearInv, LocatorInv, Positioned, ContentInv, Staged
<1>5. \A s, t \in Ranks : Visited(s, t)' => Visited(s, t) \/ (s = r /\ t = q)
  BY <1>2, <1>4 DEF Visited
<1>6. \A s, p, c : Elected(s, p, round, c)' <=> Elected(s, p, round, c)
  BY <1>2 DEF Elected, Candidates, Near, Tolerance, Distance
<1>7. \A s, p : Seen(s, p, round)' <=> Seen(s, p, round)
  BY <1>2 DEF Seen, Candidates, Near, Tolerance
<1>8. ASSUME NEW s \in Ranks, NEW p \in DOMAIN setup.pts[s], p \notin DOMAIN todo[s]
      PROVE  Elected(s, p, round, Spot(s, p))'
  <2>1. Spot(s, p)' = Spot(s, p)
    BY <1>3, <1>8 DEF Spot
  <2>2. PICK c : c = Spot(s, p)
    OBVIOUS
  <2>3. Elected(s, p, round, c)'
    BY <1>4, <1>6, <1>8, <2>2 DEF Searching
  <2>4. QED
    BY <2>1, <2>2, <2>3 DEF Elected
<1>9. ASSUME NEW s \in Ranks, NEW p \in DOMAIN setup.pts[s], p \in DOMAIN todo[s]
      PROVE  Sought(s, p)'
  <2>1. Sought(s, p)
    BY <1>4, <1>9 DEF Searching
  <2>2. CASE s # r
    BY <1>2, <1>3, <1>5, <2>1, <2>2, SoughtKept
  <2>3. CASE s = r
    BY <1>9, <2>3, AnswerSought
  <2>4. QED
    BY <2>2, <2>3
<1>10. ASSUME NEW s \in Ranks, NEW p \in DOMAIN setup.pts[s], p \in DOMAIN todo[s],
              NEW t \in setup.far[s], Close(s, p, t)' # {}
       PROVE  t \in plan[Len(plan)].with[s]
  <2>1. Close(s, p, t) # {}
    BY <1>2, <1>10 DEF Close, Near, Tolerance
  <2>2. QED
    BY <1>4, <1>10, <2>1 DEF Searching
<1>11. Searching'
  <2>1. \A s \in Ranks : /\ pass[s] < Len(plan) => pass[s] + 2 = Len(plan)
                         /\ \A j \in DOMAIN todo[s] : todo[s][j] = j
                         /\ \A p \in DOMAIN todo[s] \cap DOMAIN setup.pts[s] :
                              ~Seen(s, p, round)
    BY <1>4 DEF Searching
  <2>2. QED
    BY <1>2, <1>7, <1>8, <1>9, <1>10, <2>1 DEF Searching
<1>12. QED
  BY <1>2, <1>4, <1>11 DEF NearInv, Carried, Moving, Concluded

LEMMA NearLeave ==
  ASSUME LocatorInv, Theory!LoopInv, ContentInv, ReachInv, NearInv, NEW r \in Ranks, Leave(r)
  PROVE  NearInv'
<1>1. PICK q, d : q = Partner(r) /\ d = Incoming(r).data
  OBVIOUS
<1>2. /\ pass[r] < Len(plan) /\ plan[pass[r] + 1].phase \in PhasesOf[stage]
      /\ Received(r, q, d)
      /\ UNCHANGED <<setup, plan, pass, stage, round, todo, interior, partners>>
      /\ plan[pass[r] + 1].part = "first" /\ ~second[r] => UNCHANGED left
  BY <1>1, LeaveFacts
<1>3. /\ stage # "located" => UNCHANGED lists
      /\ stage \in {"located", "done"} => UNCHANGED loc
  BY LeaveKeeps
<1>4. stage \in {"flags", "extents", "ranks", "located", "done"}
  BY DEF ContentInv, Staged, Stages
<1>5. CASE stage = "flags"
  BY <1>2, <1>5 DEF PhasesOf
<1>6. CASE stage = "extents"
  BY <1>6, NearTransfer
<1>7. CASE stage = "ranks" /\ second[r]
  BY <1>7, NearAnswered
<1>8. CASE stage = "ranks" /\ ~second[r]
  <2>1. plan[pass[r] + 1].phase = "search"
    BY <1>2, <1>8 DEF PhasesOf
  <2>2. plan[pass[r] + 1].part = "first"
    BY <1>2, <2>1, SingleExchange DEF Single
  <2>3. UNCHANGED loc
    BY <1>2, <1>8, <2>1 DEF Received, Transfer, Asked, Answered, Counted, Listed, Flagged,
                            Exchanged, At
  <2>4. UNCHANGED <<setup, plan, pass, left, stage, round, loc, todo, partners, interior,
                    local_ids, distants>>
    BY <1>2, <1>3, <1>8, <2>2, <2>3 DEF lists
  <2>5. QED
    BY <2>4, NearSteady
<1>9. CASE stage \in {"located", "done"}
  <2>1. UNCHANGED <<setup, loc>>
    BY <1>2, <1>3, <1>9
  <2>2. \A s, p : Settled(s, p, round + 1)' <=> Settled(s, p, round + 1)
    <3>1. PICK n : n = round + 1
      OBVIOUS
    <3>2. \A s, p : Settled(s, p, n)' <=> Settled(s, p, n)
      BY <2>1, SameSpots
    <3>3. n = round' + 1
      BY <1>2, <3>1
    <3>4. \A s, p : Settled(s, p, round + 1)' <=> Settled(s, p, n)'
      BY <3>3 DEF Settled, Seen, Elected
    <3>5. QED
      BY <3>1, <3>2, <3>4
  <2>3. Concluded /\ (~setup.nearest => round = 0)
    BY DEF NearInv
  <2>4. Concluded'
    BY <1>2, <2>2, <2>3 DEF Concluded
  <2>5. QED
    BY <1>2, <1>9, <2>3, <2>4 DEF NearInv, Carried, Moving, Searching
<1>10. QED
  BY <1>4, <1>5, <1>6, <1>7, <1>8, <1>9

\* The points left at each extension are the first ones of their rank.
Ordered == InOrder(setup, Nat)

LEMMA NearStep ==
  ASSUME LocatorInv, Theory!LoopInv, ContentInv, ReachInv, NearInv, Ordered, [Next]_vars
  PROVE  NearInv'
<1>1. CASE Flags \/ GatherExtents \/ LocationRanks \/ Located
  BY <1>1, NearFlags, NearGather, NearRanks, NearLocated DEF Ordered
<1>2. ASSUME NEW r \in Ranks, Enter(r) \/ Leave(r) \/ EndLoop(r)
      PROVE  NearInv'
  BY <1>2, NearEnter, NearLeave, NearEndLoop
<1>3. CASE UNCHANGED vars
  <2>1. UNCHANGED <<setup, plan, pass, left, stage, round, loc, todo, partners, interior,
                    local_ids, distants>>
    BY <1>3 DEF vars, lists
  <2>2. QED
    BY <2>1, NearSteady
<1>4. QED
  BY <1>1, <1>2, <1>3 DEF Next

LEMMA OrderedKept ==
  ASSUME Ordered, [Next]_vars
  PROVE  Ordered'
<1>1. UNCHANGED setup
  <2>1. CASE Flags \/ GatherExtents \/ LocationRanks \/ Located
    BY <2>1 DEF Flags, GatherExtents, LocationRanks, Located, Decide
  <2>2. ASSUME NEW r \in Ranks, Enter(r) \/ Leave(r) \/ EndLoop(r)
        PROVE  UNCHANGED setup
    BY <2>2 DEF Enter, Leave, EndLoop
  <2>3. CASE UNCHANGED vars
    BY <2>3 DEF vars
  <2>4. QED
    BY <2>1, <2>2, <2>3 DEF Next
<1>2. QED
  BY <1>1 DEF Ordered, InOrder, Reaches

\* Each point is located on the nearest of the elements within the first tolerance with
\* which there is one, on whatever rank of the other side that element is, and on none
\* without one: the answers of the ranks are compared as they come, and the locations of
\* a search are carried through the next ones, for any ranks, points, elements and
\* tolerances such that the points left at each extension are the first ones of their rank.
THEOREM NearestAlwaysFound == Spec /\ Ordered => []NearestFound
<1>1. Init => NearInv
  BY NearInit
<1>2. LocatorInv /\ Theory!LoopInv /\ ContentInv /\ ReachInv /\ NearInv /\ Ordered
        /\ [Next]_vars => NearInv'
  BY NearStep
<1>3. Ordered /\ [Next]_vars => Ordered'
  BY OrderedKept
<1>4. LocatorInv /\ ContentInv /\ ReachInv /\ NearInv => NearestFound
  BY NearFollows
<1>5. Theory!LoopSpec => []Theory!LoopInv
  BY Theory!LoopInvInductive, RanksAssumption
<1>6. QED
  BY <1>1, <1>2, <1>3, <1>4, <1>5, LocatorLoops, PlansAgree, ListsMatch, ReachKept, PTL
     DEF Spec
===============================================================================
