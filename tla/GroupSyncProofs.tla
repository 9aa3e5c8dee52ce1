---------------------------- MODULE GroupSyncProofs ----------------------------
(***************************************************************************)
(* Members that wait in the same exchange agree on the state of the set,   *)
(* for any number of applications, whatever they offer and whenever they   *)
(* come to call and to look at the result.                                 *)
(***************************************************************************)
EXTENDS GroupSync, TLAPS

\* The state of the set that a works with in its exchange, or will in its next one.
Coming(a) == IF out[a] # None THEN Mark(out[a])
             ELSE IF joined[a] # None THEN view[a]
             ELSE Mark(view[a])

\* A member that waits is synchronized and has read the previous vector; those that
\* are still synchronized go to the same exchange.
Waits == \A a \in Apps : joined[a] # None => out[a] = None /\ a \in Active(view[a])
SameComing == \A a, b \in Apps :
                a \in Active(Coming(a)) /\ b \in Active(Coming(b)) => Coming(a) = Coming(b)
\* The members that a is synchronized with come to the same exchange.
SameExchange == \A a, b \in Apps :
                  a \in Active(Coming(a)) /\ b \in Active(Coming(a)) => Coming(b) = Coming(a)
GroupInv == GroupTypeOK /\ Waits /\ SameComing /\ SameExchange

LEMMA MarkType ==
  ASSUME NEW s \in [Apps -> Values]
  PROVE  Mark(s) \in [Apps -> Values]
BY DEF Mark, MarkFlags, Values, Flag

\* Marking again changes nothing.
LEMMA MarkTwice ==
  ASSUME NEW s \in [Apps -> Values]
  PROVE  Mark(Mark(s)) = Mark(s)
<1>1. ASSUME NEW f \in SUBSET Flag
      PROVE  MarkFlags(MarkFlags(f)) = MarkFlags(f)
  BY DEF MarkFlags, LastSync, Flag
<1>2. \A b \in Apps : s[b].flags \in SUBSET Flag
  BY DEF Values
<1>3. \A b \in Apps : Mark(Mark(s))[b] = Mark(s)[b]
  BY <1>1, <1>2 DEF Mark
<1> QED
  BY <1>3 DEF Mark

LEMMA InitInv == GroupInit => GroupInv
<1> SUFFICES ASSUME GroupInit PROVE GroupInv
  OBVIOUS
<1>1. PICK s \in [Apps -> Starts] : view = [a \in Apps |-> s]
  BY DEF GroupInit
<1>2. s \in [Apps -> Values]
  BY <1>1, ValueAssumption
<1>3. GroupTypeOK
  BY <1>1, <1>2 DEF GroupInit, GroupTypeOK
<1>4. Waits
  BY DEF GroupInit, Waits
<1>5. SameComing
  BY <1>1 DEF GroupInit, SameComing, Coming
<1>6. SameExchange
  BY <1>1 DEF GroupInit, SameExchange, Coming
<1> QED
  BY <1>3, <1>4, <1>5, <1>6 DEF GroupInv

LEMMA JoinInv ==
  ASSUME GroupInv, NEW a \in Apps, NEW v \in Offers, Join(a, v)
  PROVE  GroupInv'
<1>1. v \in Values /\ v # None
  BY ValueAssumption, NoneAssumption
<1>2. view[a] \in [Apps -> Values]
  BY DEF GroupInv, GroupTypeOK
<1>3. GroupTypeOK'
  BY <1>1, <1>2, MarkType DEF GroupInv, GroupTypeOK, Join
<1>4. Waits'
  BY <1>1 DEF GroupInv, GroupTypeOK, Waits, Join
<1>5. \A c \in Apps : Coming(c)' = Coming(c)
  <2> TAKE c \in Apps
  <2>1. CASE c # a
    BY <2>1 DEF GroupInv, GroupTypeOK, Join, Coming
  <2>2. CASE c = a /\ a \in Active(Mark(view[a]))
    BY <1>1, <2>2 DEF GroupInv, GroupTypeOK, Join, Coming
  <2>3. CASE c = a /\ a \notin Active(Mark(view[a]))
    BY <1>2, <2>3, MarkTwice DEF GroupInv, GroupTypeOK, Join, Coming
  <2> QED
    BY <2>1, <2>2, <2>3
<1>6. SameComing'
  BY <1>5 DEF GroupInv, SameComing
<1>7. SameExchange'
  BY <1>5 DEF GroupInv, SameExchange
<1> QED
  BY <1>3, <1>4, <1>6, <1>7 DEF GroupInv

LEMMA DeliverInv ==
  ASSUME GroupInv, NEW a \in Apps, Deliver(a)
  PROVE  GroupInv'
<1>1. GroupTypeOK'
  BY DEF GroupInv, GroupTypeOK, Deliver
<1>2. joined[a] = None
  BY DEF GroupInv, Waits, Deliver
<1>3. Waits'
  BY <1>2 DEF GroupInv, GroupTypeOK, Waits, Deliver
<1>4. \A c \in Apps : Coming(c)' = Coming(c)
  BY <1>2 DEF GroupInv, GroupTypeOK, Deliver, Coming
<1>5. SameComing'
  BY <1>4 DEF GroupInv, SameComing
<1>6. SameExchange'
  BY <1>4 DEF GroupInv, SameExchange
<1> QED
  BY <1>1, <1>3, <1>5, <1>6 DEF GroupInv

\* Whoever is still synchronized, and not in the exchange that closes, would be in it.
LEMMA CloseInv ==
  ASSUME GroupInv, NEW S \in SUBSET Apps, Close(S)
  PROVE  GroupInv'
<1>1. PICK r \in S : out' = [a \in Apps |-> IF a \in S THEN Vector(S, r) ELSE out[a]]
  BY DEF Close
<1>2. /\ joined' = [a \in Apps |-> IF a \in S THEN None ELSE joined[a]]
      /\ view' = view /\ \A a \in S : joined[a] # None /\ Active(view[a]) = S
  BY DEF Close
<1>3. Vector(S, r) \in [Apps -> Values]
  BY <1>2 DEF GroupInv, GroupTypeOK, Vector
<1>4. Vector(S, r) # None
  BY <1>3, NoneAssumption
<1>5. GroupTypeOK'
  BY <1>1, <1>2, <1>3 DEF GroupInv, GroupTypeOK
<1>6. Waits'
  BY <1>1, <1>2 DEF GroupInv, GroupTypeOK, Waits
<1>7. \A c \in S : Coming(c)' = Mark(Vector(S, r))
  BY <1>1, <1>4 DEF Coming
<1>8. \A c \in Apps \ S : Coming(c)' = Coming(c)
  BY <1>1, <1>2 DEF Coming
<1>9. Coming(r) = view[r] /\ r \in Active(Coming(r))
  BY <1>2 DEF GroupInv, Waits, Coming
<1>10. \A c \in Apps \ S : c \notin Active(Coming(c))
  <2> SUFFICES ASSUME NEW c \in Apps \ S, c \in Active(Coming(c)) PROVE FALSE
    OBVIOUS
  <2>1. Coming(c) = Coming(r)
    BY <1>9 DEF GroupInv, SameComing
  <2>2. c \in Active(view[r])
    BY <1>9, <2>1
  <2> QED
    BY <1>2, <2>2
<1>11. \A c \in Apps : c \in Active(Coming(c)') => c \in S
  BY <1>8, <1>10
<1>12. SameComing'
  BY <1>7, <1>11 DEF SameComing, Active
<1>13. \A c \in Apps \ S : c \notin Active(Mark(Vector(S, r)))
  <2>1. ASSUME NEW c \in Apps \ S PROVE "NO_SYNC" \in Vector(S, r)[c].flags
    BY <1>2, <2>1 DEF Vector, Active
  <2> QED
    BY <2>1 DEF Active, Mark, MarkFlags, LastSync
<1>14. SameExchange'
  BY <1>7, <1>11, <1>13 DEF SameExchange
<1> QED
  BY <1>5, <1>6, <1>12, <1>14 DEF GroupInv

LEMMA StepInv == GroupInv /\ [GroupNext]_groupVars => GroupInv'
<1> SUFFICES ASSUME GroupInv, [GroupNext]_groupVars PROVE GroupInv'
  OBVIOUS
<1>1. CASE \E a \in Apps, v \in Offers : Join(a, v)
  BY <1>1, JoinInv
<1>2. CASE \E a \in Apps : Deliver(a)
  BY <1>2, DeliverInv
<1>3. CASE \E S \in SUBSET Apps : Close(S)
  BY <1>3, CloseInv
<1>4. CASE UNCHANGED groupVars
  BY <1>4 DEF GroupInv, GroupTypeOK, Waits, SameComing, SameExchange, Coming, groupVars
<1> QED
  BY <1>1, <1>2, <1>3, <1>4 DEF GroupNext

LEMMA InvHolds == GroupSpec => []GroupInv
BY InitInv, StepInv, PTL DEF GroupSpec

\* Members that wait agree.
LEMMA InvAgrees == GroupInv => Agreement
BY DEF GroupInv, Waits, SameComing, Coming, Agreement

\* Each member always holds one well-typed status of each application.
THEOREM GroupTyped == GroupSpec => []GroupTypeOK
<1>1. GroupInv => GroupTypeOK
  BY DEF GroupInv
<1> QED
  BY <1>1, InvHolds, PTL

\* Applications that wait in ple_coupling_mpi_set_synchronize hold the same statuses of
\* the whole set: they expect the same members and the same collecting application.
THEOREM MembersAgree == GroupSpec => []Agreement
BY InvHolds, InvAgrees, PTL
===============================================================================
