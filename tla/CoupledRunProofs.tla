---------------------------- MODULE CoupledRunProofs ---------------------------
(***************************************************************************)
(* Proofs about groups of coupled instances, for any number of them, any   *)
(* mix of uniform, fixed and ALE time steps and any limits given by users. *)
(***************************************************************************)
EXTENDS CoupledRun, GroupSyncProofs, FiniteSetTheorems, WellFoundedInduction

(***************************************************************************)
(* The exchanges, wherever the instances are in their loops.               *)
(***************************************************************************)

\* A member knows the time steps of the others, unless no exchange has taken place.
Stamped ==
  \A a, b \in Apps :
    /\ view[a][b].ts = 0 => (\A c \in Apps : view[a][c].flags \cap LastSync = {})
    /\ joined[a] # None => joined[a].ts # 0
    /\ out[a] # None => out[a][b].ts # 0

\* Nobody becomes unsynchronized by the exchange itself, but before the next one.
Kept ==
  \A a \in Apps :
    /\ joined[a] # None => "NO_SYNC" \notin joined[a].flags
    /\ out[a] # None => Active(out[a]) = Active(view[a])

OneRole(v) == ~({"TS_MIN", "TS_LEADER"} \subseteq v.flags)
Roles ==
  \A a, b \in Apps :
    /\ OneRole(view[a][b])
    /\ joined[a] # None => OneRole(joined[a])
    /\ out[a] # None => OneRole(out[a][b])

\* What a knows or is about to read; who is told that an instance stops.
Latest(a) == IF out[a] # None THEN out[a] ELSE view[a]
Told ==
  \A a, b \in Apps : Together(a, b) =>
    ("STOP" \in Latest(a)[b].flags <=> "STOP" \in Latest(b)[b].flags)

ExchangeInv == GroupInv /\ Stamped /\ Kept /\ Roles /\ Told

LEMMA MarkFacts ==
  ASSUME NEW s \in [Apps -> Values], NEW b \in Apps
  PROVE  /\ Mark(s)[b].ts = s[b].ts
         /\ "NO_SYNC" \in Mark(s)[b].flags <=> s[b].flags \cap LastSync # {}
         /\ \A f \in Flag \ {"INIT", "NO_SYNC"} :
              f \in Mark(s)[b].flags <=> f \in s[b].flags
         /\ Mark(s)[b].flags \cap LastSync = {} <=> s[b].flags \cap LastSync = {}
         /\ Active(Mark(s)) \subseteq Active(s)
<1>1. \A c \in Apps : s[c].flags \in SUBSET Flag
  BY DEF Values
<1>2. \A c \in Apps : Mark(s)[c] = [flags |-> MarkFlags(s[c].flags), ts |-> s[c].ts]
  BY DEF Mark
<1>3. ASSUME NEW f \in SUBSET Flag
      PROVE  /\ "NO_SYNC" \in MarkFlags(f) <=> f \cap LastSync # {}
             /\ \A x \in Flag \ {"INIT", "NO_SYNC"} : x \in MarkFlags(f) <=> x \in f
             /\ MarkFlags(f) \cap LastSync = {} <=> f \cap LastSync = {}
             /\ "NO_SYNC" \in f => "NO_SYNC" \in MarkFlags(f)
  BY DEF MarkFlags, LastSync, Flag
<1>4. ASSUME NEW c \in Apps
      PROVE  /\ Mark(s)[c].flags = MarkFlags(s[c].flags) /\ Mark(s)[c].ts = s[c].ts
             /\ "NO_SYNC" \in s[c].flags => "NO_SYNC" \in Mark(s)[c].flags
  <2>1. Mark(s)[c].flags = MarkFlags(s[c].flags) /\ Mark(s)[c].ts = s[c].ts
    <3>1. Mark(s)[c] = [flags |-> MarkFlags(s[c].flags), ts |-> s[c].ts]
      BY <1>2
    <3> QED
      BY <3>1
  <2> QED
    BY <2>1, <1>1, <1>3
<1>5. Active(Mark(s)) \subseteq Active(s)
  BY <1>4 DEF Active
<1>6. s[b].flags \in SUBSET Flag /\ Mark(s)[b].flags = MarkFlags(s[b].flags)
  BY <1>1, <1>4
<1>7. /\ "NO_SYNC" \in Mark(s)[b].flags <=> s[b].flags \cap LastSync # {}
      /\ \A f \in Flag \ {"INIT", "NO_SYNC"} : f \in Mark(s)[b].flags <=> f \in s[b].flags
      /\ Mark(s)[b].flags \cap LastSync = {} <=> s[b].flags \cap LastSync = {}
  BY <1>3, <1>6
<1>8. Mark(s)[b].ts = s[b].ts
  BY <1>4
<1> QED
  BY <1>5, <1>7, <1>8

\* What a call offers.
Offer(a, cur, max, step) == [flags |-> SyncFlags(a, cur, max), ts |-> step]

LEMMA OfferFacts ==
  ASSUME GroupTypeOK, NEW a \in Apps, NEW cur \in Int, NEW max \in Int,
         NEW step \in TimeSteps
  PROVE  /\ Offer(a, cur, max, step) \in Offers
         /\ Offer(a, cur, max, step) # None
         /\ Offer(a, cur, max, step).ts = step
         /\ a \in Active(Mark(view[a])) =>
              "NO_SYNC" \notin Offer(a, cur, max, step).flags
         /\ OneRole(view[a][a]) => OneRole(Offer(a, cur, max, step))
         /\ cur >= max => "STOP" \in Offer(a, cur, max, step).flags
<1>1. view[a] \in [Apps -> Values] /\ view[a][a].flags \in SUBSET Flag
  BY DEF GroupTypeOK, Values
<1>2. SyncFlags(a, cur, max) \in SUBSET Flag
  BY <1>1 DEF SyncFlags, Flag
<1>3. Offer(a, cur, max, step) \in Values
  BY <1>2 DEF Offer, Values
<1>4. ASSUME a \in Active(Mark(view[a])) PROVE "NO_SYNC" \notin view[a][a].flags
  BY <1>1, <1>4, MarkFacts DEF Active, LastSync
<1>5. a \in Active(Mark(view[a])) => "NO_SYNC" \notin SyncFlags(a, cur, max)
  BY <1>4 DEF SyncFlags
<1>6. \A f \in {"TS_MIN", "TS_LEADER"} : f \in SyncFlags(a, cur, max) => f \in view[a][a].flags
  BY DEF SyncFlags
<1>7. OneRole(view[a][a]) => OneRole(Offer(a, cur, max, step))
  BY <1>6 DEF OneRole, Offer
<1>8. cur >= max => "STOP" \in SyncFlags(a, cur, max)
  BY DEF SyncFlags
<1> QED
  BY <1>3, <1>5, <1>7, <1>8, OfferAssumption, NoneAssumption DEF Offer

LEMMA CallExchange ==
  ASSUME ExchangeInv, NEW a \in Apps, NEW cur \in Int, NEW max \in Int,
         NEW step \in TimeSteps \ {0}, Call(a, cur, max, step)
  PROVE  ExchangeInv'
<1> DEFINE v == Offer(a, cur, max, step)
<1>1. GroupTypeOK
  BY DEF ExchangeInv, GroupInv
<1>2. /\ v \in Offers /\ v # None /\ v.ts = step
      /\ a \in Active(Mark(view[a])) => "NO_SYNC" \notin v.flags
      /\ OneRole(view[a][a]) => OneRole(v)
  BY <1>1, OfferFacts
<1> HIDE DEF v
<1>3. Join(a, v)
  BY DEF Call, Offer, v
<1>4. GroupInv'
  BY <1>2, <1>3, JoinInv DEF ExchangeInv
<1>5. /\ joined[a] = None /\ out[a] = None /\ out' = out
      /\ view' = [view EXCEPT ![a] = Mark(view[a])]
      /\ joined' = joined \/ (a \in Active(Mark(view[a])) /\ joined' = [joined EXCEPT ![a] = v])
  BY <1>3 DEF Join
<1>6. /\ view \in [Apps -> [Apps -> Values]] /\ view[a] \in [Apps -> Values]
      /\ joined \in [Apps -> Values \cup {None}]
  BY <1>1 DEF GroupTypeOK
<1>7. /\ \A c \in Apps \ {a} : view'[c] = view[c] /\ joined'[c] = joined[c]
      /\ view'[a] = Mark(view[a])
      /\ joined'[a] # None => joined'[a] = v /\ a \in Active(Mark(view[a]))
  BY <1>5, <1>6
<1>8. Stamped'
  <2>1. \A b \in Apps : view'[a][b].ts = 0 =>
          (\A c \in Apps : view'[a][c].flags \cap LastSync = {})
    <3> SUFFICES ASSUME NEW b \in Apps, view'[a][b].ts = 0, NEW c \in Apps
                 PROVE  view'[a][c].flags \cap LastSync = {}
      OBVIOUS
    <3>1. view[a][b].ts = 0
      BY <1>6, <1>7, MarkFacts
    <3>2. view[a][c].flags \cap LastSync = {}
      BY <3>1 DEF ExchangeInv, Stamped
    <3> QED
      BY <3>2, <1>6, <1>7, MarkFacts
  <2> QED
    BY <2>1, <1>2, <1>5, <1>7 DEF ExchangeInv, Stamped
<1>9. Kept'
  BY <1>2, <1>5, <1>7 DEF ExchangeInv, Kept
<1>10. Roles'
  <2>1. \A b \in Apps : OneRole(view'[a][b])
    <3> TAKE b \in Apps
    <3>1. {"TS_MIN", "TS_LEADER"} \subseteq Flag \ {"INIT", "NO_SYNC"}
      BY DEF Flag
    <3>2. \A f \in {"TS_MIN", "TS_LEADER"} :
            f \in Mark(view[a])[b].flags => f \in view[a][b].flags
      BY <3>1, <1>6, MarkFacts
    <3>3. OneRole(view[a][b])
      BY DEF ExchangeInv, Roles
    <3> QED
      BY <3>2, <3>3, <1>7 DEF OneRole
  <2> QED
    BY <2>1, <1>2, <1>5, <1>7 DEF ExchangeInv, Roles
<1>11. Told'
  <2>1. \A c \in Apps : Active(view'[c]) \subseteq Active(view[c])
    BY <1>6, <1>7, MarkFacts
  <2>2. \A b, c \in Apps : Together(b, c)' => Together(b, c)
    BY <2>1 DEF Together
  <2>3. "STOP" \in Flag \ {"INIT", "NO_SYNC"}
    BY DEF Flag
  <2>4. \A b \in Apps : "STOP" \in Mark(view[a])[b].flags <=> "STOP" \in view[a][b].flags
    BY <1>6, <2>3, MarkFacts
  <2>5. \A c \in Apps \ {a} : Latest(c)' = Latest(c)
    BY <1>5, <1>7 DEF Latest
  <2>6. Latest(a)' = Mark(view[a]) /\ Latest(a) = view[a]
    BY <1>5, <1>7 DEF Latest
  <2>7. \A b, c \in Apps : "STOP" \in Latest(c)'[b].flags <=> "STOP" \in Latest(c)[b].flags
    BY <2>4, <2>5, <2>6
  <2> QED
    BY <2>2, <2>7 DEF ExchangeInv, Told
<1> QED
  BY <1>4, <1>8, <1>9, <1>10, <1>11 DEF ExchangeInv

LEMMA DeliverExchange ==
  ASSUME ExchangeInv, NEW a \in Apps, Deliver(a)
  PROVE  ExchangeInv'
<1>1. GroupInv'
  BY DeliverInv DEF ExchangeInv
<1>2. /\ view \in [Apps -> [Apps -> Values]] /\ out \in [Apps -> [Apps -> Values] \cup {None}]
  BY DEF ExchangeInv, GroupInv, GroupTypeOK
<1>3. /\ out[a] # None /\ joined' = joined
      /\ view'[a] = out[a] /\ out'[a] = None
      /\ \A c \in Apps \ {a} : view'[c] = view[c] /\ out'[c] = out[c]
  BY <1>2 DEF Deliver
<1>4. Stamped' /\ Roles'
  BY <1>3 DEF ExchangeInv, Stamped, Roles
<1>5. \A c \in Apps : Active(view'[c]) = Active(view[c]) /\ Latest(c)' = Latest(c)
  BY <1>3 DEF ExchangeInv, Kept, Latest
<1>6. Kept'
  BY <1>3, <1>5 DEF ExchangeInv, Kept
<1>7. Told'
  BY <1>5 DEF ExchangeInv, Told, Together
<1> QED
  BY <1>1, <1>4, <1>6, <1>7 DEF ExchangeInv

LEMMA CloseExchange ==
  ASSUME ExchangeInv, NEW S \in SUBSET Apps, Close(S)
  PROVE  ExchangeInv'
<1>1. GroupInv'
  BY CloseInv DEF ExchangeInv
<1>2. PICK r \in S : out' = [a \in Apps |-> IF a \in S THEN Vector(S, r) ELSE out[a]]
  BY DEF Close
<1> DEFINE V == Vector(S, r)
<1>3. /\ joined' = [a \in Apps |-> IF a \in S THEN None ELSE joined[a]]
      /\ view' = view /\ \A a \in S : joined[a] # None /\ Active(view[a]) = S
  BY DEF Close
<1>4. V \in [Apps -> Values] /\ V # None
  BY <1>3, NoneAssumption DEF ExchangeInv, GroupInv, GroupTypeOK, Vector
<1>5. \A b \in Apps : V[b] = IF b \in S THEN joined[b] ELSE view[r][b]
  BY DEF Vector
<1>6. /\ \A c \in S : out'[c] = V /\ joined'[c] = None
      /\ \A c \in Apps \ S : out'[c] = out[c] /\ joined'[c] = joined[c]
  BY <1>2, <1>3
<1>7. Active(view[r]) = S
  BY <1>3
<1> HIDE DEF V
<1>8. Stamped'
  <2>1. ASSUME NEW b \in Apps PROVE V[b].ts # 0
    <3>1. CASE b \in S
      BY <1>3, <1>5, <3>1 DEF ExchangeInv, Stamped
    <3>2. CASE b \notin S
      <4>1. "NO_SYNC" \in view[r][b].flags
        BY <1>7, <3>2 DEF Active
      <4>2. view[r][b].ts # 0
        BY <4>1 DEF ExchangeInv, Stamped, LastSync
      <4> QED
        BY <1>5, <3>2, <4>2
    <3> QED
      BY <3>1, <3>2
  <2>2. ASSUME NEW a \in Apps, NEW b \in Apps, out'[a] # None PROVE out'[a][b].ts # 0
    <3>1. CASE a \in S
      BY <2>1, <3>1, <1>6
    <3>2. CASE a \notin S
      BY <2>2, <3>2, <1>6 DEF ExchangeInv, Stamped
    <3> QED
      BY <3>1, <3>2
  <2>3. ASSUME NEW a \in Apps, joined'[a] # None PROVE joined'[a].ts # 0
    BY <2>3, <1>6 DEF ExchangeInv, Stamped
  <2>4. \A a, b \in Apps :
          view'[a][b].ts = 0 => (\A c \in Apps : view'[a][c].flags \cap LastSync = {})
    BY <1>3 DEF ExchangeInv, Stamped
  <2> QED
    BY <2>2, <2>3, <2>4 DEF Stamped
<1>9. Kept'
  <2>1. Active(V) = S
    BY <1>3, <1>5, <1>7 DEF ExchangeInv, Kept, Active
  <2> QED
    BY <2>1, <1>3, <1>6 DEF ExchangeInv, Kept
<1>10. Roles'
  <2>1. \A b \in Apps : OneRole(V[b])
    BY <1>3, <1>5 DEF ExchangeInv, Roles
  <2> QED
    BY <2>1, <1>3, <1>6 DEF ExchangeInv, Roles
<1>11. Told'
  <2> SUFFICES ASSUME NEW a \in Apps, NEW b \in Apps, Together(a, b)
               PROVE  "STOP" \in Latest(a)'[b].flags <=> "STOP" \in Latest(b)'[b].flags
    BY <1>3 DEF Told, Together
  <2>1. a \in S <=> b \in S
    BY <1>3 DEF Together
  <2>2. CASE a \in S
    BY <2>1, <2>2, <1>4, <1>6 DEF Latest
  <2>3. CASE a \notin S
    BY <2>1, <2>3, <1>3, <1>6 DEF ExchangeInv, Told, Latest
  <2> QED
    BY <2>2, <2>3
<1> QED
  BY <1>1, <1>8, <1>9, <1>10, <1>11 DEF ExchangeInv

LEMMA InitExchange == Init => ExchangeInv
<1> SUFFICES ASSUME Init PROVE ExchangeInv
  OBVIOUS
<1>1. GroupInv
  BY InitInv DEF Init
<1>2. /\ \A a \in Apps : view[a] = setup.start /\ joined[a] = None /\ out[a] = None
      /\ setup.start \in [Apps -> Starts]
  BY SetupAssumption DEF Init, GroupInit
<1>3. \A b \in Apps : setup.start[b].flags \cap LastSync = {} /\ OneRole(setup.start[b])
  BY <1>2, SynchronizedAssumption DEF OneRole
<1>4. Stamped /\ Kept /\ Roles /\ Told
  BY <1>2, <1>3 DEF Stamped, Kept, Roles, Told, Latest
<1> QED
  BY <1>1, <1>4 DEF ExchangeInv

(***************************************************************************)
(* Types, and where the instances are.                                     *)
(***************************************************************************)

Waiting == {"first", "early", "last", "final"}
Places == {"start", "first", "test", "init", "loop", "begun", "early", "step",
           "last", "save", "saving", "final"} \cup Over

LocalType ==
  /\ setup \in Setups /\ pc \in [Apps -> Places]
  /\ nt_cur \in [Apps -> 0 .. MaxSteps] /\ nt_max \in [Apps -> -1 .. MaxSteps]
  /\ dt \in [Apps -> TimeSteps \ {0}] /\ saved \in [Apps -> 0 .. MaxSteps]
  /\ asked \subseteq Apps /\ late \subseteq Apps /\ edits \in 0 .. MaxEdits

\* An instance takes part in an exchange within a call only; a call that takes part in
\* none is that of an instance that is no longer synchronized.
Waited ==
  \A a \in Apps :
    /\ joined[a] # None \/ out[a] # None => pc[a] \in Waiting \cup {"killed"}
    /\ pc[a] \in Waiting /\ joined[a] = None /\ out[a] = None => a \notin Active(view[a])

\* A step is begun below the limit, and the limit stays at the current step at least.
Placed ==
  \A a \in Apps :
    /\ pc[a] \in {"start", "first", "test", "init"} => nt_cur[a] = 0 /\ nt_max[a] >= 0
    /\ pc[a] = "loop" => nt_cur[a] < nt_max[a]
    /\ pc[a] \in {"begun", "early", "step", "last", "save", "saving", "final"} =>
         nt_cur[a] <= nt_max[a]
    /\ pc[a] = "init" => a \in setup.ale
    /\ pc[a] \in {"begun", "early", "final"} => a \in setup.uniform
    /\ pc[a] \in {"first", "last"} => a \notin setup.uniform

LocalInv == LocalType /\ Waited /\ Placed
RunInv == ExchangeInv /\ LocalInv

LEMMA LeastOf ==
  ASSUME NEW S, S \subseteq Nat, S # {}
  PROVE  Least(S) \in S /\ \A n \in S : Least(S) <= n
<1> DEFINE T == {0 .. n : n \in S}
<1>1. T \subseteq FiniteSubsetsOf(Nat) /\ T # {}
  <2>1. ASSUME NEW n \in S PROVE 0 .. n \in FiniteSubsetsOf(Nat)
    BY FS_Interval DEF FiniteSubsetsOf
  <2> QED
    BY <2>1
<1>2. IsWellFoundedOn(StrictSubsetOrdering(Nat), FiniteSubsetsOf(Nat))
  BY FS_StrictSubsetOrderingWellFounded
<1>3. PICK I \in T : \A J \in T : <<J, I>> \notin StrictSubsetOrdering(Nat)
  BY <1>1, <1>2, WFMin
<1>4. PICK m \in S : I = 0 .. m
  OBVIOUS
<1>5. ASSUME NEW n \in S, ~(m <= n) PROVE FALSE
  <2>1. 0 .. n \subseteq 0 .. m /\ 0 .. n # 0 .. m
    BY <1>5
  <2>2. <<0 .. n, 0 .. m>> \in StrictSubsetOrdering(Nat)
    BY <2>1 DEF StrictSubsetOrdering
  <2> QED
    BY <2>2, <1>3, <1>4
<1> QED
  BY <1>5 DEF Least

\* The new limit is the old one, the current step or the next.
LEMMA LimitFacts ==
  ASSUME NEW a \in Apps, NEW s, NEW cur \in Int, nt_max[a] \in Int
  PROVE  LET n == NewLimit(a, s, cur)
         IN /\ n \in {nt_max[a], cur, cur + 1} /\ n <= nt_max[a]
            /\ nt_max[a] >= cur => n >= cur
            /\ With(s, "STOP") # {} => n <= cur
<1> DEFINE S == {nt_max[a]} \cup {n \in {cur} : With(s, "STOP") # {}}
                            \cup {n \in {cur + 1} : With(s, "LAST") # {}}
<1>1. S \subseteq {nt_max[a], cur, cur + 1} /\ nt_max[a] \in S
      /\ (With(s, "STOP") # {} => cur \in S)
  OBVIOUS
<1>2. \E m \in S : \A n \in S : m <= n
  <2> HIDE DEF S
  <2>1. ASSUME NEW x \in Int, NEW y \in Int, NEW U, U \subseteq {x, y, y + 1}, x \in U
        PROVE  \E m \in U : \A n \in U : m <= n
    BY <2>1
  <2> QED
    BY <1>1, <2>1
<1>3. Least(S) \in S /\ \A n \in S : Least(S) <= n
  BY <1>2 DEF Least
<1>4. NewLimit(a, s, cur) = Least(S)
  BY DEF NewLimit
<1> QED
  BY <1>1, <1>3, <1>4

\* The new time step is one that an instance may have.
LEMMA StepType ==
  ASSUME NEW a \in Apps, NEW s \in [Apps -> Values], dt[a] \in TimeSteps \ {0},
         \A b \in Apps : s[b].ts # 0
  PROVE  NewStep(a, s) \in TimeSteps \ {0}
<1>1. \A b \in Apps : s[b].ts \in TimeSteps \ {0}
  BY DEF Values
<1>2. \A f : With(s, f) \subseteq Apps
  BY DEF With, Active
<1> DEFINE S == {dt[a]} \cup {s[b].ts : b \in With(s, "TS_MIN") \ With(s, "TS_LEADER")}
<1>3. S \subseteq TimeSteps \ {0} /\ S # {} /\ S \subseteq Nat
  BY <1>1, <1>2, StepAssumption
<1>4. Least(S) \in TimeSteps \ {0}
  BY <1>3, LeastOf
<1>5. With(s, "TS_LEADER") # {} =>
        s[CHOOSE b \in With(s, "TS_LEADER") : TRUE].ts \in TimeSteps \ {0}
  BY <1>1, <1>2
<1> QED
  BY <1>4, <1>5 DEF NewStep

LEMMA InitLocal == Init => LocalInv
<1> SUFFICES ASSUME Init PROVE LocalInv
  OBVIOUS
<1>1. LocalType
  BY SetupAssumption, BoundAssumption DEF Init, LocalType, Places
<1>2. Waited
  BY DEF Init, GroupInit, Waited, Waiting
<1>3. nt_max \in [Apps -> 0 .. MaxSteps]
  BY SetupAssumption DEF Init
<1>4. Placed
  <2>1. \A a \in Apps : pc[a] = "start" /\ nt_cur[a] = 0
    BY DEF Init
  <2>2. \A a \in Apps : nt_max[a] >= 0
    BY <1>3, BoundAssumption
  <2> QED
    BY <2>1, <2>2 DEF Placed
<1> QED
  BY <1>1, <1>2, <1>4 DEF LocalInv

\* An instance makes a call.
LEMMA CallWaits ==
  ASSUME RunInv, NEW a \in Apps, NEW cur \in Int, NEW max \in Int, NEW step \in TimeSteps,
         NEW p \in Waiting, Call(a, cur, max, step), pc' = [pc EXCEPT ![a] = p]
  PROVE  Waited'
<1>1. /\ GroupTypeOK /\ pc \in [Apps -> Places]
      /\ view \in [Apps -> [Apps -> Values]] /\ joined \in [Apps -> Values \cup {None}]
  BY DEF RunInv, ExchangeInv, GroupInv, GroupTypeOK, LocalInv, LocalType
<1>2. Join(a, Offer(a, cur, max, step)) /\ Offer(a, cur, max, step) # None
  BY <1>1, OfferFacts DEF Call, Offer
<1>3. /\ joined[a] = None /\ out[a] = None /\ out' = out
      /\ view'[a] = Mark(view[a])
      /\ \A c \in Apps \ {a} : view'[c] = view[c] /\ joined'[c] = joined[c] /\ pc'[c] = pc[c]
      /\ a \in Active(Mark(view[a])) => joined'[a] # None
      /\ pc'[a] = p
  BY <1>1, <1>2 DEF Join
<1> QED
  BY <1>3 DEF RunInv, LocalInv, Waited

\* A call that returns: what it is told, and what it makes of it.
LEMMA ReturnFacts ==
  ASSUME RunInv, NEW a \in Apps, pc[a] \in Waiting, NEW cur \in Int, NEW next \in Places,
         Return(a, cur, next)
  PROVE  /\ joined[a] = None
         /\ Known(a) \in [Apps -> Values] /\ \A b \in Apps : Known(a)[b].ts # 0
         /\ \/ out[a] # None /\ Deliver(a)
            \/ out[a] = None /\ a \notin Active(view[a]) /\ UNCHANGED groupVars
         /\ view'[a] = Known(a) /\ out'[a] = None /\ joined' = joined
         /\ \A c \in Apps \ {a} : view'[c] = view[c] /\ out'[c] = out[c]
         /\ NewStep(a, Known(a)) \in TimeSteps \ {0}
<1>1. /\ view \in [Apps -> [Apps -> Values]]
      /\ out \in [Apps -> [Apps -> Values] \cup {None}]
      /\ dt[a] \in TimeSteps \ {0}
  BY DEF RunInv, ExchangeInv, GroupInv, GroupTypeOK, LocalInv, LocalType
<1>2. joined[a] = None
  BY DEF Return, Answered
<1>3. Known(a) \in [Apps -> Values]
  BY <1>1 DEF Known
<1>4. \/ out[a] # None /\ Deliver(a)
      \/ out[a] = None /\ a \notin Active(view[a]) /\ UNCHANGED groupVars
  BY <1>2 DEF Return, RunInv, LocalInv, Waited
<1>5. /\ view'[a] = Known(a) /\ out'[a] = None /\ joined' = joined
      /\ \A c \in Apps \ {a} : view'[c] = view[c] /\ out'[c] = out[c]
  BY <1>1, <1>4 DEF Deliver, Known, groupVars
<1>6. \A b \in Apps : Known(a)[b].ts # 0
  <2>1. CASE out[a] # None
    BY <2>1 DEF RunInv, ExchangeInv, Stamped, Known
  <2>2. CASE out[a] = None
    <3>1. view[a][a].flags \cap LastSync # {}
      BY <1>4, <2>2 DEF Active, LastSync
    <3> QED
      BY <2>2, <3>1 DEF RunInv, ExchangeInv, Stamped, Known
  <2> QED
    BY <2>1, <2>2
<1>7. NewStep(a, Known(a)) \in TimeSteps \ {0}
  BY <1>1, <1>3, <1>6, StepType
<1> QED
  BY <1>2, <1>3, <1>4, <1>5, <1>6, <1>7

LEMMA ReturnWaits ==
  ASSUME RunInv, NEW a \in Apps, pc[a] \in Waiting, NEW cur \in Int,
         NEW next \in Places \ Waiting, Return(a, cur, next)
  PROVE  Waited'
<1>1. /\ joined[a] = None /\ out'[a] = None /\ joined' = joined
      /\ \A c \in Apps \ {a} : view'[c] = view[c] /\ out'[c] = out[c]
  BY ReturnFacts
<1>2. pc'[a] \notin Waiting /\ \A c \in Apps \ {a} : pc'[c] = pc[c]
  BY DEF Return, RunInv, LocalInv, LocalType, Waiting
<1> QED
  BY <1>1, <1>2 DEF RunInv, LocalInv, Waited

\* An instance goes on by itself.
LEMMA MoveWaits ==
  ASSUME RunInv, NEW a \in Apps, pc[a] \notin Waiting, NEW p \in Places \ Waiting,
         pc' = [pc EXCEPT ![a] = p], UNCHANGED groupVars, pc[a] # "killed"
  PROVE  Waited'
BY DEF RunInv, LocalInv, LocalType, Waited, groupVars

LEMMA StartLocal ==
  ASSUME RunInv, NEW a \in Apps, Start(a)
  PROVE  LocalInv'
<1>1. LocalType
  BY DEF RunInv, LocalInv
<1>2. PICK p \in {"init", "test", "first"} : pc' = [pc EXCEPT ![a] = p] /\
        IF p = "first" THEN a \notin setup.uniform /\ Call(a, nt_cur[a], nt_max[a], dt[a])
        ELSE (p = "init" => a \in setup.ale) /\ UNCHANGED groupVars
  BY DEF Start
<1>3. LocalType'
  BY <1>1, <1>2 DEF Start, LocalType, Places
<1>4. pc[a] = "start" /\ nt_cur[a] \in Int /\ nt_max[a] \in Int /\ dt[a] \in TimeSteps
  BY <1>1, BoundAssumption DEF Start, LocalType
<1>5. Waited'
  <2>1. CASE p = "first"
    BY <2>1, <1>2, <1>4, CallWaits DEF Waiting
  <2>2. CASE p # "first"
    BY <2>2, <1>2, <1>4, MoveWaits DEF Waiting, Places
  <2> QED
    BY <2>1, <2>2
<1>6. Placed'
  BY <1>1, <1>2, <1>4 DEF Start, RunInv, LocalInv, LocalType, Placed
<1> QED
  BY <1>3, <1>5, <1>6 DEF LocalInv

LEMMA TestStartLocal ==
  ASSUME RunInv, NEW a \in Apps, TestStart(a)
  PROVE  LocalInv'
<1>1. LocalType
  BY DEF RunInv, LocalInv
<1>2. PICK p \in {"aborted", "loop"} : pc' = [pc EXCEPT ![a] = p] /\
        (p = "loop" => nt_max[a] # nt_cur[a])
  BY DEF TestStart
<1>3. LocalType'
  BY <1>1, <1>2 DEF TestStart, LocalType, Places, Over
<1>4. Waited'
  BY <1>2, MoveWaits DEF TestStart, Waiting, Places, Over
<1>5. nt_cur[a] \in Int /\ nt_max[a] \in Int
  BY <1>1, BoundAssumption DEF LocalType
<1>6. Placed'
  BY <1>1, <1>2, <1>5 DEF TestStart, RunInv, LocalInv, LocalType, Placed
<1> QED
  BY <1>3, <1>4, <1>6 DEF LocalInv

LEMMA BeginStepLocal ==
  ASSUME RunInv, NEW a \in Apps, BeginStep(a)
  PROVE  LocalInv'
<1>1. LocalType
  BY DEF RunInv, LocalInv
<1> DEFINE cur == nt_cur[a] + (IF pc[a] = "loop" THEN 1 ELSE 0)
<1>2. PICK p \in {"begun", "step"} : pc' = [pc EXCEPT ![a] = p] /\
        (p = "begun" => a \in setup.uniform)
  BY DEF BeginStep
<1>3. pc[a] \in {"init", "loop"} /\ nt_cur' = [nt_cur EXCEPT ![a] = cur] /\ UNCHANGED groupVars
      /\ UNCHANGED <<setup, dt, saved>>
  BY DEF BeginStep
<1>4. nt_cur[a] \in 0 .. MaxSteps /\ nt_max[a] \in -1 .. MaxSteps
  BY <1>1 DEF LocalType
<1>5. cur \in 0 .. MaxSteps /\ cur <= nt_max[a]
  BY <1>3, <1>4, BoundAssumption DEF RunInv, LocalInv, Placed
<1> HIDE DEF cur
<1>6. PICK n \in -1 .. MaxSteps : nt_max' = [nt_max EXCEPT ![a] = n] /\ cur <= n
  <2>1. CASE UNCHANGED nt_max
    BY <2>1, <1>1, <1>4, <1>5 DEF LocalType
  <2>2. CASE ~UNCHANGED nt_max
    <3>1. PICK n \in 0 .. MaxSteps :
            nt_max' = [nt_max EXCEPT ![a] = IF n < cur THEN cur ELSE n]
      BY <2>2 DEF BeginStep, cur
    <3>2. (IF n < cur THEN cur ELSE n) \in -1 .. MaxSteps /\ cur <= IF n < cur THEN cur ELSE n
      BY <1>5, BoundAssumption
    <3> QED
      BY <3>1, <3>2
  <2> QED
    BY <2>1, <2>2
<1>7. asked' \subseteq Apps /\ late' \subseteq Apps /\ edits' \in 0 .. MaxEdits
  <2>1. CASE UNCHANGED <<nt_max, asked, late, edits>>
    BY <2>1, <1>1 DEF LocalType
  <2>2. CASE ~UNCHANGED <<nt_max, asked, late, edits>>
    <3>1. edits < MaxEdits /\ edits' = edits + 1
      BY <2>2 DEF BeginStep
    <3>2. PICK i \in 0 .. MaxSteps :
            /\ asked' = asked \cup {b \in {a} : i <= cur}
            /\ late' = late \cup {b \in {a} : i > nt_max[a] /\
                                    \E c \in Apps : "LAST" \in view[a][c].flags}
      BY <2>2 DEF BeginStep, cur
    <3>3. edits' \in 0 .. MaxEdits
      BY <3>1, <1>1, BoundAssumption DEF LocalType
    <3>4. asked' \subseteq Apps /\ late' \subseteq Apps
      BY <3>2, <1>1 DEF LocalType
    <3> QED
      BY <3>3, <3>4
  <2> QED
    BY <2>1, <2>2
<1>8. LocalType'
  BY <1>1, <1>2, <1>3, <1>5, <1>6, <1>7 DEF LocalType, Places
<1>9. Waited'
  BY <1>2, <1>3, MoveWaits DEF Waiting, Places
<1>10. Placed'
  BY <1>1, <1>2, <1>3, <1>5, <1>6 DEF RunInv, LocalInv, LocalType, Placed
<1> QED
  BY <1>8, <1>9, <1>10 DEF LocalInv

LEMMA UniformLocal ==
  ASSUME RunInv, NEW a \in Apps, Uniform(a)
  PROVE  LocalInv'
<1>1. LocalType
  BY DEF RunInv, LocalInv
<1>2. PICK t \in TimeSteps \ {0} : /\ dt' = [dt EXCEPT ![a] = t]
                                   /\ Call(a, nt_cur[a] - 1, nt_max[a], t)
  BY DEF Uniform
<1>3. /\ pc[a] = "begun" /\ pc' = [pc EXCEPT ![a] = "early"]
      /\ nt_cur[a] - 1 \in Int /\ nt_max[a] \in Int
  BY <1>1, BoundAssumption DEF Uniform, LocalType
<1>4. LocalType'
  BY <1>1, <1>2, <1>3 DEF Uniform, LocalType, Places
<1>5. Waited'
  BY <1>2, <1>3, CallWaits DEF Waiting
<1>6. Placed'
  BY <1>1, <1>3 DEF Uniform, RunInv, LocalInv, LocalType, Placed
<1> QED
  BY <1>4, <1>5, <1>6 DEF LocalInv

LEMMA EndStepLocal ==
  ASSUME RunInv, NEW a \in Apps, EndStep(a)
  PROVE  LocalInv'
<1>1. LocalType
  BY DEF RunInv, LocalInv
<1>2. PICK max \in {nt_max[a], nt_cur[a]} :
        /\ nt_max' = [nt_max EXCEPT ![a] = max]
        /\ \/ /\ pc' = [pc EXCEPT ![a] = "save"] /\ UNCHANGED groupVars
           \/ /\ pc' = [pc EXCEPT ![a] = "last"] /\ a \notin setup.uniform
              /\ Call(a, nt_cur[a], max, dt[a])
  BY DEF EndStep
<1>3. /\ pc[a] = "step" /\ nt_cur[a] \in 0 .. MaxSteps /\ nt_max[a] \in -1 .. MaxSteps
      /\ dt[a] \in TimeSteps /\ nt_cur[a] <= nt_max[a]
  BY <1>1 DEF EndStep, LocalType, RunInv, LocalInv, Placed
<1>4. max \in -1 .. MaxSteps /\ nt_cur[a] <= max /\ nt_cur[a] \in Int /\ max \in Int
  BY <1>3, BoundAssumption
<1>5. LocalType'
  BY <1>1, <1>2, <1>4 DEF EndStep, LocalType, Places
<1>6. Waited'
  BY <1>2, <1>3, <1>4, CallWaits, MoveWaits DEF Waiting, Places
<1>7. Placed'
  BY <1>1, <1>2, <1>3, <1>4 DEF EndStep, RunInv, LocalInv, LocalType, Placed
<1> QED
  BY <1>5, <1>6, <1>7 DEF LocalInv

\* The return of a call, wherever it was made from.
LEMMA ReturnLocal ==
  ASSUME RunInv, NEW a \in Apps, pc[a] \in Waiting, NEW cur \in Int,
         -1 <= cur, cur <= nt_max[a], NEW next \in Places \ Waiting, Return(a, cur, next)
  PROVE  /\ LocalType' /\ Waited' /\ UNCHANGED nt_cur
         /\ \/ pc' = [pc EXCEPT ![a] = "aborted"] /\ UNCHANGED nt_max
            \/ \E n \in -1 .. MaxSteps :
                 /\ pc' = [pc EXCEPT ![a] = next] /\ nt_max' = [nt_max EXCEPT ![a] = n]
                 /\ n = NewLimit(a, Known(a), cur) /\ n >= cur
<1>1. LocalType
  BY DEF RunInv, LocalInv
<1>2. nt_max[a] \in -1 .. MaxSteps /\ nt_max[a] \in Int
  BY <1>1, BoundAssumption DEF LocalType
<1> DEFINE n == NewLimit(a, Known(a), cur)
<1>3. n \in -1 .. MaxSteps /\ n >= cur
  <2>1. n \in {nt_max[a], cur, cur + 1} /\ n <= nt_max[a] /\ n >= cur
    BY <1>2, LimitFacts
  <2> QED
    BY <2>1, <1>2, BoundAssumption
<1>4. NewStep(a, Known(a)) \in TimeSteps \ {0}
  BY ReturnFacts
<1>5. Waited'
  BY ReturnWaits
<1>6. UNCHANGED <<setup, nt_cur, saved, asked, late, edits>>
  BY DEF Return
<1>7. CASE Refused(Known(a))
  <2>1. pc' = [pc EXCEPT ![a] = "aborted"] /\ UNCHANGED <<nt_max, dt>>
    BY <1>7 DEF Return
  <2> QED
    BY <2>1, <1>1, <1>5, <1>6 DEF LocalType, Places, Over
<1>8. CASE ~Refused(Known(a))
  <2>1. /\ pc' = [pc EXCEPT ![a] = next] /\ nt_max' = [nt_max EXCEPT ![a] = n]
        /\ dt' = [dt EXCEPT ![a] = NewStep(a, Known(a))]
    BY <1>8 DEF Return
  <2> HIDE DEF n
  <2>2. LocalType'
    BY <2>1, <1>1, <1>3, <1>4, <1>6 DEF LocalType
  <2> QED
    BY <2>1, <2>2, <1>3, <1>5, <1>6 DEF n
<1> QED
  BY <1>7, <1>8

LEMMA FirstReturnLocal ==
  ASSUME RunInv, NEW a \in Apps, FirstReturn(a)
  PROVE  LocalInv'
<1>1. /\ pc[a] = "first" /\ Return(a, nt_cur[a], "test") /\ nt_cur[a] = 0 /\ nt_max[a] >= 0
      /\ LocalType
  BY DEF FirstReturn, RunInv, LocalInv, Placed
<1>2. /\ LocalType' /\ Waited' /\ UNCHANGED nt_cur
      /\ \/ pc' = [pc EXCEPT ![a] = "aborted"] /\ UNCHANGED nt_max
         \/ \E n \in -1 .. MaxSteps :
              /\ pc' = [pc EXCEPT ![a] = "test"] /\ nt_max' = [nt_max EXCEPT ![a] = n]
              /\ n >= 0
  BY <1>1, ReturnLocal DEF Places, Waiting
<1>3. UNCHANGED setup
  BY <1>1 DEF Return
<1>4. Placed'
  BY <1>1, <1>2, <1>3 DEF RunInv, LocalInv, LocalType, Placed
<1> QED
  BY <1>2, <1>4 DEF LocalInv

LEMMA UniformReturnLocal ==
  ASSUME RunInv, NEW a \in Apps, UniformReturn(a)
  PROVE  LocalInv'
<1> DEFINE cur == nt_cur[a] - 1
           next == IF NewLimit(a, Known(a), cur) < nt_cur[a] THEN "aborted" ELSE "step"
<1>1. /\ pc[a] = "early" /\ Return(a, cur, next) /\ LocalType /\ nt_cur[a] <= nt_max[a]
  BY DEF UniformReturn, RunInv, LocalInv, Placed
<1>2. nt_cur[a] \in 0 .. MaxSteps /\ nt_max[a] \in -1 .. MaxSteps
  BY <1>1 DEF LocalType
<1>3. cur \in Int /\ -1 <= cur /\ cur <= nt_max[a]
  BY <1>1, <1>2, BoundAssumption
<1>4. next \in Places \ Waiting /\ pc[a] \in Waiting
  BY <1>1 DEF Places, Waiting, Over
<1> HIDE DEF cur, next
<1>5. /\ LocalType' /\ Waited' /\ UNCHANGED nt_cur
      /\ \/ pc' = [pc EXCEPT ![a] = "aborted"] /\ UNCHANGED nt_max
         \/ \E n \in -1 .. MaxSteps :
              /\ pc' = [pc EXCEPT ![a] = next] /\ nt_max' = [nt_max EXCEPT ![a] = n]
              /\ n = NewLimit(a, Known(a), cur)
  BY <1>1, <1>3, <1>4, ReturnLocal
<1>6. CASE pc' = [pc EXCEPT ![a] = "aborted"] /\ UNCHANGED nt_max
  <2>1. Placed'
    BY <1>1, <1>5, <1>6 DEF Return, RunInv, LocalInv, LocalType, Placed
  <2> QED
    BY <2>1, <1>5 DEF LocalInv
<1>7. ASSUME NEW n \in -1 .. MaxSteps, pc' = [pc EXCEPT ![a] = next],
             nt_max' = [nt_max EXCEPT ![a] = n], n = NewLimit(a, Known(a), cur)
      PROVE  LocalInv'
  <2>1. next = "aborted" \/ (next = "step" /\ n >= nt_cur[a])
    BY <1>2, <1>7, BoundAssumption DEF next
  <2>2. Placed'
    BY <2>1, <1>1, <1>5, <1>7 DEF Return, RunInv, LocalInv, LocalType, Placed
  <2> QED
    BY <2>2, <1>5 DEF LocalInv
<1> QED
  BY <1>5, <1>6, <1>7

LEMMA LastReturnsLocal ==
  ASSUME RunInv, NEW a \in Apps, StepReturn(a) \/ FinalReturn(a)
  PROVE  LocalInv'
<1>1. PICK next \in {"save", "ended"} : Return(a, nt_cur[a], next)
  BY DEF StepReturn, FinalReturn
<1>2. /\ pc[a] \in {"last", "final"} /\ LocalType /\ nt_cur[a] <= nt_max[a]
  BY DEF StepReturn, FinalReturn, RunInv, LocalInv, Placed
<1>3. nt_cur[a] \in Int /\ -1 <= nt_cur[a]
  BY <1>2, BoundAssumption DEF LocalType
<1>4. next \in Places \ Waiting /\ pc[a] \in Waiting
  BY <1>2 DEF Places, Waiting, Over
<1>5. /\ LocalType' /\ Waited' /\ UNCHANGED nt_cur
      /\ \/ pc' = [pc EXCEPT ![a] = "aborted"] /\ UNCHANGED nt_max
         \/ \E n \in -1 .. MaxSteps :
              /\ pc' = [pc EXCEPT ![a] = next] /\ nt_max' = [nt_max EXCEPT ![a] = n]
              /\ n >= nt_cur[a]
  BY <1>1, <1>2, <1>3, <1>4, ReturnLocal
<1>6. UNCHANGED setup
  BY <1>1 DEF Return
<1>7. Placed'
  BY <1>2, <1>5, <1>6 DEF RunInv, LocalInv, LocalType, Placed
<1> QED
  BY <1>5, <1>7 DEF LocalInv

\* After the test of the checkpoint, or the checkpoint: the loop goes on or ends.
LEMMA FinishLocal ==
  ASSUME RunInv, NEW a \in Apps, pc[a] \in {"save", "saving"}, Finish(a),
         UNCHANGED <<setup, nt_cur, nt_max, dt, asked, late, edits>>,
         saved' \in [Apps -> 0 .. MaxSteps]
  PROVE  LocalInv'
<1>1. LocalType
  BY DEF RunInv, LocalInv
<1>2. /\ nt_cur[a] \in 0 .. MaxSteps /\ nt_max[a] \in -1 .. MaxSteps /\ nt_cur[a] <= nt_max[a]
      /\ nt_cur[a] \in Int /\ nt_max[a] \in Int
  BY <1>1, BoundAssumption DEF LocalType, RunInv, LocalInv, Placed
<1>3. PICK p \in {"loop", "final", "ended"} :
        /\ pc' = [pc EXCEPT ![a] = p]
        /\ p = "loop" => nt_cur[a] < nt_max[a]
        /\ p # "loop" => ~(nt_cur[a] < nt_max[a])
        /\ p = "final" => a \in setup.uniform /\
             \E t \in TimeSteps \ {0} : Call(a, nt_cur[a], nt_max[a], t)
        /\ p # "final" => UNCHANGED groupVars
  BY DEF Finish, GoesOn
<1>4. LocalType'
  BY <1>1, <1>3 DEF LocalType, Places, Over
<1>5. Waited'
  <2>1. CASE p = "final"
    BY <2>1, <1>2, <1>3, CallWaits DEF Waiting
  <2>2. CASE p # "final"
    BY <2>2, <1>3, MoveWaits DEF Waiting, Places, Over
  <2> QED
    BY <2>1, <2>2
<1>6. Placed'
  BY <1>1, <1>2, <1>3 DEF RunInv, LocalInv, LocalType, Placed
<1> QED
  BY <1>4, <1>5, <1>6 DEF LocalInv

LEMMA CheckpointLocal ==
  ASSUME RunInv, NEW a \in Apps, TestCheckpoint(a) \/ Save(a)
  PROVE  LocalInv'
<1>1. LocalType
  BY DEF RunInv, LocalInv
<1>2. CASE Save(a)
  <2>1. saved' \in [Apps -> 0 .. MaxSteps]
    BY <1>1, <1>2 DEF Save, LocalType
  <2> QED
    BY <2>1, <1>2, FinishLocal DEF Save
<1>3. CASE TestCheckpoint(a) /\ ~CheckpointDue(a)
  <2>1. saved' \in [Apps -> 0 .. MaxSteps]
    BY <1>1, <1>3 DEF TestCheckpoint, LocalType
  <2> QED
    BY <2>1, <1>3, FinishLocal DEF TestCheckpoint
<1>4. CASE TestCheckpoint(a) /\ CheckpointDue(a)
  <2>1. pc[a] = "save" /\ pc' = [pc EXCEPT ![a] = "saving"] /\ UNCHANGED groupVars
        /\ UNCHANGED <<setup, nt_cur, nt_max, dt, saved, asked, late, edits>>
    BY <1>4 DEF TestCheckpoint
  <2>2. LocalType'
    BY <1>1, <2>1 DEF LocalType, Places
  <2>3. Waited'
    BY <2>1, MoveWaits DEF Waiting, Places
  <2>4. Placed'
    BY <1>1, <2>1 DEF RunInv, LocalInv, LocalType, Placed
  <2> QED
    BY <2>2, <2>3, <2>4 DEF LocalInv
<1> QED
  BY <1>2, <1>3, <1>4

LEMMA ExchangeLocal ==
  ASSUME RunInv, Exchange
  PROVE  LocalInv'
<1>1. PICK S \in SUBSET Apps : Close(S)
  BY DEF Exchange
<1>2. UNCHANGED <<setup, pc, nt_cur, nt_max, dt, saved, asked, late, edits>>
  BY DEF Exchange
<1>3. LocalType' /\ Placed'
  BY <1>2 DEF RunInv, LocalInv, LocalType, Placed
<1>4. PICK r \in S : out' = [a \in Apps |-> IF a \in S THEN Vector(S, r) ELSE out[a]]
  BY <1>1 DEF Close
<1>5. Vector(S, r) # None
  <2>1. Vector(S, r) \in [Apps -> Values]
    BY <1>1 DEF Close, Vector, RunInv, ExchangeInv, GroupInv, GroupTypeOK
  <2> QED
    BY <2>1, NoneAssumption
<1>6. /\ \A a \in S : joined[a] # None /\ out'[a] # None
      /\ \A a \in Apps \ S : joined'[a] = joined[a] /\ out'[a] = out[a]
      /\ view' = view
  BY <1>1, <1>4, <1>5 DEF Close
<1>7. Waited'
  BY <1>2, <1>6 DEF RunInv, LocalInv, Waited
<1> QED
  BY <1>3, <1>7 DEF LocalInv

LEMMA KilledLocal ==
  ASSUME RunInv, NEW a \in Apps, Killed(a)
  PROVE  LocalInv'
<1>1. pc' = [pc EXCEPT ![a] = "killed"] /\ UNCHANGED groupVars
      /\ UNCHANGED <<setup, nt_cur, nt_max, dt, saved, asked, late, edits>>
  BY DEF Killed
<1>2. LocalType'
  BY <1>1 DEF RunInv, LocalInv, LocalType, Places, Over
<1>3. Waited'
  BY <1>1 DEF RunInv, LocalInv, LocalType, Waited, Waiting, groupVars
<1>4. Placed'
  BY <1>1 DEF RunInv, LocalInv, LocalType, Placed
<1> QED
  BY <1>2, <1>3, <1>4 DEF LocalInv

\* A step of an instance makes a call, reads the result of one, or neither.
LEMMA ExchangeStep ==
  ASSUME RunInv, [Next]_vars
  PROVE  ExchangeInv' /\ [GroupNext]_groupVars
<1>1. /\ ExchangeInv /\ GroupTypeOK /\ nt_cur \in [Apps -> Int] /\ nt_max \in [Apps -> Int]
      /\ dt \in [Apps -> TimeSteps \ {0}]
  BY BoundAssumption DEF RunInv, ExchangeInv, GroupInv, LocalInv, LocalType
<1>2. ASSUME NEW a \in Apps, NEW cur \in Int, NEW max \in Int, NEW step \in TimeSteps \ {0},
             Call(a, cur, max, step)
      PROVE  ExchangeInv' /\ GroupNext
  <2>1. Join(a, Offer(a, cur, max, step)) /\ Offer(a, cur, max, step) \in Offers
    BY <1>1, <1>2, OfferFacts DEF Call, Offer
  <2> QED
    BY <2>1, <1>1, <1>2, CallExchange DEF GroupNext
<1>3. ASSUME NEW a \in Apps, Deliver(a) PROVE ExchangeInv' /\ GroupNext
  BY <1>1, <1>3, DeliverExchange DEF GroupNext
<1>4. ASSUME NEW S \in SUBSET Apps, Close(S) PROVE ExchangeInv' /\ GroupNext
  BY <1>1, <1>4, CloseExchange DEF GroupNext
<1>5. CASE UNCHANGED groupVars
  <2>1. GroupInv'
    BY <1>1, <1>5, StepInv DEF ExchangeInv
  <2> QED
    BY <1>1, <1>5, <2>1 DEF groupVars, ExchangeInv, Stamped, Kept, Roles, Told, Together, Latest
<1>6. ASSUME NEW a \in Apps, Finish(a)
      PROVE  \/ UNCHANGED groupVars
             \/ \E t \in TimeSteps \ {0} : Call(a, nt_cur[a], nt_max[a], t)
  BY <1>6 DEF Finish
<1>7. ASSUME NEW a \in Apps, Step(a) PROVE ExchangeInv' /\ [GroupNext]_groupVars
  <2>1. CASE Start(a)
    BY <2>1, <1>1, <1>2, <1>5 DEF Start
  <2>2. CASE FirstReturn(a) \/ UniformReturn(a) \/ StepReturn(a) \/ FinalReturn(a)
    <3>1. Deliver(a) \/ UNCHANGED groupVars
      BY <2>2 DEF FirstReturn, UniformReturn, StepReturn, FinalReturn, Return
    <3> QED
      BY <3>1, <1>3, <1>5
  <2>3. CASE TestStart(a) \/ BeginStep(a)
    BY <2>3, <1>5 DEF TestStart, BeginStep
  <2>4. CASE Uniform(a)
    <3>1. nt_cur[a] - 1 \in Int /\ nt_max[a] \in Int
      BY <1>1
    <3> QED
      BY <2>4, <3>1, <1>2 DEF Uniform
  <2>5. CASE EndStep(a)
    <3>1. PICK max \in {nt_max[a], nt_cur[a]} :
            UNCHANGED groupVars \/ Call(a, nt_cur[a], max, dt[a])
      BY <2>5 DEF EndStep
    <3>2. nt_cur[a] \in Int /\ max \in Int /\ dt[a] \in TimeSteps \ {0}
      BY <1>1
    <3> QED
      BY <3>1, <3>2, <1>2, <1>5
  <2>6. CASE TestCheckpoint(a) \/ Save(a)
    <3>1. \/ UNCHANGED groupVars
          \/ \E t \in TimeSteps \ {0} : Call(a, nt_cur[a], nt_max[a], t)
      BY <2>6, <1>6 DEF TestCheckpoint, Save
    <3>2. nt_cur[a] \in Int /\ nt_max[a] \in Int
      BY <1>1
    <3> QED
      BY <3>1, <3>2, <1>2, <1>5
  <2> QED
    BY <1>7, <2>1, <2>2, <2>3, <2>4, <2>5, <2>6 DEF Step
<1>8. CASE Exchange
  BY <1>8, <1>4 DEF Exchange
<1>9. ASSUME NEW a \in Apps, Killed(a) PROVE ExchangeInv' /\ [GroupNext]_groupVars
  BY <1>5, <1>9 DEF Killed
<1>10. CASE UNCHANGED vars
  BY <1>5, <1>10 DEF vars, groupVars
<1> QED
  BY <1>7, <1>8, <1>9, <1>10 DEF Next

LEMMA LocalStep ==
  ASSUME RunInv, [Next]_vars
  PROVE  LocalInv'
<1>1. ASSUME NEW a \in Apps, Step(a) PROVE LocalInv'
  BY <1>1, StartLocal, FirstReturnLocal, TestStartLocal, BeginStepLocal, UniformLocal,
     UniformReturnLocal, EndStepLocal, LastReturnsLocal, CheckpointLocal DEF Step
<1>2. CASE UNCHANGED vars
  BY <1>2 DEF vars, RunInv, LocalInv, LocalType, Waited, Placed
<1> QED
  BY <1>1, <1>2, ExchangeLocal, KilledLocal DEF Next

LEMMA RunHolds == Spec => []RunInv
<1>1. Init => RunInv
  BY InitExchange, InitLocal DEF RunInv
<1>2. RunInv /\ [Next]_vars => RunInv'
  BY ExchangeStep, LocalStep DEF RunInv
<1> QED
  BY <1>1, <1>2, PTL DEF Spec

\* Every variable of a group of coupled instances keeps its type: the limits that the
\* instances give each other in cs_coupling_sync_apps never take a step past its limit.
THEOREM CoupledTyped == Spec => []TypeOK
<1>1. RunInv => TypeOK
  BY DEF RunInv, ExchangeInv, GroupInv, LocalInv, LocalType, TypeOK, Places
<1> QED
  BY <1>1, RunHolds, PTL

\* The time loops use the exchange as it is meant to be used: whatever the instances do,
\* their calls of ple_coupling_mpi_set_synchronize are a behaviour of GroupSync.
THEOREM LoopsSynchronize == Spec => GroupSpec
<1>1. Init => GroupInit
  BY DEF Init
<1>2. RunInv /\ [Next]_vars => [GroupNext]_groupVars
  BY ExchangeStep
<1> QED
  BY <1>1, <1>2, RunHolds, PTL DEF Spec, GroupSpec

\* Instances that wait for the same exchange agree on the state of the whole set.
THEOREM InstancesAgree == Spec => []Agreement
BY LoopsSynchronize, MembersAgree, PTL

(***************************************************************************)
(* The time step.                                                          *)
(***************************************************************************)

\* The time step that follows from what a knows, if it offered its own.
Smallest(s) == With(s, "TS_MIN") \ With(s, "TS_LEADER")
Agreed(a, s) ==
  IF "TS_MIN" \in s[a].flags THEN Least({s[b].ts : b \in Smallest(s)})
  ELSE IF With(s, "TS_LEADER") # {} THEN s[CHOOSE b \in With(s, "TS_LEADER") : TRUE].ts
  ELSE s[a].ts

\* An instance offers the time step it has, and between two calls has the one that
\* follows from the last exchange.  The call after the loop no longer matters.
Offering == {"first", "early", "last"}
StepsAgreed ==
  \A a \in Apps :
    /\ pc[a] \in Offering /\ joined[a] # None => joined[a].ts = dt[a]
    /\ pc[a] \in Offering /\ out[a] # None => out[a][a].ts = dt[a]
    /\ pc[a] \notin Waiting \cup Over /\ a \in With(view[a], "NEW") =>
         dt[a] = Agreed(a, view[a])

LEMMA AgreedCall ==
  ASSUME RunInv, StepsAgreed, NEW a \in Apps, NEW cur \in Int, NEW max \in Int,
         NEW step \in TimeSteps, NEW p \in Waiting, Call(a, cur, max, step),
         pc' = [pc EXCEPT ![a] = p], p = "final" \/ dt'[a] = step,
         \A c \in Apps \ {a} : dt'[c] = dt[c]
  PROVE  StepsAgreed'
<1>1. /\ GroupTypeOK /\ pc \in [Apps -> Places]
      /\ view \in [Apps -> [Apps -> Values]] /\ joined \in [Apps -> Values \cup {None}]
  BY DEF RunInv, ExchangeInv, GroupInv, GroupTypeOK, LocalInv, LocalType
<1>2. Join(a, Offer(a, cur, max, step)) /\ Offer(a, cur, max, step).ts = step
  BY <1>1, OfferFacts DEF Call, Offer
<1>3. /\ joined[a] = None /\ out[a] = None /\ out' = out
      /\ \A c \in Apps \ {a} : view'[c] = view[c] /\ joined'[c] = joined[c] /\ pc'[c] = pc[c]
      /\ joined'[a] = None \/ joined'[a].ts = step
      /\ pc'[a] = p
  BY <1>1, <1>2 DEF Join
<1> QED
  BY <1>3 DEF StepsAgreed, Offering, Waiting

LEMMA AgreedReturn ==
  ASSUME RunInv, StepsAgreed, NEW a \in Apps, pc[a] \in Waiting, NEW cur \in Int,
         NEW next \in Places \ Waiting, pc[a] = "final" => next \in Over,
         Return(a, cur, next)
  PROVE  StepsAgreed'
<1> DEFINE K == Known(a)
<1>1. /\ joined[a] = None /\ K \in [Apps -> Values]
      /\ out[a] # None \/ (a \notin Active(view[a]) /\ K = view[a])
      /\ view'[a] = K /\ out'[a] = None /\ joined' = joined
      /\ \A c \in Apps \ {a} : view'[c] = view[c] /\ out'[c] = out[c]
  BY ReturnFacts DEF Known
<1>2. /\ pc \in [Apps -> Places] /\ dt \in [Apps -> TimeSteps \ {0}]
  BY DEF RunInv, LocalInv, LocalType
<1>3. \A c \in Apps \ {a} : pc'[c] = pc[c] /\ dt'[c] = dt[c]
  BY <1>2 DEF Return
<1>4. \/ pc'[a] = "aborted"
      \/ pc'[a] = next /\ dt'[a] = NewStep(a, K)
  BY <1>2 DEF Return
<1>5. ASSUME pc'[a] \notin Waiting \cup Over, a \in With(K, "NEW")
      PROVE  dt'[a] = Agreed(a, K)
  <2>1. pc[a] \in Offering /\ dt'[a] = NewStep(a, K)
    BY <1>4, <1>5 DEF Waiting, Offering, Over
  <2>2. a \in Active(K) /\ out[a] # None /\ K = out[a]
    BY <1>1, <1>5 DEF With, Known
  <2>3. K[a].ts = dt[a] /\ OneRole(K[a])
    BY <2>1, <2>2 DEF StepsAgreed, RunInv, ExchangeInv, Roles
  <2>4. CASE "TS_MIN" \in K[a].flags
    <3>1. a \in Smallest(K)
      BY <2>2, <2>3, <2>4 DEF OneRole, Smallest, With
    <3>2. {dt[a]} \cup {K[b].ts : b \in Smallest(K)} = {K[b].ts : b \in Smallest(K)}
      BY <2>3, <3>1
    <3> QED
      BY <2>1, <2>4, <3>2 DEF NewStep, Agreed, Smallest
  <2>5. CASE "TS_MIN" \notin K[a].flags
    BY <2>1, <2>3, <2>5 DEF NewStep, Agreed
  <2> QED
    BY <2>4, <2>5
<1>6. pc'[a] \notin Offering
  BY <1>4 DEF Offering, Waiting
<1> HIDE DEF K
<1> QED
  BY <1>1, <1>3, <1>5, <1>6 DEF StepsAgreed

LEMMA AgreedMove ==
  ASSUME RunInv, StepsAgreed, NEW a \in Apps, NEW p \in Places \ Waiting,
         pc' = [pc EXCEPT ![a] = p], p \in Over \/ pc[a] \notin Waiting \cup Over,
         UNCHANGED <<groupVars, dt>>
  PROVE  StepsAgreed'
<1>1. pc \in [Apps -> Places]
  BY DEF RunInv, LocalInv, LocalType
<1>2. UNCHANGED <<view, joined, out, dt>>
  BY DEF groupVars
<1>3. pc'[a] = p /\ \A c \in Apps \ {a} : pc'[c] = pc[c]
  BY <1>1
<1>4. p \notin Offering
  BY DEF Offering, Waiting
<1> QED
  BY <1>2, <1>3, <1>4 DEF StepsAgreed

LEMMA AgreedExchange ==
  ASSUME RunInv, StepsAgreed, Exchange
  PROVE  StepsAgreed'
<1>1. PICK S \in SUBSET Apps : Close(S)
  BY DEF Exchange
<1>2. PICK r \in S : out' = [a \in Apps |-> IF a \in S THEN Vector(S, r) ELSE out[a]]
  BY <1>1 DEF Close
<1>3. /\ \A a \in S : joined[a] # None /\ out'[a][a] = joined[a] /\ joined'[a] = None
      /\ \A a \in Apps \ S : joined'[a] = joined[a] /\ out'[a] = out[a]
      /\ view' = view /\ pc' = pc /\ dt' = dt
  BY <1>1, <1>2 DEF Close, Vector, Exchange
<1>4. ASSUME NEW a \in S PROVE pc[a] \in Waiting \cup {"killed"}
  BY <1>3 DEF RunInv, LocalInv, Waited
<1>5. \A a \in S : pc[a] \in Offering => out'[a][a].ts = dt'[a]
  BY <1>3 DEF StepsAgreed
<1> QED
  BY <1>3, <1>4, <1>5 DEF StepsAgreed, Over

LEMMA AgreedStep ==
  ASSUME RunInv, StepsAgreed, [Next]_vars
  PROVE  StepsAgreed'
<1>1. /\ nt_cur \in [Apps -> Int] /\ nt_max \in [Apps -> Int]
      /\ dt \in [Apps -> TimeSteps \ {0}]
  BY BoundAssumption DEF RunInv, LocalInv, LocalType
<1> USE DEF Waiting, Places, Over
<1>2. ASSUME NEW a \in Apps, Finish(a), UNCHANGED dt, pc[a] \in {"save", "saving"}
      PROVE  StepsAgreed'
  <2>1. PICK p \in {"loop", "final", "ended"} :
          /\ pc' = [pc EXCEPT ![a] = p]
          /\ p = "final" => \E t \in TimeSteps \ {0} : Call(a, nt_cur[a], nt_max[a], t)
          /\ p # "final" => UNCHANGED groupVars
    BY <1>2 DEF Finish
  <2>2. CASE p = "final"
    BY <2>1, <2>2, <1>1, <1>2, AgreedCall
  <2>3. CASE p # "final"
    BY <2>1, <2>3, <1>2, AgreedMove
  <2> QED
    BY <2>2, <2>3
<1>3. ASSUME NEW a \in Apps, Step(a) PROVE StepsAgreed'
  <2>1. CASE Start(a)
    BY <2>1, <1>1, AgreedCall, AgreedMove DEF Start
  <2>2. CASE FirstReturn(a)
    BY <2>2, <1>1, AgreedReturn DEF FirstReturn
  <2>3. CASE TestStart(a)
    BY <2>3, AgreedMove DEF TestStart
  <2>4. CASE BeginStep(a)
    <3>1. PICK p \in {"begun", "step"} : pc' = [pc EXCEPT ![a] = p]
      BY <2>4 DEF BeginStep
    <3>2. pc[a] \in {"init", "loop"} /\ UNCHANGED <<groupVars, dt>>
      BY <2>4 DEF BeginStep
    <3> QED
      BY <3>1, <3>2, AgreedMove
  <2>5. CASE Uniform(a)
    <3>1. PICK t \in TimeSteps \ {0} : /\ dt' = [dt EXCEPT ![a] = t]
                                       /\ Call(a, nt_cur[a] - 1, nt_max[a], t)
      BY <2>5 DEF Uniform
    <3>2. nt_cur[a] - 1 \in Int /\ nt_max[a] \in Int /\ dt'[a] = t
          /\ \A c \in Apps \ {a} : dt'[c] = dt[c]
      BY <1>1, <3>1
    <3> QED
      BY <2>5, <3>1, <3>2, AgreedCall DEF Uniform
  <2>6. CASE UniformReturn(a)
    <3>1. PICK next \in {"aborted", "step"} : Return(a, nt_cur[a] - 1, next)
      BY <2>6 DEF UniformReturn
    <3>2. nt_cur[a] - 1 \in Int /\ pc[a] = "early"
      BY <2>6, <1>1 DEF UniformReturn
    <3> QED
      BY <3>1, <3>2, AgreedReturn
  <2>7. CASE EndStep(a)
    <3>1. PICK max \in {nt_max[a], nt_cur[a]} :
            \/ pc' = [pc EXCEPT ![a] = "save"] /\ UNCHANGED groupVars
            \/ pc' = [pc EXCEPT ![a] = "last"] /\ Call(a, nt_cur[a], max, dt[a])
      BY <2>7 DEF EndStep
    <3>2. max \in Int /\ nt_cur[a] \in Int /\ dt[a] \in TimeSteps
      BY <1>1
    <3>3. pc[a] = "step" /\ UNCHANGED dt
      BY <2>7 DEF EndStep
    <3> QED
      BY <3>1, <3>2, <3>3, AgreedCall, AgreedMove
  <2>8. CASE StepReturn(a) \/ FinalReturn(a)
    BY <2>8, <1>1, AgreedReturn DEF StepReturn, FinalReturn
  <2>9. CASE TestCheckpoint(a) \/ Save(a)
    <3>1. CASE Finish(a)
      BY <3>1, <2>9, <1>2 DEF TestCheckpoint, Save
    <3>2. CASE ~Finish(a)
      BY <3>2, <2>9, AgreedMove DEF TestCheckpoint, Save
    <3> QED
      BY <3>1, <3>2
  <2> QED
    BY <1>3, <2>1, <2>2, <2>3, <2>4, <2>5, <2>6, <2>7, <2>8, <2>9 DEF Step
<1>4. ASSUME NEW a \in Apps, Killed(a) PROVE StepsAgreed'
  BY <1>4, AgreedMove DEF Killed
<1>5. CASE UNCHANGED vars
  BY <1>5 DEF vars, groupVars, StepsAgreed
<1> QED
  BY <1>3, <1>4, <1>5, AgreedExchange DEF Next

\* Instances that know of the same exchange and follow the same rule compute with the same
\* time step, though each applies the rule by itself (cs_coupling_sync_apps).
THEOREM StepsShared == Spec => []SameTimeStep
<1>1. Init => StepsAgreed
  <2> SUFFICES ASSUME Init, NEW a \in Apps
               PROVE  joined[a] = None /\ out[a] = None /\ a \notin With(view[a], "NEW")
    BY DEF StepsAgreed
  <2>1. joined[a] = None /\ out[a] = None /\ view[a] = setup.start
    BY DEF Init, GroupInit
  <2>2. setup.start[a] \in Starts
    BY SetupAssumption DEF Init
  <2> QED
    BY <2>1, <2>2, SynchronizedAssumption DEF With
<1>2. RunInv /\ StepsAgreed /\ [Next]_vars => StepsAgreed'
  BY AgreedStep
<1>3. StepsAgreed => SameTimeStep
  <2> SUFFICES ASSUME StepsAgreed, NEW a \in Apps, NEW b \in Apps,
                      NEW rule \in {"min", "leader"}, Between(a), Between(b),
                      view[a] = view[b], {a, b} \subseteq With(view[a], "NEW"),
                      Follows(a, rule), Follows(b, rule)
               PROVE  dt[a] = dt[b]
    BY DEF SameTimeStep
  <2>1. dt[a] = Agreed(a, view[a]) /\ dt[b] = Agreed(b, view[a])
    BY DEF StepsAgreed, Between, Waiting, Over
  <2>2. CASE rule = "min"
    BY <2>1, <2>2 DEF Follows, Agreed
  <2>3. CASE rule = "leader"
    BY <2>1, <2>3 DEF Follows, Agreed
  <2> QED
    BY <2>2, <2>3
<1> QED
  BY <1>1, <1>2, <1>3, RunHolds, PTL DEF Spec

(***************************************************************************)
(* Instances do not run ahead of each other.                               *)
(***************************************************************************)

\* An instance that has been told of a stop does not begin another step.
Stopped(a) == With(view[a], "STOP") # {}
Heeds(a) ==
  /\ pc[a] \in {"start", "init", "loop", "begun", "step"} => ~Stopped(a)
  /\ pc[a] \in {"test", "save", "saving"} /\ Stopped(a) =>
       nt_max[a] <= nt_cur[a] /\ a \notin setup.uniform
Heeded == \A a \in Apps : Heeds(a)

LEMMA HeedsOthers ==
  ASSUME Heeded, NEW a \in Apps, Heeds(a)', UNCHANGED setup,
         \A c \in Apps \ {a} : /\ view'[c] = view[c] /\ pc'[c] = pc[c]
                               /\ nt_cur'[c] = nt_cur[c] /\ nt_max'[c] = nt_max[c]
  PROVE  Heeded'
BY DEF Heeded, Heeds, Stopped

\* What the call of an instance changes for the exchange.
LEMMA CallFacts ==
  ASSUME RunInv, NEW a \in Apps, NEW cur \in Int, NEW max \in Int, NEW step \in TimeSteps,
         Call(a, cur, max, step)
  PROVE  /\ joined[a] = None /\ out' = out
         /\ Active(view'[a]) \subseteq Active(view[a])
         /\ a \in Active(view'[a]) => /\ joined'[a] # None
                                      /\ cur >= max => "STOP" \in joined'[a].flags
         /\ \A c \in Apps \ {a} : view'[c] = view[c] /\ joined'[c] = joined[c]
<1>1. /\ GroupTypeOK /\ view[a] \in [Apps -> Values]
      /\ view \in [Apps -> [Apps -> Values]] /\ joined \in [Apps -> Values \cup {None}]
  BY DEF RunInv, ExchangeInv, GroupInv, GroupTypeOK
<1> DEFINE v == Offer(a, cur, max, step)
<1>2. v # None /\ (cur >= max => "STOP" \in v.flags) /\ Join(a, v)
  BY <1>1, OfferFacts DEF Call, Offer
<1> HIDE DEF v
<1>3. view'[a] = Mark(view[a]) /\ Active(Mark(view[a])) \subseteq Active(view[a])
  BY <1>1, <1>2, MarkFacts DEF Join
<1>4. a \in Active(Mark(view[a])) => joined'[a] = v
  BY <1>1, <1>2 DEF Join
<1>5. joined[a] = None /\ out' = out
      /\ \A c \in Apps \ {a} : view'[c] = view[c] /\ joined'[c] = joined[c]
  BY <1>1, <1>2 DEF Join
<1> QED
  BY <1>2, <1>3, <1>4, <1>5

LEMMA HeededReturn ==
  ASSUME RunInv, Heeded, NEW a \in Apps, pc[a] \in Waiting, NEW cur \in Int,
         NEW next \in {"test", "step", "save", "aborted", "ended"}, Return(a, cur, next),
         next \in {"test", "save"} => cur = nt_cur[a] /\ a \notin setup.uniform,
         next = "step" => NewLimit(a, Known(a), cur) > cur
  PROVE  Heeded'
<1>1. /\ pc \in [Apps -> Places] /\ nt_max \in [Apps -> Int]
  BY BoundAssumption DEF RunInv, LocalInv, LocalType
<1>2. next \in Places
  BY DEF Places, Over
<1>3. view'[a] = Known(a) /\ \A c \in Apps \ {a} : view'[c] = view[c]
  BY <1>2, ReturnFacts
<1>4. /\ UNCHANGED <<setup, nt_cur>>
      /\ \A c \in Apps \ {a} : pc'[c] = pc[c] /\ nt_max'[c] = nt_max[c]
  BY <1>1 DEF Return
<1>5. \/ pc'[a] = "aborted"
      \/ pc'[a] = next /\ nt_max'[a] = NewLimit(a, Known(a), cur)
  BY <1>1 DEF Return
<1>6. With(Known(a), "STOP") # {} => NewLimit(a, Known(a), cur) <= cur
  BY <1>1, LimitFacts
<1>7. NewLimit(a, Known(a), cur) \in Int
  BY <1>1, LimitFacts
<1>8. Heeds(a)'
  BY <1>3, <1>4, <1>5, <1>6, <1>7 DEF Heeds, Stopped
<1> QED
  BY <1>3, <1>4, <1>8, HeedsOthers

LEMMA HeededCall ==
  ASSUME RunInv, Heeded, NEW a \in Apps, NEW cur \in Int, NEW max \in Int,
         NEW step \in TimeSteps, NEW p \in Waiting, Call(a, cur, max, step),
         pc' = [pc EXCEPT ![a] = p], UNCHANGED <<setup, nt_cur>>,
         \A c \in Apps \ {a} : nt_max'[c] = nt_max[c]
  PROVE  Heeded'
<1>1. pc \in [Apps -> Places]
  BY DEF RunInv, LocalInv, LocalType
<1>2. Heeds(a)'
  BY <1>1 DEF Heeds, Waiting
<1>3. \A c \in Apps \ {a} : view'[c] = view[c]
  BY CallFacts
<1> QED
  BY <1>1, <1>2, <1>3, HeedsOthers

LEMMA HeededMove ==
  ASSUME RunInv, Heeded, NEW a \in Apps, NEW p \in Places, pc' = [pc EXCEPT ![a] = p],
         UNCHANGED <<setup, groupVars>>, Heeds(a)',
         \A c \in Apps \ {a} : nt_cur'[c] = nt_cur[c] /\ nt_max'[c] = nt_max[c]
  PROVE  Heeded'
<1>1. pc \in [Apps -> Places]
  BY DEF RunInv, LocalInv, LocalType
<1> QED
  BY <1>1, HeedsOthers DEF groupVars

LEMMA HeededStep ==
  ASSUME RunInv, Heeded, [Next]_vars
  PROVE  Heeded'
<1>1. /\ nt_cur \in [Apps -> Int] /\ nt_max \in [Apps -> Int] /\ pc \in [Apps -> Places]
      /\ dt \in [Apps -> TimeSteps \ {0}]
  BY BoundAssumption DEF RunInv, LocalInv, LocalType
<1>2. \A a \in Apps : Heeds(a)
  BY DEF Heeded
<1> USE DEF Waiting, Places, Over
<1>3. ASSUME NEW a \in Apps, pc[a] \in {"save", "saving"}, Finish(a),
             UNCHANGED <<setup, nt_cur, nt_max>>
      PROVE  Heeded'
  <2>1. PICK p \in {"loop", "final", "ended"} :
          /\ pc' = [pc EXCEPT ![a] = p]
          /\ p = "loop" => nt_cur[a] < nt_max[a]
          /\ p = "final" => \E t \in TimeSteps \ {0} : Call(a, nt_cur[a], nt_max[a], t)
          /\ p # "final" => UNCHANGED groupVars
    BY <1>3 DEF Finish, GoesOn
  <2>2. CASE p = "final"
    BY <2>1, <2>2, <1>1, <1>3, HeededCall
  <2>3. CASE p # "final"
    <3>1. Heeds(a)'
      BY <2>1, <2>3, <1>1, <1>2, <1>3 DEF Heeds, Stopped, groupVars
    <3> QED
      BY <3>1, <2>1, <2>3, <1>3, HeededMove
  <2> QED
    BY <2>2, <2>3
<1>4. ASSUME NEW a \in Apps, Step(a) PROVE Heeded'
  <2>1. CASE Start(a)
    <3>1. CASE a \in setup.uniform \cup setup.ale
      <4>1. PICK p \in {"init", "test"} : pc' = [pc EXCEPT ![a] = p] /\ UNCHANGED groupVars
        BY <2>1, <3>1 DEF Start
      <4>2. Heeds(a)'
        BY <2>1, <4>1, <1>1, <1>2 DEF Start, Heeds, Stopped, groupVars
      <4> QED
        BY <2>1, <4>1, <4>2, HeededMove DEF Start
    <3>2. CASE a \notin setup.uniform \cup setup.ale
      BY <2>1, <3>2, <1>1, HeededCall DEF Start
    <3> QED
      BY <3>1, <3>2
  <2>2. CASE FirstReturn(a)
    BY <2>2, <1>1, HeededReturn DEF FirstReturn, RunInv, LocalInv, Placed
  <2>3. CASE TestStart(a)
    <3>1. PICK p \in {"aborted", "loop"} : /\ pc' = [pc EXCEPT ![a] = p]
                                           /\ p = "loop" => nt_max[a] # nt_cur[a]
      BY <2>3 DEF TestStart
    <3>2. nt_cur[a] = 0 /\ nt_max[a] >= 0
      BY <2>3 DEF TestStart, RunInv, LocalInv, Placed
    <3>3. Heeds(a)'
      BY <2>3, <3>1, <3>2, <1>1, <1>2 DEF TestStart, Heeds, Stopped, groupVars
    <3> QED
      BY <2>3, <3>1, <3>3, HeededMove DEF TestStart
  <2>4. CASE BeginStep(a)
    <3>1. PICK p \in {"begun", "step"} : pc' = [pc EXCEPT ![a] = p]
      BY <2>4 DEF BeginStep
    <3>2. /\ pc[a] \in {"init", "loop"} /\ UNCHANGED <<setup, groupVars>>
          /\ \A c \in Apps \ {a} : nt_cur'[c] = nt_cur[c] /\ nt_max'[c] = nt_max[c]
      BY <2>4, <1>1 DEF BeginStep
    <3>3. Heeds(a)'
      BY <3>1, <3>2, <1>1, <1>2 DEF Heeds, Stopped, groupVars
    <3> QED
      BY <3>1, <3>2, <3>3, HeededMove
  <2>5. CASE Uniform(a)
    <3>1. nt_cur[a] - 1 \in Int /\ nt_max[a] \in Int
      BY <1>1
    <3> QED
      BY <2>5, <3>1, HeededCall DEF Uniform
  <2>6. CASE UniformReturn(a)
    <3> DEFINE cur == nt_cur[a] - 1
               next == IF NewLimit(a, Known(a), cur) < nt_cur[a] THEN "aborted" ELSE "step"
    <3>1. /\ cur \in Int /\ pc[a] \in Waiting /\ Return(a, cur, next)
          /\ NewLimit(a, Known(a), cur) \in Int
      BY <2>6, <1>1, LimitFacts DEF UniformReturn
    <3>2. /\ next \in {"aborted", "step"}
          /\ next = "step" => NewLimit(a, Known(a), cur) > cur
      BY <3>1, <1>1
    <3> QED
      BY <3>1, <3>2, HeededReturn
  <2>7. CASE EndStep(a)
    <3>1. PICK max \in {nt_max[a], nt_cur[a]} :
            /\ nt_max' = [nt_max EXCEPT ![a] = max]
            /\ \/ pc' = [pc EXCEPT ![a] = "save"] /\ UNCHANGED groupVars
               \/ pc' = [pc EXCEPT ![a] = "last"] /\ Call(a, nt_cur[a], max, dt[a])
      BY <2>7 DEF EndStep
    <3>2. /\ pc[a] = "step" /\ UNCHANGED <<setup, nt_cur>>
          /\ \A c \in Apps \ {a} : nt_max'[c] = nt_max[c]
      BY <2>7, <3>1, <1>1 DEF EndStep
    <3>3. CASE pc' = [pc EXCEPT ![a] = "save"] /\ UNCHANGED groupVars
      <4>1. Heeds(a)'
        BY <3>2, <3>3, <1>1, <1>2 DEF Heeds, Stopped, groupVars
      <4> QED
        BY <4>1, <3>2, <3>3, HeededMove
    <3>4. CASE pc' = [pc EXCEPT ![a] = "last"] /\ Call(a, nt_cur[a], max, dt[a])
      <4>1. max \in Int /\ nt_cur[a] \in Int /\ dt[a] \in TimeSteps
        BY <1>1
      <4> QED
        BY <4>1, <3>2, <3>4, HeededCall
    <3> QED
      BY <3>1, <3>3, <3>4
  <2>8. CASE StepReturn(a) \/ FinalReturn(a)
    BY <2>8, <1>1, HeededReturn DEF StepReturn, FinalReturn, RunInv, LocalInv, Placed
  <2>9. CASE TestCheckpoint(a) \/ Save(a)
    <3>1. CASE Finish(a)
      BY <3>1, <2>9, <1>3 DEF TestCheckpoint, Save
    <3>2. CASE ~Finish(a)
      <4>1. /\ pc[a] = "save" /\ pc' = [pc EXCEPT ![a] = "saving"]
            /\ UNCHANGED <<setup, groupVars, nt_cur, nt_max>>
        BY <3>2, <2>9 DEF TestCheckpoint, Save
      <4>2. Heeds(a)'
        BY <4>1, <1>1, <1>2 DEF Heeds, Stopped, groupVars
      <4> QED
        BY <4>1, <4>2, HeededMove
    <3> QED
      BY <3>1, <3>2
  <2> QED
    BY <1>4, <2>1, <2>2, <2>3, <2>4, <2>5, <2>6, <2>7, <2>8, <2>9 DEF Step
<1>5. ASSUME NEW a \in Apps, Killed(a) PROVE Heeded'
  <2>1. Heeds(a)'
    BY <1>1, <1>5 DEF Killed, Heeds
  <2> QED
    BY <2>1, <1>5, HeededMove DEF Killed
<1>6. CASE Exchange
  <2>1. UNCHANGED <<view, pc, setup, nt_cur, nt_max>>
    BY <1>6 DEF Exchange, Close
  <2> QED
    BY <2>1 DEF Heeded, Heeds, Stopped
<1>7. CASE UNCHANGED vars
  BY <1>7 DEF vars, groupVars, Heeded, Heeds, Stopped
<1> QED
  BY <1>4, <1>5, <1>6, <1>7 DEF Next

-------------------------------------------------------------------------------
\* The last value that an instance has given.
Sent(a) == IF joined[a] # None THEN joined[a] ELSE Latest(a)[a]

\* How many calls a synchronized instance has made, from where it is in its loop.  A
\* uniform time step makes one less before the loop and, with ALE, one more in the
\* initialisation step; one more after the loop.  For those that are over, a bound.
Extra(a) == IF a \in setup.ale THEN 1 ELSE 0
Calls(a, m) ==
  /\ pc[a] \in {"start", "init"} => m = 0
  /\ pc[a] \in {"first", "last"} => m = nt_cur[a] + 1
  /\ pc[a] \in {"test", "loop", "save", "saving"} =>
       m = nt_cur[a] + (IF a \in setup.uniform THEN Extra(a) ELSE 1)
  /\ pc[a] = "step" => m = nt_cur[a] + (IF a \in setup.uniform THEN Extra(a) ELSE 0)
  /\ pc[a] = "begun" => m = nt_cur[a] + Extra(a) - 1
  /\ pc[a] = "early" => m = nt_cur[a] + Extra(a)
  /\ pc[a] = "final" => m = nt_cur[a] + Extra(a) + 1 /\ "STOP" \in Sent(a).flags
  /\ pc[a] \in Over =>
       m <= nt_cur[a] + 1 \/ (m = nt_cur[a] + 2 /\ "STOP" \in Sent(a).flags)

\* Those who take part in the same exchanges have been through the same number of them.
Closed(a, m) == IF joined[a] # None THEN m - 1 ELSE m
Rounds(k) ==
  /\ \A a \in Apps : a \in Active(view[a]) => Calls(a, k[a])
  /\ \A a, b \in Apps : Together(a, b) => Closed(a, k[a]) = Closed(b, k[b])
SameRounds == \E k \in [Apps -> Nat] : Rounds(k)

LEMMA CallsSame ==
  ASSUME NEW a \in Apps, NEW m, Calls(a, m), Sent(a)' = Sent(a),
         pc'[a] = pc[a], nt_cur'[a] = nt_cur[a], UNCHANGED setup
  PROVE  Calls(a, m)'
BY DEF Calls, Extra

\* Nobody has made many more calls than steps.
LEMMA CallsBound ==
  ASSUME RunInv, NEW a \in Apps, NEW m \in Nat, Calls(a, m)
  PROVE  m <= nt_cur[a] + 1 \/ (m = nt_cur[a] + 2 /\ "STOP" \in Sent(a).flags)
<1>1. nt_cur[a] \in Nat /\ pc[a] \in Places
  BY BoundAssumption DEF RunInv, LocalInv, LocalType
<1> QED
  BY <1>1 DEF Calls, Extra, Places, Over

LEMMA RoundsCall ==
  ASSUME RunInv, NEW k \in [Apps -> Nat], Rounds(k), NEW a \in Apps,
         NEW cur \in Int, NEW max \in Int, NEW step \in TimeSteps, NEW p \in Waiting,
         Call(a, cur, max, step), pc' = [pc EXCEPT ![a] = p], UNCHANGED <<setup, nt_cur>>,
         Calls(a, k[a]) /\ a \in Active(view'[a]) => Calls(a, k[a] + 1)'
  PROVE  SameRounds'
<1> DEFINE j == [k EXCEPT ![a] = k[a] + 1]
<1>1. pc \in [Apps -> Places]
  BY DEF RunInv, LocalInv, LocalType
<1>2. /\ joined[a] = None /\ out' = out
      /\ Active(view'[a]) \subseteq Active(view[a])
      /\ a \in Active(view'[a]) => joined'[a] # None
      /\ \A c \in Apps \ {a} : view'[c] = view[c] /\ joined'[c] = joined[c]
  BY CallFacts
<1>3. j \in [Apps -> Nat] /\ j[a] = k[a] + 1 /\ \A c \in Apps \ {a} : j[c] = k[c]
  OBVIOUS
<1> HIDE DEF j
<1>4. ASSUME NEW c \in Apps, c \in Active(view'[c]) PROVE Calls(c, j[c])'
  <2>1. Calls(c, k[c])
    BY <1>2, <1>4 DEF Rounds
  <2>2. CASE c = a
    BY <2>1, <2>2, <1>3, <1>4
  <2>3. CASE c # a
    <3>1. Sent(c)' = Sent(c) /\ pc'[c] = pc[c]
      BY <1>1, <1>2, <2>3 DEF Sent, Latest
    <3>2. Calls(c, k[c])'
      BY <2>1, <3>1, CallsSame
    <3> QED
      BY <3>2, <2>3, <1>3
  <2> QED
    BY <2>2, <2>3
<1>5. ASSUME NEW b \in Apps, NEW c \in Apps, Together(b, c)'
      PROVE  Closed(b, j[b])' = Closed(c, j[c])'
  <2>1. Together(b, c)
    BY <1>2, <1>5 DEF Together
  <2>2. Closed(b, k[b]) = Closed(c, k[c])
    BY <2>1 DEF Rounds
  <2>3. ASSUME NEW d \in {b, c} PROVE Closed(d, j[d])' = Closed(d, k[d])
    <3>1. CASE d = a
      <4>1. joined'[a] # None
        BY <1>2, <1>5, <3>1 DEF Together
      <4> QED
        BY <4>1, <1>2, <1>3, <3>1 DEF Closed
    <3>2. CASE d # a
      BY <3>2, <1>2, <1>3 DEF Closed
    <3> QED
      BY <3>1, <3>2
  <2> QED
    BY <2>2, <2>3
<1>6. Rounds(j)'
  BY <1>4, <1>5 DEF Rounds
<1> QED
  BY <1>3, <1>6 DEF SameRounds

\* A step that gives nothing and takes at most the result of an exchange.
LEMMA RoundsMove ==
  ASSUME RunInv, NEW k \in [Apps -> Nat], Rounds(k), NEW a \in Apps, UNCHANGED setup,
         UNCHANGED groupVars \/ Deliver(a),
         \A c \in Apps \ {a} : pc'[c] = pc[c] /\ nt_cur'[c] = nt_cur[c],
         Calls(a, k[a]) /\ Sent(a)' = Sent(a) => Calls(a, k[a])'
  PROVE  SameRounds'
<1>1. ASSUME NEW c \in Apps PROVE Active(view'[c]) = Active(view[c]) /\ Sent(c)' = Sent(c)
  <2>1. CASE UNCHANGED groupVars
    BY <2>1 DEF groupVars, Sent, Latest
  <2>2. CASE Deliver(a)
    <3>1. view \in [Apps -> [Apps -> Values]] /\ out \in [Apps -> [Apps -> Values] \cup {None}]
      BY DEF RunInv, ExchangeInv, GroupInv, GroupTypeOK
    <3>2. /\ out[a] # None /\ joined' = joined /\ view'[a] = out[a] /\ out'[a] = None
          /\ \A d \in Apps \ {a} : view'[d] = view[d] /\ out'[d] = out[d]
      BY <2>2, <3>1 DEF Deliver
    <3>3. Active(out[a]) = Active(view[a])
      BY <3>2 DEF RunInv, ExchangeInv, Kept
    <3> QED
      BY <3>2, <3>3 DEF Sent, Latest
  <2> QED
    BY <2>1, <2>2
<1>2. joined' = joined
  BY DEF groupVars, Deliver
<1>3. ASSUME NEW c \in Apps, c \in Active(view'[c]) PROVE Calls(c, k[c])'
  <2>1. Calls(c, k[c])
    BY <1>1, <1>3 DEF Rounds
  <2> QED
    BY <2>1, <1>1, CallsSame
<1>4. \A b, c \in Apps : Together(b, c)' => Together(b, c)
  BY <1>1 DEF Together
<1>5. Rounds(k)'
  BY <1>2, <1>3, <1>4 DEF Rounds, Closed
<1> QED
  BY <1>5 DEF SameRounds

LEMMA RoundsExchange ==
  ASSUME RunInv, NEW k \in [Apps -> Nat], Rounds(k), Exchange
  PROVE  SameRounds'
<1>1. PICK S \in SUBSET Apps : Close(S)
  BY DEF Exchange
<1>2. PICK r \in S : out' = [a \in Apps |-> IF a \in S THEN Vector(S, r) ELSE out[a]]
  BY <1>1 DEF Close
<1>3. Vector(S, r) # None
  <2>1. Vector(S, r) \in [Apps -> Values]
    BY <1>1 DEF Close, Vector, RunInv, ExchangeInv, GroupInv, GroupTypeOK
  <2> QED
    BY <2>1, NoneAssumption
<1>4. /\ \A a \in S : /\ joined[a] # None /\ joined'[a] = None /\ Active(view[a]) = S
                      /\ out'[a] # None /\ out'[a][a] = joined[a]
      /\ \A a \in Apps \ S : joined'[a] = joined[a] /\ out'[a] = out[a]
      /\ view' = view /\ UNCHANGED <<setup, pc, nt_cur>>
  BY <1>1, <1>2, <1>3 DEF Close, Vector, Exchange
<1>5. \A c \in Apps : Sent(c)' = Sent(c)
  BY <1>4 DEF Sent, Latest
<1>6. \A c \in Apps : c \in Active(view'[c]) => Calls(c, k[c])'
  BY <1>4, <1>5, CallsSame DEF Rounds
<1>7. ASSUME NEW b \in Apps, NEW c \in Apps, Together(b, c)
      PROVE  Closed(b, k[b])' = Closed(c, k[c])'
  <2>1. b \in S <=> c \in S
    BY <1>4, <1>7 DEF Together
  <2>2. Closed(b, k[b]) = Closed(c, k[c])
    BY <1>7 DEF Rounds
  <2> QED
    BY <2>1, <2>2, <1>4 DEF Closed
<1>8. Rounds(k)'
  BY <1>4, <1>6, <1>7 DEF Rounds, Together
<1> QED
  BY <1>8 DEF SameRounds

LEMMA RoundsReturn ==
  ASSUME RunInv, NEW k \in [Apps -> Nat], Rounds(k), NEW a \in Apps, pc[a] \in Waiting,
         NEW cur \in Int, NEW next \in Places \ Waiting, Return(a, cur, next),
         next \in {"test", "step", "save", "aborted", "ended"},
         next = "test" => pc[a] = "first" /\ a \notin setup.uniform,
         next = "step" => pc[a] = "early" /\ a \in setup.uniform,
         next = "save" => pc[a] = "last" /\ a \notin setup.uniform
  PROVE  SameRounds'
<1>1. pc \in [Apps -> Places] /\ nt_cur[a] \in Nat
  BY BoundAssumption DEF RunInv, LocalInv, LocalType
<1>2. /\ UNCHANGED <<setup, nt_cur>> /\ pc'[a] \in {"aborted", next}
      /\ \A c \in Apps \ {a} : pc'[c] = pc[c]
  BY <1>1 DEF Return
<1>3. UNCHANGED groupVars \/ Deliver(a)
  BY ReturnFacts
<1>4. ASSUME Calls(a, k[a]), Sent(a)' = Sent(a) PROVE Calls(a, k[a])'
  <2>1. CASE pc'[a] \in Over
    BY <2>1, <1>2, <1>4, CallsBound DEF Calls, Over
  <2>2. CASE pc'[a] \notin Over
    <3>1. pc'[a] = next /\ next \in {"test", "step", "save"}
      BY <2>2, <1>2 DEF Over
    <3> QED
      BY <3>1, <1>1, <1>2, <1>4 DEF Calls, Extra, Over
  <2> QED
    BY <2>1, <2>2
<1> QED
  BY <1>2, <1>3, <1>4, RoundsMove

LEMMA RoundsStep ==
  ASSUME RunInv, SameRounds, [Next]_vars
  PROVE  SameRounds'
<1>1. PICK k \in [Apps -> Nat] : Rounds(k)
  BY DEF SameRounds
<1>2. /\ nt_cur \in [Apps -> Nat] /\ nt_max \in [Apps -> Int] /\ pc \in [Apps -> Places]
      /\ dt \in [Apps -> TimeSteps \ {0}] /\ k \in [Apps -> Nat]
  BY BoundAssumption DEF RunInv, LocalInv, LocalType
<1>3. Placed
  BY DEF RunInv, LocalInv
<1> USE DEF Waiting, Places, Over
<1>4. ASSUME NEW a \in Apps, pc[a] \in {"save", "saving"}, Finish(a),
             UNCHANGED <<setup, nt_cur, nt_max>>
      PROVE  SameRounds'
  <2>1. PICK p \in {"loop", "final", "ended"} :
          /\ pc' = [pc EXCEPT ![a] = p]
          /\ p # "loop" => ~(nt_cur[a] < nt_max[a])
          /\ p = "final" => a \in setup.uniform /\
               \E t \in TimeSteps \ {0} : Call(a, nt_cur[a], nt_max[a], t)
          /\ p # "final" => UNCHANGED groupVars
          /\ p = "ended" => a \notin setup.uniform
    BY <1>4 DEF Finish, GoesOn
  <2>2. pc'[a] = p /\ \A c \in Apps \ {a} : pc'[c] = pc[c]
    BY <1>2, <2>1
  <2>3. CASE p = "final"
    <3>1. PICK t \in TimeSteps \ {0} : Call(a, nt_cur[a], nt_max[a], t)
      BY <2>1, <2>3
    <3>2. nt_cur[a] \in Int /\ nt_max[a] \in Int /\ nt_cur[a] >= nt_max[a]
      BY <1>2, <2>1, <2>3
    <3>3. a \in Active(view'[a]) => "STOP" \in Sent(a)'.flags
      BY <3>1, <3>2, CallFacts DEF Sent
    <3>4. Calls(a, k[a]) /\ a \in Active(view'[a]) => Calls(a, k[a] + 1)'
      BY <3>3, <1>2, <1>4, <2>1, <2>2, <2>3 DEF Calls, Extra
    <3> QED
      BY <3>1, <3>2, <3>4, <1>1, <1>4, <2>1, <2>3, RoundsCall
  <2>4. CASE p # "final"
    <3>1. Calls(a, k[a]) => Calls(a, k[a])'
      BY <1>2, <1>4, <2>1, <2>2, <2>4 DEF Calls, Extra
    <3> QED
      BY <3>1, <1>1, <1>4, <2>1, <2>2, <2>4, RoundsMove
  <2> QED
    BY <2>3, <2>4
<1>5. ASSUME NEW a \in Apps, Step(a) PROVE SameRounds'
  <2>1. CASE Start(a) /\ a \in setup.uniform \cup setup.ale
    <3>1. /\ pc'[a] = (IF a \in setup.ale THEN "init" ELSE "test") /\ pc[a] = "start"
          /\ \A c \in Apps \ {a} : pc'[c] = pc[c]
          /\ UNCHANGED <<groupVars, setup, nt_cur>>
      BY <2>1, <1>2 DEF Start
    <3>2. nt_cur[a] = 0
      BY <3>1, <1>3 DEF Placed
    <3>3. Calls(a, k[a]) => Calls(a, k[a])'
      BY <2>1, <3>1, <3>2, <1>2 DEF Calls, Extra
    <3> QED
      BY <3>1, <3>3, <1>1, RoundsMove
  <2>2. CASE Start(a) /\ a \notin setup.uniform \cup setup.ale
    <3>1. /\ pc' = [pc EXCEPT ![a] = "first"] /\ pc[a] = "start" /\ UNCHANGED <<setup, nt_cur>>
          /\ Call(a, nt_cur[a], nt_max[a], dt[a])
      BY <2>2 DEF Start
    <3>2. nt_cur[a] = 0 /\ nt_max[a] \in Int /\ dt[a] \in TimeSteps /\ nt_cur[a] \in Int
      BY <3>1, <1>2, <1>3 DEF Placed
    <3>3. Calls(a, k[a]) => Calls(a, k[a] + 1)'
      BY <3>1, <3>2, <1>2 DEF Calls, Extra
    <3> QED
      BY <3>1, <3>2, <3>3, <1>1, RoundsCall
  <2>3. CASE FirstReturn(a)
    BY <2>3, <1>1, <1>2, <1>3, RoundsReturn DEF FirstReturn, Placed
  <2>4. CASE TestStart(a)
    <3>1. /\ pc'[a] \in {"aborted", "loop"} /\ pc[a] = "test"
          /\ \A c \in Apps \ {a} : pc'[c] = pc[c]
          /\ UNCHANGED <<groupVars, setup, nt_cur>>
      BY <2>4, <1>2 DEF TestStart
    <3>2. Calls(a, k[a]) => Calls(a, k[a])'
      BY <3>1, <1>2 DEF Calls, Extra
    <3> QED
      BY <3>1, <3>2, <1>1, RoundsMove
  <2>5. CASE BeginStep(a)
    <3> DEFINE cur == nt_cur[a] + (IF pc[a] = "loop" THEN 1 ELSE 0)
    <3>1. /\ pc[a] \in {"init", "loop"} /\ UNCHANGED <<setup, groupVars>>
          /\ pc'[a] = (IF a \in setup.uniform THEN "begun" ELSE "step")
          /\ \A c \in Apps \ {a} : pc'[c] = pc[c]
          /\ nt_cur' = [nt_cur EXCEPT ![a] = cur]
      BY <2>5, <1>2 DEF BeginStep
    <3>2. nt_cur'[a] = cur /\ \A c \in Apps \ {a} : nt_cur'[c] = nt_cur[c]
      BY <3>1, <1>2
    <3>3. pc[a] = "init" => nt_cur[a] = 0 /\ a \in setup.ale
      BY <1>3 DEF Placed
    <3>4. Calls(a, k[a]) => Calls(a, k[a])'
      BY <3>1, <3>2, <3>3, <1>2 DEF Calls, Extra
    <3> QED
      BY <3>1, <3>2, <3>4, <1>1, RoundsMove
  <2>6. CASE Uniform(a)
    <3>1. PICK t \in TimeSteps \ {0} : Call(a, nt_cur[a] - 1, nt_max[a], t)
      BY <2>6 DEF Uniform
    <3>2. /\ pc[a] = "begun" /\ pc' = [pc EXCEPT ![a] = "early"] /\ UNCHANGED <<setup, nt_cur>>
          /\ nt_cur[a] - 1 \in Int /\ nt_max[a] \in Int
      BY <2>6, <1>2 DEF Uniform
    <3>3. Calls(a, k[a]) => Calls(a, k[a] + 1)'
      BY <3>2, <1>2 DEF Calls, Extra
    <3> QED
      BY <3>1, <3>2, <3>3, <1>1, RoundsCall
  <2>7. CASE UniformReturn(a)
    <3>1. PICK next \in {"aborted", "step"} : Return(a, nt_cur[a] - 1, next)
      BY <2>7 DEF UniformReturn
    <3>2. nt_cur[a] - 1 \in Int /\ pc[a] = "early" /\ a \in setup.uniform
      BY <2>7, <1>2, <1>3 DEF UniformReturn, Placed
    <3> QED
      BY <3>1, <3>2, <1>1, RoundsReturn
  <2>8. CASE EndStep(a)
    <3>1. PICK max \in {nt_max[a], nt_cur[a]} :
            IF a \in setup.uniform
            THEN pc' = [pc EXCEPT ![a] = "save"] /\ UNCHANGED groupVars
            ELSE pc' = [pc EXCEPT ![a] = "last"] /\ Call(a, nt_cur[a], max, dt[a])
      BY <2>8 DEF EndStep
    <3>2. /\ pc[a] = "step" /\ UNCHANGED <<setup, nt_cur>>
          /\ max \in Int /\ nt_cur[a] \in Int /\ dt[a] \in TimeSteps
      BY <2>8, <1>2 DEF EndStep
    <3>3. CASE a \in setup.uniform
      <4>1. pc'[a] = "save" /\ \A c \in Apps \ {a} : pc'[c] = pc[c]
        BY <3>1, <3>3, <1>2
      <4>2. Calls(a, k[a]) => Calls(a, k[a])'
        BY <4>1, <3>2, <3>3, <1>2 DEF Calls, Extra
      <4> QED
        BY <4>1, <4>2, <3>1, <3>2, <3>3, <1>1, RoundsMove
    <3>4. CASE a \notin setup.uniform
      <4>1. Calls(a, k[a]) => Calls(a, k[a] + 1)'
        BY <3>1, <3>2, <3>4, <1>2 DEF Calls, Extra
      <4> QED
        BY <4>1, <3>1, <3>2, <3>4, <1>1, RoundsCall
    <3> QED
      BY <3>3, <3>4
  <2>9. CASE StepReturn(a) \/ FinalReturn(a)
    BY <2>9, <1>1, <1>2, <1>3, RoundsReturn DEF StepReturn, FinalReturn, Placed
  <2>10. CASE TestCheckpoint(a) \/ Save(a)
    <3>1. CASE Finish(a)
      BY <3>1, <2>10, <1>4 DEF TestCheckpoint, Save
    <3>2. CASE ~Finish(a)
      <4>1. /\ pc[a] = "save" /\ pc'[a] = "saving" /\ \A c \in Apps \ {a} : pc'[c] = pc[c]
            /\ UNCHANGED <<setup, groupVars, nt_cur>>
        BY <3>2, <2>10, <1>2 DEF TestCheckpoint, Save
      <4>2. Calls(a, k[a]) => Calls(a, k[a])'
        BY <4>1, <1>2 DEF Calls, Extra
      <4> QED
        BY <4>1, <4>2, <1>1, RoundsMove
    <3> QED
      BY <3>1, <3>2
  <2> QED
    BY <1>5, <2>1, <2>2, <2>3, <2>4, <2>5, <2>6, <2>7, <2>8, <2>9, <2>10 DEF Step
<1>6. ASSUME NEW a \in Apps, Killed(a) PROVE SameRounds'
  <2>1. /\ pc'[a] = "killed" /\ \A c \in Apps \ {a} : pc'[c] = pc[c]
        /\ UNCHANGED <<setup, groupVars, nt_cur>>
    BY <1>2, <1>6 DEF Killed
  <2>2. ASSUME Calls(a, k[a]), Sent(a)' = Sent(a) PROVE Calls(a, k[a])'
    <3>1. k[a] <= nt_cur[a] + 1 \/ (k[a] = nt_cur[a] + 2 /\ "STOP" \in Sent(a).flags)
      BY <1>2, <2>2, CallsBound
    <3> QED
      BY <3>1, <2>1, <2>2 DEF Calls
  <2> QED
    BY <2>1, <2>2, <1>1, RoundsMove
<1>7. CASE UNCHANGED vars
  BY <1>7 DEF vars, groupVars, SameRounds, Rounds, Calls, Extra, Closed, Sent, Latest, Together
<1> QED
  BY <1>1, <1>5, <1>6, <1>7, RoundsExchange DEF Next

\* Nobody is a step behind one that solves a step, or decides on its checkpoint.
LEMMA RoundsBegun ==
  ASSUME RunInv, Heeded, NEW k \in [Apps -> Nat], Rounds(k),
         NEW a \in Apps, NEW b \in Apps, pc[a] \in {"step", "save"}, Together(a, b)
  PROVE  nt_cur[b] >= nt_cur[a] - 1
<1>2. /\ Calls(a, k[a]) /\ Calls(b, k[b]) /\ Closed(a, k[a]) = Closed(b, k[b])
      /\ nt_cur[a] \in Nat /\ nt_cur[b] \in Nat /\ k[a] \in Nat /\ k[b] \in Nat
  BY BoundAssumption DEF Together, Rounds, RunInv, LocalInv, LocalType
<1>3. joined[a] = None /\ out[a] = None
  BY DEF RunInv, LocalInv, Waited, Waiting
<1>4. nt_cur[a] <= k[a]
  BY <1>2 DEF Calls, Extra
<1>5. CASE k[b] <= nt_cur[b] + 1
  BY <1>2, <1>3, <1>4, <1>5 DEF Closed
<1>6. CASE k[b] = nt_cur[b] + 2 /\ joined[b] # None
  BY <1>2, <1>3, <1>4, <1>6 DEF Closed
<1>7. CASE k[b] = nt_cur[b] + 2 /\ joined[b] = None /\ "STOP" \in Sent(b).flags
  <2>1. "STOP" \in view[a][b].flags
    BY <1>3, <1>7 DEF RunInv, ExchangeInv, Told, Sent, Latest
  <2>2. Stopped(a)
    BY <2>1 DEF Together, Stopped, With
  <2>3. pc[a] = "save" /\ a \notin setup.uniform
    BY <2>2 DEF Heeded, Heeds
  <2>4. k[a] = nt_cur[a] + 1
    BY <1>2, <2>3 DEF Calls
  <2> QED
    BY <2>4, <1>2, <1>3, <1>7 DEF Closed
<1> QED
  BY <1>2, <1>5, <1>6, <1>7, CallsBound

\* Those it is synchronized with have finished the step before: one that is still within
\* a step has made no more calls than steps, but for the initialisation step of ALE,
\* where a uniform time step synchronizes too, and then all of them do.
LEMMA RoundsLockstep ==
  ASSUME RunInv, Heeded, SameRounds, Alike(setup)
  PROVE  Lockstep
<1> SUFFICES ASSUME NEW a \in Apps, NEW b \in Apps, pc[a] \in {"step", "save"}, Together(a, b)
             PROVE  Done(b) >= nt_cur[a] - 1
  BY DEF Lockstep
<1>1. PICK k \in [Apps -> Nat] : Rounds(k)
  BY DEF SameRounds
<1>2. /\ Calls(a, k[a]) /\ Calls(b, k[b]) /\ Closed(a, k[a]) = Closed(b, k[b])
      /\ nt_cur[a] \in Nat /\ nt_cur[b] \in Nat /\ k[a] \in Nat /\ k[b] \in Nat
  BY <1>1, BoundAssumption DEF Together, Rounds, RunInv, LocalInv, LocalType
<1>3. nt_cur[b] >= nt_cur[a] - 1
  BY <1>1, RoundsBegun
<1>4. CASE pc[b] \notin {"begun", "early", "step"}
  BY <1>3, <1>4 DEF Done
<1>5. CASE pc[b] \in {"begun", "early", "step"}
  <2>1. k[a] <= k[b]
    <3>1. joined[a] = None
      BY DEF RunInv, LocalInv, Waited, Waiting
    <3> QED
      BY <1>2, <3>1 DEF Closed
  <2>2. k[b] <= nt_cur[b] + (IF b \in setup.uniform \cap setup.ale THEN 1 ELSE 0)
    <3>1. pc[b] \in {"begun", "early"} => b \in setup.uniform
      BY DEF RunInv, LocalInv, Placed
    <3> QED
      BY <1>2, <1>5, <3>1 DEF Calls, Extra
  <2>3. k[a] >= nt_cur[a] + (IF a \in setup.uniform \cap setup.ale THEN 1 ELSE 0)
    BY <1>2 DEF Calls, Extra
  <2>4. a \in setup.uniform \cap setup.ale <=> b \in setup.uniform \cap setup.ale
    BY DEF Alike
  <2>5. nt_cur[b] >= nt_cur[a]
    BY <1>2, <2>1, <2>2, <2>3, <2>4
  <2> QED
    BY <1>2, <1>5, <2>5 DEF Done
<1> QED
  BY <1>4, <1>5

LEMMA RoundsHold == Spec => [](Heeded /\ SameRounds)
<1>1. Init => Heeded /\ SameRounds
  <2> SUFFICES ASSUME Init PROVE Heeded /\ SameRounds
    OBVIOUS
  <2>1. \A a \in Apps : /\ pc[a] = "start" /\ joined[a] = None /\ out[a] = None
                        /\ view[a] = setup.start /\ nt_cur[a] = 0
    BY DEF Init, GroupInit
  <2>2. setup.start \in [Apps -> Starts]
    BY SetupAssumption DEF Init
  <2>3. \A b \in Apps : "STOP" \notin setup.start[b].flags
    BY <2>2, SynchronizedAssumption DEF LastSync
  <2>4. Heeded
    <3>1. \A a \in Apps : ~Stopped(a)
      BY <2>1, <2>3 DEF Stopped, With, Active
    <3> QED
      BY <2>1, <3>1 DEF Heeded, Heeds
  <2> DEFINE k == [a \in Apps |-> 0]
  <2>5. Rounds(k) /\ k \in [Apps -> Nat]
    BY <2>1 DEF Rounds, Calls, Closed, Over
  <2> QED
    BY <2>4, <2>5 DEF SameRounds
<1>2. RunInv /\ Heeded /\ SameRounds /\ [Next]_vars => Heeded' /\ SameRounds'
  BY HeededStep, RoundsStep
<1> QED
  BY <1>1, <1>2, RunHolds, PTL DEF Spec

\* In a group of any size, an instance that solves a step does so once all those it is
\* synchronized with have finished the one before, uniform time steps or not.
THEOREM NoneAhead ==
  ASSUME \A s \in Setups : Alike(s)
  PROVE  Spec => []Lockstep
<1>1. RunInv => Alike(setup)
  BY DEF RunInv, LocalInv, LocalType
<1>2. RunInv /\ Heeded /\ SameRounds => Lockstep
  BY <1>1, RoundsLockstep
<1> QED
  BY <1>2, RunHolds, RoundsHold, PTL

(***************************************************************************)
(* Instances end at the same step.                                         *)
(***************************************************************************)

\* The step that a call speaks of.
CallStep(a) == IF pc[a] = "early" THEN nt_cur[a] - 1 ELSE nt_cur[a]

\* An end is announced in the statuses s, or in those that a knows.
Leaving(v) == v.flags \cap LastSync # {}
Ending(s) == \E b \in Apps : Leaving(s[b])
Warned(a) == Ending(view[a])

\* In a call, those that announced their end are left out, and keep their last status;
\* an instance that has reached its limit says so.
Announces(a) ==
  /\ joined[a] # None \/ out[a] # None =>
       \A b \in Apps : Leaving(view[a][b]) => b \notin Active(view[a])
  /\ out[a] # None => \A b \in Apps \ Active(view[a]) : out[a][b] = view[a][b]
  /\ pc[a] \in Waiting /\ CallStep(a) >= nt_max[a] =>
       /\ joined[a] # None => "STOP" \in joined[a].flags
       /\ out[a] # None => "STOP" \in out[a][a].flags

\* An instance ends when it knows of an end; it begins no step then, but the one that was
\* announced as the last.
Leaves(a) ==
  /\ pc[a] \in {"saving", "final", "ended"} => nt_cur[a] = nt_max[a]
  /\ pc[a] = "ended" => Warned(a)
  /\ pc[a] \in {"save", "saving"} /\ a \notin setup.uniform /\ ~Warned(a) =>
       nt_cur[a] < nt_max[a]
  /\ Warned(a) => pc[a] \notin {"start", "first", "init", "begun", "early"}
  /\ Warned(a) /\ pc[a] \notin Over =>
       IF a \in setup.uniform
       THEN pc[a] \in {"step", "save", "saving", "final"} /\ nt_max[a] = nt_cur[a]
       ELSE \/ \E b \in Apps : "LAST" \in view[a][b].flags
            \/ pc[a] \in {"test", "save", "saving"} /\ nt_max[a] = nt_cur[a]

\* F is the step at which those that know of an end will stop, or that follows from
\* what the others are about to read, if all count the exchanges alike.
EndsAt(a, F) ==
  Alike(setup) /\ pc[a] \notin {"aborted", "killed"} =>
    /\ Warned(a) /\ a \notin late =>
         /\ nt_max[a] = F /\ nt_cur[a] >= F - 1
         /\ pc[a] \in {"step", "last"} => nt_cur[a] = F
    /\ ~Warned(a) /\ out[a] # None /\ Ending(out[a]) =>
         CallStep(a) = IF With(out[a], "STOP") # {} THEN F ELSE F - 1

Ends(a, F) == Announces(a) /\ Leaves(a) /\ EndsAt(a, F)
EndInv == \E F \in Int : \A a \in Apps : Ends(a, F)

\* The limit changes only when an end is announced, and then to the step that follows.
LEMMA LimitAtEnd ==
  ASSUME NEW a \in Apps, NEW s, NEW cur \in Int, nt_max[a] \in Int
  PROVE  /\ With(s, "STOP") = {} /\ With(s, "LAST") = {} => NewLimit(a, s, cur) = nt_max[a]
         /\ With(s, "LAST") # {} => NewLimit(a, s, cur) <= cur + 1
         /\ With(s, "STOP") = {} /\ nt_max[a] > cur => NewLimit(a, s, cur) > cur
<1> DEFINE S == {nt_max[a]} \cup {n \in {cur} : With(s, "STOP") # {}}
                            \cup {n \in {cur + 1} : With(s, "LAST") # {}}
<1>1. S \subseteq {nt_max[a], cur, cur + 1} /\ nt_max[a] \in S
      /\ (With(s, "LAST") # {} => cur + 1 \in S)
      /\ (With(s, "STOP") = {} => S \subseteq {nt_max[a], cur + 1})
      /\ (With(s, "STOP") = {} /\ With(s, "LAST") = {} => S = {nt_max[a]})
  OBVIOUS
<1>2. NewLimit(a, s, cur) = Least(S)
  BY DEF NewLimit
<1> HIDE DEF S
<1>3. \E m \in S : \A n \in S : m <= n
  <2>1. ASSUME NEW x \in Int, NEW y \in Int, NEW U, U \subseteq {x, y, y + 1}, x \in U
        PROVE  \E m \in U : \A n \in U : m <= n
    BY <2>1
  <2> QED
    BY <1>1, <2>1
<1>4. Least(S) \in S /\ \A n \in S : Least(S) <= n
  BY <1>3 DEF Least
<1> QED
  BY <1>1, <1>2, <1>4

\* Marking changes nothing about who announced an end.
LEMMA MarkEnds ==
  ASSUME NEW s \in [Apps -> Values]
  PROVE  /\ Ending(Mark(s)) <=> Ending(s)
         /\ \A b \in Apps : Leaving(Mark(s)[b]) => b \notin Active(Mark(s))
         /\ \A b \in Apps : "LAST" \in Mark(s)[b].flags <=> "LAST" \in s[b].flags
<1>1. "LAST" \in Flag \ {"INIT", "NO_SYNC"}
  BY DEF Flag
<1>2. \A b \in Apps : /\ Leaving(Mark(s)[b]) <=> Leaving(s[b])
                      /\ "NO_SYNC" \in Mark(s)[b].flags <=> Leaving(s[b])
                      /\ "LAST" \in Mark(s)[b].flags <=> "LAST" \in s[b].flags
  BY <1>1, MarkFacts DEF Leaving
<1> QED
  BY <1>2 DEF Ending, Active

\* Statuses without an announced end: all are synchronized, and nobody stops.
LEMMA NoEnding ==
  ASSUME NEW s \in [Apps -> Values], ~Ending(s)
  PROVE  Active(s) = Apps /\ With(s, "STOP") = {} /\ With(s, "LAST") = {}
BY DEF Ending, Leaving, LastSync, Active, With

\* What holds of an instance depends on what it knows and where it is.
LEMMA EndsOthers ==
  ASSUME NEW F \in Int, \A b \in Apps : Ends(b, F), NEW a \in Apps, Ends(a, F)',
         UNCHANGED setup,
         \A c \in Apps \ {a} :
           /\ view'[c] = view[c] /\ joined'[c] = joined[c] /\ out'[c] = out[c]
           /\ pc'[c] = pc[c] /\ nt_cur'[c] = nt_cur[c] /\ nt_max'[c] = nt_max[c]
           /\ c \in late' <=> c \in late
  PROVE  EndInv'
<1>1. ASSUME NEW c \in Apps \ {a} PROVE Ends(c, F)'
  <2>1. Announces(c)'
    BY DEF Ends, Announces, CallStep
  <2>2. Leaves(c)'
    BY DEF Ends, Leaves, Warned
  <2>3. EndsAt(c, F)'
    BY DEF Ends, EndsAt, Warned, CallStep
  <2> QED
    BY <2>1, <2>2, <2>3 DEF Ends
<1> QED
  BY <1>1 DEF EndInv

\* A call: what the instance gives, and what it knows of the others meanwhile.
LEMMA EndCall ==
  ASSUME RunInv, NEW F \in Int, NEW a \in Apps, NEW cur \in Int, NEW max \in Int,
         NEW step \in TimeSteps, NEW p \in Waiting, Call(a, cur, max, step),
         pc' = [pc EXCEPT ![a] = p], CallStep(a)' = cur, nt_max'[a] = max
  PROVE  /\ Announces(a)'
         /\ out'[a] = None
         /\ Warned(a)' <=> Warned(a)
         /\ \A b \in Apps : "LAST" \in view'[a][b].flags <=> "LAST" \in view[a][b].flags
         /\ pc'[a] = p
         /\ \A c \in Apps \ {a} : /\ view'[c] = view[c] /\ joined'[c] = joined[c]
                                  /\ out'[c] = out[c] /\ pc'[c] = pc[c]
<1>1. /\ GroupTypeOK /\ view[a] \in [Apps -> Values] /\ pc \in [Apps -> Places]
      /\ view \in [Apps -> [Apps -> Values]] /\ joined \in [Apps -> Values \cup {None}]
  BY DEF RunInv, ExchangeInv, GroupInv, GroupTypeOK, LocalInv, LocalType
<1>2. PICK v \in Values : v # None /\ (cur >= max => "STOP" \in v.flags) /\ Join(a, v)
  <2>1. /\ Offer(a, cur, max, step) \in Values /\ Offer(a, cur, max, step) # None
        /\ cur >= max => "STOP" \in Offer(a, cur, max, step).flags
        /\ Join(a, Offer(a, cur, max, step))
    BY <1>1, OfferFacts, ValueAssumption DEF Call, Offer
  <2> QED
    BY <2>1
<1>3. /\ view'[a] = Mark(view[a]) /\ joined[a] = None /\ out[a] = None /\ out' = out
      /\ joined'[a] = None \/ joined'[a] = v
      /\ \A c \in Apps \ {a} : view'[c] = view[c] /\ joined'[c] = joined[c]
  BY <1>1, <1>2 DEF Join
<1>4. pc'[a] = p /\ \A c \in Apps \ {a} : pc'[c] = pc[c]
  BY <1>1
<1>5. /\ Ending(Mark(view[a])) <=> Ending(view[a])
      /\ \A b \in Apps : Leaving(Mark(view[a])[b]) => b \notin Active(Mark(view[a]))
      /\ \A b \in Apps : "LAST" \in Mark(view[a])[b].flags <=> "LAST" \in view[a][b].flags
  BY <1>1, MarkEnds
<1>6. Warned(a)' <=> Warned(a)
  BY <1>3, <1>5 DEF Warned
<1>7. Announces(a)'
  <2>1. \A b \in Apps : Leaving(view'[a][b]) => b \notin Active(view'[a])
    BY <1>3, <1>5
  <2>2. cur >= max /\ joined'[a] # None => "STOP" \in joined'[a].flags
    BY <1>2, <1>3
  <2>3. out'[a] = None
    BY <1>3
  <2> QED
    BY <2>1, <2>2, <2>3 DEF Announces
<1> QED
  BY <1>3, <1>4, <1>5, <1>6, <1>7

\* The return of a call: what an instance learns, and the limit that follows.
LEMMA EndReturn ==
  ASSUME RunInv, NEW F \in Int, NEW a \in Apps, Ends(a, F), pc[a] \in Waiting,
         NEW cur \in Int, cur = CallStep(a), cur <= nt_max[a], NEW next \in Places \ Waiting,
         Return(a, cur, next)
  PROVE  /\ Announces(a)' /\ out'[a] = None
         /\ UNCHANGED <<setup, nt_cur, late>>
         /\ Warned(a) => /\ Warned(a)'
                         /\ \A b \in Apps : "LAST" \in view[a][b].flags =>
                                              "LAST" \in view'[a][b].flags
         /\ \/ pc'[a] = "aborted"
            \/ /\ pc'[a] = next
               /\ nt_max'[a] = NewLimit(a, Known(a), cur)
               /\ nt_max'[a] \in Int /\ cur <= nt_max'[a] /\ nt_max'[a] <= nt_max[a]
               /\ ~Warned(a)' => nt_max'[a] > cur
               /\ Warned(a)' /\ ~Warned(a) =>
                    \/ nt_max'[a] = cur
                    \/ nt_max'[a] = cur + 1 /\ \E b \in Apps : "LAST" \in view'[a][b].flags
               /\ Alike(setup) /\ Warned(a)' /\ ~Warned(a) => nt_max'[a] = F
         /\ \A c \in Apps \ {a} :
              /\ view'[c] = view[c] /\ joined'[c] = joined[c] /\ out'[c] = out[c]
              /\ pc'[c] = pc[c] /\ nt_max'[c] = nt_max[c]
<1> DEFINE K == Known(a)
<1>1. /\ joined[a] = None /\ K \in [Apps -> Values]
      /\ out[a] # None \/ (out[a] = None /\ a \notin Active(view[a]))
      /\ view'[a] = K /\ out'[a] = None /\ joined' = joined
      /\ K = IF out[a] # None THEN out[a] ELSE view[a]
      /\ \A c \in Apps \ {a} : view'[c] = view[c] /\ out'[c] = out[c]
  BY ReturnFacts DEF Known
<1>2. /\ pc \in [Apps -> Places] /\ nt_max \in [Apps -> Int] /\ nt_max[a] \in Int
      /\ view[a] \in [Apps -> Values]
  BY BoundAssumption DEF RunInv, LocalInv, LocalType, ExchangeInv, GroupInv, GroupTypeOK
<1>3. /\ UNCHANGED <<setup, nt_cur, late>>
      /\ \A c \in Apps \ {a} : pc'[c] = pc[c] /\ nt_max'[c] = nt_max[c]
  BY <1>2 DEF Return
<1>4. \/ pc'[a] = "aborted"
      \/ pc'[a] = next /\ nt_max'[a] = NewLimit(a, K, cur)
  BY <1>2 DEF Return
<1>5. Warned(a)' <=> Ending(K)
  BY <1>1 DEF Warned
<1>6. Announces(a) /\ EndsAt(a, F)
  BY DEF Ends
<1> HIDE DEF K
<1>7. Announces(a)'
  <2>1. joined'[a] = None /\ out'[a] = None
    BY <1>1
  <2> QED
    BY <2>1 DEF Announces
<1>8. ASSUME Warned(a)
      PROVE  /\ Ending(K)
             /\ \A b \in Apps : "LAST" \in view[a][b].flags => "LAST" \in K[b].flags
  <2>1. CASE out[a] # None
    <3>1. ASSUME NEW b \in Apps, Leaving(view[a][b]) PROVE K[b] = view[a][b]
      BY <2>1, <3>1, <1>1, <1>6 DEF Announces
    <3>2. \A b \in Apps : "LAST" \in view[a][b].flags => Leaving(view[a][b])
      BY DEF Leaving, LastSync
    <3> QED
      BY <3>1, <3>2, <1>8 DEF Warned, Ending
  <2>2. CASE out[a] = None
    BY <2>2, <1>1, <1>8 DEF Warned
  <2> QED
    BY <2>1, <2>2
<1>9. /\ NewLimit(a, K, cur) \in {nt_max[a], cur, cur + 1} /\ NewLimit(a, K, cur) <= nt_max[a]
      /\ NewLimit(a, K, cur) >= cur
      /\ With(K, "STOP") # {} => NewLimit(a, K, cur) <= cur
      /\ With(K, "STOP") = {} /\ With(K, "LAST") = {} => NewLimit(a, K, cur) = nt_max[a]
      /\ With(K, "LAST") # {} => NewLimit(a, K, cur) <= cur + 1
      /\ With(K, "STOP") = {} /\ nt_max[a] > cur => NewLimit(a, K, cur) > cur
  BY <1>2, LimitFacts, LimitAtEnd
<1>10. ASSUME out[a] # None, cur >= nt_max[a] PROVE "STOP" \in K[a].flags
  BY <1>10, <1>1, <1>6 DEF Announces
<1>11. ASSUME ~Ending(K) PROVE NewLimit(a, K, cur) > cur
  <2>1. /\ Active(K) = Apps /\ With(K, "STOP") = {} /\ With(K, "LAST") = {}
    BY <1>1, <1>11, NoEnding
  <2>2. ~Warned(a)
    BY <1>8, <1>11
  <2>3. out[a] # None
    BY <2>2, <1>1, <1>2, NoEnding DEF Warned
  <2>4. ~(cur >= nt_max[a])
    BY <2>1, <2>3, <1>10 DEF With
  <2> QED
    BY <2>1, <2>4, <1>2, <1>9
<1>12. ASSUME Ending(K), ~Warned(a)
       PROVE  /\ out[a] # None /\ K = out[a]
              /\ With(K, "STOP") # {} => NewLimit(a, K, cur) = cur
              /\ With(K, "STOP") = {} =>
                   /\ NewLimit(a, K, cur) = cur + 1
                   /\ \E b \in Apps : "LAST" \in K[b].flags
  <2>1. Active(view[a]) = Apps
    BY <1>2, <1>12, NoEnding DEF Warned
  <2>2. out[a] # None /\ K = out[a]
    BY <2>1, <1>1
  <2>3. Active(K) = Apps
    BY <2>1, <2>2 DEF RunInv, ExchangeInv, Kept
  <2>4. PICK b \in Apps : Leaving(K[b])
    BY <1>12 DEF Ending
  <2>5. "STOP" \in K[b].flags \/ "LAST" \in K[b].flags
    BY <2>3, <2>4 DEF Leaving, LastSync, Active
  <2>6. With(K, "STOP") # {} \/ (With(K, "LAST") # {} /\ "LAST" \in K[b].flags)
    BY <2>3, <2>5 DEF With
  <2>7. ASSUME With(K, "STOP") = {} PROVE nt_max[a] > cur
    <3>1. ~(cur >= nt_max[a])
      BY <2>2, <2>3, <2>7, <1>10 DEF With
    <3> QED
      BY <3>1, <1>2
  <2> QED
    BY <2>2, <2>6, <2>7, <1>2, <1>9
<1>13. ASSUME Ending(K), ~Warned(a), Alike(setup) PROVE NewLimit(a, K, cur) = F
  <2>1. pc[a] \notin {"aborted", "killed"}
    BY DEF Waiting
  <2>2. cur = IF With(K, "STOP") # {} THEN F ELSE F - 1
    BY <2>1, <1>6, <1>12, <1>13 DEF EndsAt
  <2> QED
    BY <2>2, <1>12, <1>13
<1>14. NewLimit(a, K, cur) \in Int
  BY <1>2, <1>9
<1>15. Warned(a) => /\ Warned(a)'
                    /\ \A b \in Apps : "LAST" \in view[a][b].flags =>
                                         "LAST" \in view'[a][b].flags
  BY <1>1, <1>5, <1>8
<1>16. ASSUME pc'[a] = next, nt_max'[a] = NewLimit(a, K, cur)
       PROVE  /\ nt_max'[a] \in Int /\ cur <= nt_max'[a] /\ nt_max'[a] <= nt_max[a]
              /\ ~Warned(a)' => nt_max'[a] > cur
              /\ Warned(a)' /\ ~Warned(a) =>
                   \/ nt_max'[a] = cur
                   \/ nt_max'[a] = cur + 1 /\ \E b \in Apps : "LAST" \in view'[a][b].flags
              /\ Alike(setup) /\ Warned(a)' /\ ~Warned(a) => nt_max'[a] = F
  BY <1>1, <1>5, <1>9, <1>11, <1>12, <1>13, <1>14, <1>16
<1>17. Known(a) = K
  BY DEF K
<1> QED
  BY <1>1, <1>3, <1>4, <1>7, <1>15, <1>16, <1>17

\* An instance goes on by itself: nothing changes in what it knows.
LEMMA EndMove ==
  ASSUME RunInv, NEW a \in Apps, pc[a] \notin Waiting \cup {"killed"},
         NEW p \in Places \ Waiting, pc' = [pc EXCEPT ![a] = p], UNCHANGED groupVars
  PROVE  /\ Announces(a)' /\ out'[a] = None /\ pc'[a] = p
         /\ UNCHANGED <<view, joined, out>>
         /\ Warned(a)' <=> Warned(a)
         /\ \A c \in Apps \ {a} : pc'[c] = pc[c]
<1>1. pc \in [Apps -> Places] /\ UNCHANGED <<view, joined, out>>
  BY DEF RunInv, LocalInv, LocalType, groupVars
<1>2. joined[a] = None /\ out[a] = None
  BY DEF RunInv, LocalInv, Waited
<1>3. Announces(a)'
  BY <1>1, <1>2 DEF Announces
<1> QED
  BY <1>1, <1>2, <1>3 DEF Warned

LEMMA StartEnds ==
  ASSUME RunInv, NEW F \in Int, \A b \in Apps : Ends(b, F), NEW a \in Apps, Start(a)
  PROVE  EndInv'
<1>1. /\ pc[a] = "start" /\ nt_cur[a] \in Int /\ nt_max[a] \in Int /\ dt[a] \in TimeSteps
      /\ UNCHANGED <<setup, nt_cur, nt_max, late>>
  BY BoundAssumption DEF Start, RunInv, LocalInv, LocalType
<1>2. ~Warned(a)
  BY <1>1 DEF Ends, Leaves
<1>3. PICK p \in {"init", "test", "first"} : pc' = [pc EXCEPT ![a] = p] /\
        IF p = "first" THEN Call(a, nt_cur[a], nt_max[a], dt[a]) ELSE UNCHANGED groupVars
  BY DEF Start
<1>4. /\ Announces(a)' /\ out'[a] = None /\ ~Warned(a)' /\ pc'[a] = p
      /\ \A c \in Apps \ {a} : /\ view'[c] = view[c] /\ joined'[c] = joined[c]
                               /\ out'[c] = out[c] /\ pc'[c] = pc[c]
  <2>1. CASE p = "first"
    <3>1. CallStep(a)' = nt_cur[a] /\ nt_max'[a] = nt_max[a]
      BY <1>1, <1>3, <2>1 DEF CallStep, RunInv, LocalInv, LocalType
    <3>2. pc' = [pc EXCEPT ![a] = "first"] /\ Call(a, nt_cur[a], nt_max[a], dt[a])
      BY <1>3, <2>1
    <3> QED
      BY <2>1, <3>1, <3>2, <1>1, <1>2, EndCall DEF Waiting
  <2>2. CASE p # "first"
    BY <2>2, <1>1, <1>2, <1>3, EndMove DEF Waiting, Places
  <2> QED
    BY <2>1, <2>2
<1>5. Leaves(a)' /\ EndsAt(a, F)'
  BY <1>3, <1>4 DEF Leaves, EndsAt
<1>6. Ends(a, F)'
  BY <1>4, <1>5 DEF Ends
<1> QED
  BY <1>1, <1>4, <1>6, EndsOthers

LEMMA TestStartEnds ==
  ASSUME RunInv, NEW F \in Int, \A b \in Apps : Ends(b, F), NEW a \in Apps, TestStart(a)
  PROVE  EndInv'
<1>1. /\ pc[a] = "test" /\ UNCHANGED <<setup, nt_cur, nt_max, late, groupVars>>
  BY DEF TestStart
<1>2. PICK p \in {"aborted", "loop"} : /\ pc' = [pc EXCEPT ![a] = p]
                                       /\ p = "loop" => nt_max[a] # nt_cur[a]
  BY DEF TestStart
<1>3. /\ Announces(a)' /\ out'[a] = None /\ pc'[a] = p
      /\ UNCHANGED <<view, joined, out>>
      /\ Warned(a)' <=> Warned(a)
      /\ \A c \in Apps \ {a} : pc'[c] = pc[c]
  BY <1>1, <1>2, EndMove DEF Waiting, Places, Over
<1>4. Leaves(a) /\ EndsAt(a, F)
  BY DEF Ends
<1>5. Leaves(a)'
  BY <1>1, <1>2, <1>3, <1>4 DEF Leaves, Over
<1>6. EndsAt(a, F)'
  BY <1>1, <1>2, <1>3, <1>4 DEF EndsAt
<1>7. Ends(a, F)'
  BY <1>3, <1>5, <1>6 DEF Ends
<1> QED
  BY <1>1, <1>3, <1>7, EndsOthers

\* Those that know of an end begin a step only if it was announced as the last; the
\* control file does not move the end, but of those that it makes late.
LEMMA BeginStepEnds ==
  ASSUME RunInv, NEW F \in Int, \A b \in Apps : Ends(b, F), NEW a \in Apps, BeginStep(a)
  PROVE  EndInv'
<1> DEFINE cur == nt_cur[a] + (IF pc[a] = "loop" THEN 1 ELSE 0)
<1>1. /\ nt_cur \in [Apps -> Int] /\ nt_max \in [Apps -> Int] /\ late \subseteq Apps
      /\ nt_cur[a] \in Int /\ nt_max[a] \in Int /\ Placed
  BY BoundAssumption DEF RunInv, LocalInv, LocalType
<1>2. PICK p \in {"begun", "step"} : pc' = [pc EXCEPT ![a] = p] /\
        (p = "begun" => a \in setup.uniform)
  BY DEF BeginStep
<1>3. /\ pc[a] \in {"init", "loop"} /\ nt_cur' = [nt_cur EXCEPT ![a] = cur]
      /\ UNCHANGED <<groupVars, setup>>
  BY DEF BeginStep
<1>4. /\ Announces(a)' /\ out'[a] = None /\ pc'[a] = p
      /\ UNCHANGED <<view, joined, out>>
      /\ Warned(a)' <=> Warned(a)
      /\ \A c \in Apps \ {a} : pc'[c] = pc[c]
  BY <1>2, <1>3, EndMove DEF Waiting, Places
<1>5. cur \in Int /\ nt_cur'[a] = cur /\ \A c \in Apps \ {a} : nt_cur'[c] = nt_cur[c]
  BY <1>1, <1>3
<1>6. Leaves(a) /\ EndsAt(a, F)
  BY DEF Ends
<1>7. Warned(a) => pc[a] = "loop" /\ a \notin setup.uniform /\ \E b \in Apps : "LAST" \in view[a][b].flags
  BY <1>3, <1>6 DEF Leaves, Over
<1>8. PICK n \in Int : /\ nt_max' = [nt_max EXCEPT ![a] = n] /\ late \subseteq late'
                       /\ late' \subseteq late \cup {a}
                       /\ Alike(setup) /\ Warned(a) /\ a \notin late' =>
                            n = nt_max[a] \/ n = cur
  <2>1. CASE UNCHANGED <<nt_max, late>>
    BY <2>1, <1>1
  <2>2. CASE ~UNCHANGED <<nt_max, late>>
    <3>1. PICK i \in 0 .. MaxSteps :
            /\ nt_max' = [nt_max EXCEPT ![a] = IF i < cur THEN cur ELSE i]
            /\ late' = late \cup {b \in {a} : i > nt_max[a] /\
                                    \E c \in Apps : "LAST" \in view[a][c].flags}
      BY <2>2 DEF BeginStep
    <3>2. ASSUME Warned(a), a \notin late' PROVE i <= nt_max[a]
      BY <3>1, <3>2, <1>1, <1>7
    <3>3. ASSUME Warned(a) PROVE cur <= nt_max[a]
      BY <3>3, <1>1, <1>5, <1>7 DEF Placed
    <3>4. ASSUME Alike(setup), Warned(a), a \notin late, pc[a] \notin {"aborted", "killed"}
          PROVE  nt_max[a] = cur
      <4>1. nt_max[a] = F /\ nt_cur[a] >= F - 1
        BY <3>4, <1>6 DEF EndsAt
      <4> QED
        BY <4>1, <3>3, <3>4, <1>1, <1>7
    <3>5. ASSUME Alike(setup), Warned(a), a \notin late' PROVE (IF i < cur THEN cur ELSE i) = cur
      <4>1. a \notin late /\ pc[a] \notin {"aborted", "killed"}
        BY <3>1, <3>5, <1>3
      <4>2. nt_max[a] = cur /\ i <= nt_max[a]
        BY <4>1, <3>2, <3>4, <3>5
      <4> HIDE DEF cur
      <4> QED
        BY <4>2, <1>5
    <3>6. (IF i < cur THEN cur ELSE i) \in Int
      BY <1>5
    <3> HIDE DEF cur
    <3> QED
      BY <3>1, <3>5, <3>6
  <2> QED
    BY <2>1, <2>2
<1>9. nt_max'[a] = n /\ \A c \in Apps \ {a} : /\ nt_max'[c] = nt_max[c]
                                              /\ c \in late' <=> c \in late
  BY <1>1, <1>8
<1>10. Leaves(a)'
  <2>1. \A b \in Apps : "LAST" \in view'[a][b].flags <=> "LAST" \in view[a][b].flags
    BY <1>4
  <2>2. UNCHANGED setup /\ p \in {"begun", "step"}
    BY <1>3
  <2>3. Warned(a) => p = "step"
    BY <1>2, <1>7
  <2> QED
    BY <2>1, <2>2, <2>3, <1>4, <1>7 DEF Leaves
<1>11. EndsAt(a, F)'
  <2>1. ASSUME Alike(setup), Warned(a), a \notin late' PROVE n = F /\ cur = F
    <3>1. nt_max[a] = F /\ nt_cur[a] >= F - 1
      BY <2>1, <1>3, <1>6, <1>8 DEF EndsAt
    <3>2. cur = nt_cur[a] + 1 /\ nt_cur[a] < nt_max[a]
      BY <2>1, <1>1, <1>7 DEF Placed
    <3>3. cur = F
      BY <3>1, <3>2, <1>1
    <3>4. n = nt_max[a] \/ n = cur
      BY <2>1, <1>8
    <3> QED
      BY <3>1, <3>3, <3>4
  <2> HIDE DEF cur
  <2> QED
    BY <2>1, <1>3, <1>4, <1>5, <1>9 DEF EndsAt
<1>12. Ends(a, F)'
  BY <1>4, <1>10, <1>11 DEF Ends
<1> HIDE DEF cur
<1> QED
  BY <1>3, <1>4, <1>5, <1>9, <1>12, EndsOthers

LEMMA UniformEnds ==
  ASSUME RunInv, NEW F \in Int, \A b \in Apps : Ends(b, F), NEW a \in Apps, Uniform(a)
  PROVE  EndInv'
<1>1. /\ pc[a] = "begun" /\ nt_cur[a] \in Int /\ nt_max[a] \in Int /\ pc \in [Apps -> Places]
      /\ pc' = [pc EXCEPT ![a] = "early"]
      /\ UNCHANGED <<setup, nt_cur, nt_max, late>>
  BY BoundAssumption DEF Uniform, RunInv, LocalInv, LocalType
<1>2. ~Warned(a)
  BY <1>1 DEF Ends, Leaves
<1>3. PICK t \in TimeSteps \ {0} : Call(a, nt_cur[a] - 1, nt_max[a], t)
  BY DEF Uniform
<1>4. CallStep(a)' = nt_cur[a] - 1 /\ nt_cur[a] - 1 \in Int /\ nt_max'[a] = nt_max[a]
  BY <1>1 DEF CallStep
<1>5. /\ Announces(a)' /\ out'[a] = None /\ ~Warned(a)' /\ pc'[a] = "early"
      /\ \A c \in Apps \ {a} : /\ view'[c] = view[c] /\ joined'[c] = joined[c]
                               /\ out'[c] = out[c] /\ pc'[c] = pc[c]
  BY <1>1, <1>2, <1>3, <1>4, EndCall DEF Waiting
<1>6. Leaves(a)' /\ EndsAt(a, F)'
  BY <1>5 DEF Leaves, EndsAt
<1>7. Ends(a, F)'
  BY <1>5, <1>6 DEF Ends
<1> QED
  BY <1>1, <1>5, <1>7, EndsOthers

LEMMA EndStepEnds ==
  ASSUME RunInv, NEW F \in Int, \A b \in Apps : Ends(b, F), NEW a \in Apps, EndStep(a)
  PROVE  EndInv'
<1>1. /\ nt_cur[a] \in Int /\ nt_max[a] \in Int /\ dt[a] \in TimeSteps /\ Placed
      /\ nt_max \in [Apps -> Int] /\ pc \in [Apps -> Places]
      /\ pc[a] = "step" /\ UNCHANGED <<setup, nt_cur, late>>
  BY BoundAssumption DEF EndStep, RunInv, LocalInv, LocalType
<1>2. PICK max \in {nt_max[a], nt_cur[a]} :
        /\ nt_max' = [nt_max EXCEPT ![a] = max]
        /\ IF a \in setup.uniform
           THEN pc' = [pc EXCEPT ![a] = "save"] /\ UNCHANGED groupVars
           ELSE pc' = [pc EXCEPT ![a] = "last"] /\ Call(a, nt_cur[a], max, dt[a])
  BY DEF EndStep
<1>3. PICK p \in {"save", "last"} :
        pc' = [pc EXCEPT ![a] = p] /\ (p = "save" <=> a \in setup.uniform)
  BY <1>2
<1>4. max \in Int /\ nt_max'[a] = max /\ \A c \in Apps \ {a} : nt_max'[c] = nt_max[c]
  BY <1>1, <1>2
<1>5. /\ Announces(a)' /\ out'[a] = None /\ pc'[a] = p
      /\ Warned(a)' <=> Warned(a)
      /\ \A b \in Apps : "LAST" \in view'[a][b].flags <=> "LAST" \in view[a][b].flags
      /\ \A c \in Apps \ {a} : /\ view'[c] = view[c] /\ joined'[c] = joined[c]
                               /\ out'[c] = out[c] /\ pc'[c] = pc[c]
  <2>1. CASE a \in setup.uniform
    BY <2>1, <1>1, <1>2, <1>3, EndMove DEF Waiting, Places
  <2>2. CASE a \notin setup.uniform
    <3>1. Call(a, nt_cur[a], max, dt[a]) /\ p = "last"
      BY <2>2, <1>2, <1>3
    <3>2. CallStep(a)' = nt_cur[a]
      BY <3>1, <1>1, <1>3 DEF CallStep
    <3> QED
      BY <3>1, <3>2, <1>1, <1>3, <1>4, EndCall DEF Waiting
  <2> QED
    BY <2>1, <2>2
<1>6. Leaves(a) /\ EndsAt(a, F)
  BY DEF Ends
<1>7. ASSUME Warned(a)
      PROVE  /\ a \in setup.uniform => max = nt_cur[a]
             /\ a \notin setup.uniform => \E b \in Apps : "LAST" \in view'[a][b].flags
             /\ Alike(setup) /\ a \notin late => max = F /\ nt_cur[a] = F
  BY <1>1, <1>2, <1>5, <1>6, <1>7 DEF Leaves, EndsAt, Over
<1>8. Leaves(a)'
  BY <1>1, <1>3, <1>4, <1>5, <1>7 DEF Leaves
<1>9. EndsAt(a, F)'
  BY <1>1, <1>4, <1>5, <1>7 DEF EndsAt
<1>10. Ends(a, F)'
  BY <1>5, <1>8, <1>9 DEF Ends
<1> QED
  BY <1>1, <1>4, <1>5, <1>10, EndsOthers

\* An instance that learns of the end in a call stops there or goes to the last step.
LEMMA ReturnEnds ==
  ASSUME RunInv, NEW F \in Int, \A b \in Apps : Ends(b, F), NEW a \in Apps,
         FirstReturn(a) \/ UniformReturn(a) \/ StepReturn(a) \/ FinalReturn(a)
  PROVE  EndInv'
<1>1. /\ nt_cur[a] \in Int /\ nt_max[a] \in Int /\ Placed
  BY BoundAssumption DEF RunInv, LocalInv, LocalType
<1>2. PICK next \in {"test", "step", "save", "ended", "aborted"} :
        /\ Return(a, CallStep(a), next)
        /\ next = "test" => pc[a] = "first"
        /\ next = "step" => pc[a] = "early" /\ NewLimit(a, Known(a), CallStep(a)) >= nt_cur[a]
        /\ next = "save" => pc[a] = "last"
        /\ next = "ended" => pc[a] = "final"
        /\ pc[a] \in Waiting
  <2>1. CASE FirstReturn(a) \/ StepReturn(a) \/ FinalReturn(a)
    BY <2>1 DEF FirstReturn, StepReturn, FinalReturn, CallStep, Waiting
  <2>2. CASE UniformReturn(a)
    <3>1. pc[a] = "early" /\ CallStep(a) = nt_cur[a] - 1
      BY <2>2 DEF UniformReturn, CallStep
    <3>2. NewLimit(a, Known(a), CallStep(a)) \in Int
      BY <3>1, <1>1, LimitFacts
    <3>3. \/ /\ Return(a, CallStep(a), "step")
             /\ ~(NewLimit(a, Known(a), CallStep(a)) < nt_cur[a])
          \/ Return(a, CallStep(a), "aborted")
      BY <2>2, <3>1 DEF UniformReturn
    <3> QED
      BY <3>1, <3>2, <3>3, <1>1 DEF Waiting
  <2> QED
    BY <2>1, <2>2
<1>3. PICK cur \in Int : cur = CallStep(a) /\ cur <= nt_max[a]
        /\ cur = IF pc[a] = "early" THEN nt_cur[a] - 1 ELSE nt_cur[a]
  BY <1>1, <1>2 DEF CallStep, Placed, Waiting
<1>4. next \in Places \ Waiting
  BY DEF Places, Over, Waiting
<1>5. /\ Announces(a)' /\ out'[a] = None
      /\ UNCHANGED <<setup, nt_cur, late>>
      /\ Warned(a) => /\ Warned(a)'
                      /\ \A b \in Apps : "LAST" \in view[a][b].flags =>
                                           "LAST" \in view'[a][b].flags
      /\ \/ pc'[a] = "aborted"
         \/ /\ pc'[a] = next
            /\ nt_max'[a] = NewLimit(a, Known(a), cur)
            /\ nt_max'[a] \in Int /\ cur <= nt_max'[a] /\ nt_max'[a] <= nt_max[a]
            /\ ~Warned(a)' => nt_max'[a] > cur
            /\ Warned(a)' /\ ~Warned(a) =>
                 \/ nt_max'[a] = cur
                 \/ nt_max'[a] = cur + 1 /\ \E b \in Apps : "LAST" \in view'[a][b].flags
            /\ Alike(setup) /\ Warned(a)' /\ ~Warned(a) => nt_max'[a] = F
      /\ \A c \in Apps \ {a} :
           /\ view'[c] = view[c] /\ joined'[c] = joined[c] /\ out'[c] = out[c]
           /\ pc'[c] = pc[c] /\ nt_max'[c] = nt_max[c]
  <2>1. Return(a, cur, next) /\ Ends(a, F)
    BY <1>2, <1>3
  <2> QED
    BY <2>1, <1>2, <1>3, <1>4, EndReturn
<1>6. Leaves(a) /\ EndsAt(a, F)
  BY DEF Ends
<1>7. /\ Warned(a) => pc[a] \in {"last", "final"}
      /\ pc[a] = "last" /\ Warned(a) => \E b \in Apps : "LAST" \in view[a][b].flags
      /\ pc[a] = "final" => nt_cur[a] = nt_max[a]
      /\ Alike(setup) /\ Warned(a) /\ a \notin late => nt_max[a] = F /\ nt_cur[a] = F
  <2>1. Warned(a) => pc[a] \in {"last", "final"}
    BY <1>2, <1>6 DEF Leaves, Waiting
  <2>2. pc[a] = "last" => a \notin setup.uniform
    BY <1>1 DEF Placed
  <2>3. pc[a] = "last" /\ Warned(a) => \E b \in Apps : "LAST" \in view[a][b].flags
    BY <2>2, <1>6 DEF Leaves, Over
  <2>4. pc[a] = "final" => nt_cur[a] = nt_max[a]
    BY <1>6 DEF Leaves
  <2> QED
    BY <2>1, <2>3, <2>4, <1>6 DEF EndsAt
<1>8. CASE pc'[a] = "aborted"
  <2>1. Leaves(a)' /\ EndsAt(a, F)'
    BY <1>8 DEF Leaves, EndsAt, Over
  <2> QED
    BY <2>1, <1>5, EndsOthers DEF Ends
<1>9. CASE pc'[a] = next /\ next # "aborted"
  <2>1. /\ nt_max'[a] = NewLimit(a, Known(a), cur)
        /\ nt_max'[a] \in Int /\ cur <= nt_max'[a] /\ nt_max'[a] <= nt_max[a]
        /\ ~Warned(a)' => nt_max'[a] > cur
        /\ Warned(a)' /\ ~Warned(a) =>
             \/ nt_max'[a] = cur
             \/ nt_max'[a] = cur + 1 /\ \E b \in Apps : "LAST" \in view'[a][b].flags
        /\ Alike(setup) /\ Warned(a)' /\ ~Warned(a) => nt_max'[a] = F
    BY <1>5, <1>9
  <2>2. nt_cur'[a] = nt_cur[a] /\ UNCHANGED setup
    BY <1>5
  <2>3. CASE next = "test"
    <3>1. ~Warned(a) /\ cur = nt_cur[a] /\ a \notin setup.uniform
      BY <2>3, <1>1, <1>2, <1>3, <1>7 DEF Placed
    <3>2. Leaves(a)'
      BY <2>1, <2>2, <2>3, <3>1, <1>9 DEF Leaves
    <3>3. EndsAt(a, F)'
      BY <2>1, <2>2, <2>3, <3>1, <1>1, <1>5, <1>9 DEF EndsAt
    <3> QED
      BY <3>2, <3>3, <1>5, EndsOthers DEF Ends
  <2>4. CASE next = "step"
    <3>1. ~Warned(a) /\ cur = nt_cur[a] - 1 /\ a \in setup.uniform /\ nt_max'[a] >= nt_cur[a]
      BY <2>1, <2>4, <1>1, <1>2, <1>3, <1>7 DEF Placed
    <3>2. Warned(a)' => nt_max'[a] = nt_cur[a] /\ (Alike(setup) => nt_max'[a] = F)
      BY <2>1, <3>1, <1>1
    <3>3. Leaves(a)'
      BY <2>2, <2>4, <3>1, <3>2, <1>9 DEF Leaves
    <3>4. EndsAt(a, F)'
      BY <2>2, <2>4, <3>2, <1>1, <1>5, <1>9 DEF EndsAt
    <3> QED
      BY <3>3, <3>4, <1>5, EndsOthers DEF Ends
  <2>5. CASE next = "save"
    <3>1. cur = nt_cur[a] /\ a \notin setup.uniform /\ pc[a] = "last"
      BY <2>5, <1>1, <1>2, <1>3 DEF Placed
    <3>2. Warned(a)' => (\E b \in Apps : "LAST" \in view'[a][b].flags) \/ nt_max'[a] = nt_cur[a]
      BY <2>1, <3>1, <1>5, <1>7
    <3>3. Alike(setup) /\ Warned(a)' /\ a \notin late =>
            nt_max'[a] = F /\ nt_cur[a] >= F - 1
      BY <2>1, <3>1, <1>1, <1>7
    <3>4. Leaves(a)'
      BY <2>1, <2>2, <2>5, <3>1, <3>2, <1>1, <1>9 DEF Leaves
    <3>5. EndsAt(a, F)'
      BY <2>2, <2>5, <3>3, <1>5, <1>9 DEF EndsAt
    <3> QED
      BY <3>4, <3>5, <1>5, EndsOthers DEF Ends
  <2>6. CASE next = "ended"
    <3>1. cur = nt_cur[a] /\ pc[a] = "final" /\ nt_max'[a] = nt_cur[a]
      BY <2>1, <2>6, <1>1, <1>2, <1>3, <1>7
    <3>2. Warned(a)'
      BY <2>1, <3>1, <1>1
    <3>3. Alike(setup) /\ a \notin late => nt_max'[a] = F
      BY <2>1, <3>1, <3>2, <1>7
    <3>4. Leaves(a)'
      BY <2>2, <2>6, <3>1, <3>2, <1>9 DEF Leaves, Over
    <3>5. EndsAt(a, F)'
      BY <2>2, <2>6, <3>1, <3>2, <3>3, <1>1, <1>5, <1>9 DEF EndsAt
    <3> QED
      BY <3>4, <3>5, <1>5, EndsOthers DEF Ends
  <2> QED
    BY <2>3, <2>4, <2>5, <2>6, <1>9
<1> QED
  BY <1>5, <1>8, <1>9

LEMMA FinishEnds ==
  ASSUME RunInv, NEW F \in Int, \A b \in Apps : Ends(b, F), NEW a \in Apps,
         pc[a] \in {"save", "saving"}, Finish(a), UNCHANGED <<setup, nt_cur, nt_max, late>>
  PROVE  EndInv'
<1>1. /\ nt_cur[a] \in Int /\ nt_max[a] \in Int /\ pc \in [Apps -> Places]
      /\ nt_cur[a] <= nt_max[a]
  BY BoundAssumption DEF RunInv, LocalInv, LocalType, Placed
<1>2. PICK p \in {"loop", "final", "ended"} :
        /\ pc' = [pc EXCEPT ![a] = p]
        /\ p = "loop" => nt_cur[a] < nt_max[a]
        /\ p # "loop" => nt_cur[a] = nt_max[a]
        /\ p = "final" => a \in setup.uniform /\
             \E t \in TimeSteps \ {0} : Call(a, nt_cur[a], nt_max[a], t)
        /\ p # "final" => UNCHANGED groupVars
        /\ p = "ended" => a \notin setup.uniform
  BY <1>1 DEF Finish, GoesOn
<1>3. /\ Announces(a)' /\ out'[a] = None /\ pc'[a] = p
      /\ Warned(a)' <=> Warned(a)
      /\ \A b \in Apps : "LAST" \in view'[a][b].flags <=> "LAST" \in view[a][b].flags
      /\ \A c \in Apps \ {a} : /\ view'[c] = view[c] /\ joined'[c] = joined[c]
                               /\ out'[c] = out[c] /\ pc'[c] = pc[c]
  <2>1. CASE p = "final"
    <3>1. PICK t \in TimeSteps \ {0} : Call(a, nt_cur[a], nt_max[a], t)
      BY <2>1, <1>2
    <3>2. /\ CallStep(a)' = nt_cur[a] /\ nt_max'[a] = nt_max[a]
          /\ pc' = [pc EXCEPT ![a] = "final"]
      BY <2>1, <1>1, <1>2 DEF CallStep
    <3> QED
      BY <2>1, <3>1, <3>2, <1>1, EndCall DEF Waiting
  <2>2. CASE p # "final"
    BY <2>2, <1>2, EndMove DEF Waiting, Places, Over
  <2> QED
    BY <2>1, <2>2
<1>4. Leaves(a) /\ EndsAt(a, F)
  BY DEF Ends
<1>5. Leaves(a)'
  BY <1>1, <1>2, <1>3, <1>4 DEF Leaves, Over
<1>6. EndsAt(a, F)'
  BY <1>2, <1>3, <1>4 DEF EndsAt
<1>7. Ends(a, F)'
  BY <1>3, <1>5, <1>6 DEF Ends
<1> QED
  BY <1>3, <1>7, EndsOthers

LEMMA CheckpointEnds ==
  ASSUME RunInv, NEW F \in Int, \A b \in Apps : Ends(b, F), NEW a \in Apps,
         TestCheckpoint(a) \/ Save(a)
  PROVE  EndInv'
<1>1. CASE Finish(a)
  BY <1>1, FinishEnds DEF TestCheckpoint, Save
<1>2. CASE ~Finish(a)
  <2>1. /\ pc[a] = "save" /\ pc' = [pc EXCEPT ![a] = "saving"] /\ CheckpointDue(a)
        /\ UNCHANGED <<groupVars, setup, nt_cur, nt_max, late>>
    BY <1>2 DEF TestCheckpoint, Save
  <2>2. /\ Announces(a)' /\ out'[a] = None /\ pc'[a] = "saving"
        /\ UNCHANGED <<view, joined, out>>
        /\ Warned(a)' <=> Warned(a)
        /\ \A c \in Apps \ {a} : pc'[c] = pc[c]
    BY <2>1, EndMove DEF Waiting, Places
  <2>3. nt_cur[a] = nt_max[a]
    BY <2>1, BoundAssumption DEF CheckpointDue, RunInv, LocalInv, LocalType, Placed
  <2>4. Leaves(a) /\ EndsAt(a, F)
    BY DEF Ends
  <2>5. Leaves(a)'
    BY <2>1, <2>2, <2>3, <2>4 DEF Leaves, Over
  <2>6. EndsAt(a, F)'
    BY <2>1, <2>2, <2>4 DEF EndsAt
  <2>7. Ends(a, F)'
    BY <2>2, <2>5, <2>6 DEF Ends
  <2> QED
    BY <2>1, <2>2, <2>7, EndsOthers
<1> QED
  BY <1>1, <1>2

LEMMA KilledEnds ==
  ASSUME RunInv, NEW F \in Int, \A b \in Apps : Ends(b, F), NEW a \in Apps, Killed(a)
  PROVE  EndInv'
<1>1. /\ pc'[a] = "killed" /\ \A c \in Apps \ {a} : pc'[c] = pc[c]
      /\ UNCHANGED <<view, joined, out, setup, nt_cur, nt_max, late>>
  BY DEF Killed, groupVars, RunInv, LocalInv, LocalType
<1>2. Announces(a)' /\ Leaves(a)' /\ EndsAt(a, F)'
  BY <1>1 DEF Ends, Announces, Leaves, EndsAt, Waiting, Over
<1> QED
  BY <1>1, <1>2, EndsOthers DEF Ends

\* Before an end is announced all instances take part in each exchange, and speak of the
\* same step.
LEMMA SameStep ==
  ASSUME RunInv, SameRounds, Alike(setup), \A a \in Apps : joined[a] # None /\ ~Warned(a),
         NEW a \in Apps, NEW b \in Apps, {pc[a], pc[b]} \subseteq Waiting
  PROVE  CallStep(a) = CallStep(b)
<1>1. PICK k \in [Apps -> Nat] : Rounds(k)
  BY DEF SameRounds
<1>2. \A c \in Apps : Active(view[c]) = Apps
  BY NoEnding DEF Warned, RunInv, ExchangeInv, GroupInv, GroupTypeOK
<1>3. k[a] = k[b]
  <2>1. Closed(a, k[a]) = Closed(b, k[b])
    BY <1>1, <1>2 DEF Rounds, Together
  <2> QED
    BY <2>1 DEF Closed
<1> DEFINE behind(c) == IF c \in setup.uniform \cap setup.ale THEN 2 ELSE 1
<1>4. ASSUME NEW c \in {a, b} PROVE CallStep(c) = k[c] - behind(c)
  <2>1. Calls(c, k[c]) /\ nt_cur[c] \in Nat /\ k[c] \in Nat /\ pc[c] \in Waiting
    BY <1>1, <1>2, BoundAssumption DEF Rounds, RunInv, LocalInv, LocalType
  <2>2. /\ pc[c] \in {"first", "last"} => c \notin setup.uniform
        /\ pc[c] \in {"early", "final"} => c \in setup.uniform
    BY DEF RunInv, LocalInv, Placed
  <2> QED
    BY <2>1, <2>2 DEF Calls, Extra, CallStep, Waiting
<1>5. behind(a) = behind(b)
  BY DEF Alike
<1> QED
  BY <1>3, <1>4, <1>5

LEMMA ExchangeEnds ==
  ASSUME RunInv, SameRounds, NEW F \in Int, \A b \in Apps : Ends(b, F), Exchange
  PROVE  EndInv'
<1>1. PICK S \in SUBSET Apps : Close(S)
  BY DEF Exchange
<1>2. PICK r \in S : out' = [a \in Apps |-> IF a \in S THEN Vector(S, r) ELSE out[a]]
  BY <1>1 DEF Close
<1>3. PICK V : V = Vector(S, r)
  OBVIOUS
<1>4. /\ \A a \in S : joined[a] # None /\ Active(view[a]) = S
      /\ view' = view /\ UNCHANGED <<setup, pc, nt_cur, nt_max, late>>
      /\ \A a \in S : out'[a] = V /\ joined'[a] = None
      /\ \A a \in Apps \ S : out'[a] = out[a] /\ joined'[a] = joined[a]
      /\ \A b \in S : V[b] = joined[b]
      /\ \A b \in Apps \ S : V[b] = view[r][b]
  BY <1>1, <1>2, <1>3 DEF Close, Vector, Exchange
<1>5. \A a \in S : view[a] = view[r]
  BY <1>4, InvAgrees DEF RunInv, ExchangeInv, Agreement
<1>6. ASSUME NEW a \in Apps PROVE Announces(a)'
  <2>1. Announces(a)
    BY DEF Ends
  <2>2. CASE a \in S
    <3>1. \A b \in Apps : Leaving(view'[a][b]) => b \notin Active(view'[a])
      BY <2>1, <2>2, <1>4 DEF Announces
    <3>2. \A b \in Apps \ Active(view'[a]) : out'[a][b] = view'[a][b]
      BY <2>2, <1>4, <1>5
    <3>3. CallStep(a)' = CallStep(a) /\ out'[a][a] = joined[a] /\ joined'[a] = None
      BY <2>2, <1>4 DEF CallStep
    <3>4. pc'[a] \in Waiting /\ CallStep(a)' >= nt_max'[a] => "STOP" \in out'[a][a].flags
      BY <2>1, <2>2, <3>3, <1>4 DEF Announces
    <3> QED
      BY <3>1, <3>2, <3>3, <3>4 DEF Announces
  <2>3. CASE a \notin S
    BY <2>1, <2>3, <1>4 DEF Announces, CallStep
  <2> QED
    BY <2>2, <2>3
<1>7. \A a \in Apps : Leaves(a)'
  BY <1>4 DEF Ends, Leaves, Warned
<1>8. CASE \E a \in S : Warned(a)
  <2>1. \A a \in S : Warned(a)'
    BY <1>4, <1>5, <1>8 DEF Warned
  <2>2. ASSUME NEW a \in Apps PROVE EndsAt(a, F)'
    <3>1. EndsAt(a, F)
      BY DEF Ends
    <3>2. CASE a \in S
      BY <3>1, <3>2, <2>1, <1>4 DEF EndsAt, Warned
    <3>3. CASE a \notin S
      BY <3>1, <3>3, <1>4 DEF EndsAt, Warned, CallStep
    <3> QED
      BY <3>2, <3>3
  <2> QED
    BY <2>2, <1>6, <1>7 DEF EndInv, Ends
<1>9. CASE \A a \in S : ~Warned(a)
  <2>1. S = Apps
    <3>1. view[r] \in [Apps -> Values]
      BY DEF RunInv, ExchangeInv, GroupInv, GroupTypeOK
    <3> QED
      BY <3>1, <1>4, <1>9, NoEnding DEF Warned
  <2>2. \A a \in Apps : pc[a] \in Waiting \cup {"killed"}
    BY <2>1, <1>4 DEF RunInv, LocalInv, Waited
  <2>3. ASSUME Alike(setup), NEW a \in Apps, NEW b \in Apps, {pc[a], pc[b]} \subseteq Waiting
        PROVE  CallStep(a) = CallStep(b)
    BY <2>1, <2>3, <1>4, <1>9, SameStep
  <2>4. \E c \in Int : \A a \in Apps :
          Alike(setup) /\ pc[a] \in Waiting => CallStep(a) = c
    <3>1. CASE \E a \in Apps : pc[a] \in Waiting
      <4>1. PICK a \in Apps : pc[a] \in Waiting
        BY <3>1
      <4>2. CallStep(a) \in Int
        BY BoundAssumption DEF CallStep, RunInv, LocalInv, LocalType
      <4> QED
        BY <4>1, <4>2, <2>3
    <3>2. CASE \A a \in Apps : pc[a] \notin Waiting
      BY <3>2
    <3> QED
      BY <3>1, <3>2
  <2>5. PICK c \in Int : \A a \in Apps :
          Alike(setup) /\ pc[a] \in Waiting => CallStep(a) = c
    BY <2>4
  <2>6. PICK G \in Int : c = IF With(V, "STOP") # {} THEN G ELSE G - 1
    <3>1. CASE With(V, "STOP") # {}
      BY <3>1
    <3>2. CASE With(V, "STOP") = {}
      <4>1. c + 1 \in Int /\ c = (c + 1) - 1
        OBVIOUS
      <4> QED
        BY <3>2, <4>1
    <3> QED
      BY <3>1, <3>2
  <2>7. ASSUME NEW a \in Apps PROVE EndsAt(a, G)'
    <3>1. /\ ~Warned(a)' /\ out'[a] = V /\ CallStep(a)' = CallStep(a) /\ pc'[a] = pc[a]
          /\ UNCHANGED setup
      BY <2>1, <1>4, <1>9 DEF Warned, CallStep
    <3>2. Alike(setup) /\ pc[a] \notin {"aborted", "killed"} => CallStep(a) = c
      BY <2>2, <2>5
    <3> QED
      BY <3>1, <3>2, <2>6 DEF EndsAt
  <2> QED
    BY <2>7, <1>6, <1>7 DEF EndInv, Ends
<1> QED
  BY <1>8, <1>9

LEMMA EndsStep ==
  ASSUME RunInv, SameRounds, EndInv, [Next]_vars
  PROVE  EndInv'
<1>1. PICK F \in Int : \A a \in Apps : Ends(a, F)
  BY DEF EndInv
<1>2. ASSUME NEW a \in Apps, Step(a) PROVE EndInv'
  BY <1>1, <1>2, StartEnds, TestStartEnds, BeginStepEnds, UniformEnds, EndStepEnds,
     ReturnEnds, CheckpointEnds DEF Step
<1>3. CASE UNCHANGED vars
  <2>1. \A a \in Apps : Ends(a, F)'
    BY <1>1, <1>3 DEF vars, Ends, Announces, Leaves, EndsAt, Warned, CallStep
  <2> QED
    BY <2>1 DEF EndInv
<1>4. CASE Exchange
  BY <1>1, <1>4, ExchangeEnds
<1>5. ASSUME NEW a \in Apps, Killed(a) PROVE EndInv'
  BY <1>1, <1>5, KilledEnds
<1> QED
  BY <1>2, <1>3, <1>4, <1>5 DEF Next

LEMMA EndHolds == Spec => []EndInv
<1>1. Init => EndInv
  <2> SUFFICES ASSUME Init PROVE EndInv
    OBVIOUS
  <2>1. \A a \in Apps : /\ pc[a] = "start" /\ joined[a] = None /\ out[a] = None
                        /\ view[a] = setup.start
    BY DEF Init, GroupInit
  <2>2. setup.start \in [Apps -> Starts]
    BY SetupAssumption DEF Init
  <2>3. ~Ending(setup.start)
    BY <2>2, SynchronizedAssumption DEF Ending, Leaving
  <2>4. \A a \in Apps : Ends(a, 0)
    BY <2>1, <2>3 DEF Ends, Announces, Leaves, EndsAt, Warned, Waiting
  <2> QED
    BY <2>4 DEF EndInv
<1>2. RunInv /\ SameRounds /\ EndInv /\ [Next]_vars => EndInv'
  BY EndsStep
<1> QED
  BY <1>1, <1>2, RunHolds, RoundsHold, PTL DEF Spec

\* Instances that end by themselves end at the same step, whoever reaches its limit or is
\* told to stop first: the end is announced to all in cs_coupling_sync_apps, in time for
\* each of them.
THEOREM EndTogether ==
  ASSUME \A s \in Setups : Alike(s)
  PROVE  Spec => []CommonEnd
<1>1. RunInv => Alike(setup)
  BY DEF RunInv, LocalInv, LocalType
<1>2. RunInv /\ EndInv => CommonEnd
  BY <1>1 DEF EndInv, Ends, Leaves, EndsAt, CommonEnd
<1> QED
  BY <1>2, RunHolds, EndHolds, PTL

(***************************************************************************)
(* Instances do not end abruptly.                                          *)
(***************************************************************************)

\* There is something to do, and no end before the first exchange.
Ready(a) ==
  /\ pc[a] \in {"start", "first", "test", "init"} => nt_max[a] > 0
  /\ pc[a] \in {"step", "last"} /\ a \notin setup.uniform /\ nt_cur[a] = 0 =>
       a \in setup.ale /\ nt_max[a] > 0

\* As long as no end is known, one that is not sudden is more than an exchange away.
Ahead(a) ==
  a \notin Sudden(setup) /\ ~Warned(a) =>
    IF a \in setup.uniform
    THEN pc[a] \in {"step", "save", "saving"} => nt_cur[a] < nt_max[a]
    ELSE /\ pc[a] \in {"test", "loop", "save", "saving"} => nt_cur[a] + 1 < nt_max[a]
         /\ pc[a] = "step" => nt_cur[a] < nt_max[a]

\* Where an instance has been through an exchange, or has not.
Passed(a) ==
  IF a \in setup.uniform THEN pc[a] \in {"step", "save", "saving"}
  ELSE pc[a] \in {"test", "loop", "save", "saving"} \/ (pc[a] = "step" /\ nt_cur[a] > 0)
Spoken(a) ==
  /\ ~Warned(a) /\ Passed(a) => "NEW" \in view[a][a].flags
  /\ pc[a] \in {"start", "first"} => \A b \in Apps : "NEW" \notin view[a][b].flags

\* Each gives an end or a new iteration, and its last one beforehand; only a sudden end
\* is given by an instance that knows of none.
Says(a, v) ==
  /\ {"STOP", "NEW"} \cap v.flags # {}
  /\ pc[a] \in Waiting /\ CallStep(a) = nt_max[a] - 1 => "LAST" \in v.flags
Gives(a) ==
  /\ joined[a] # None => /\ Says(a, joined[a])
                         /\ ~Warned(a) /\ "STOP" \in joined[a].flags =>
                              /\ a \in Sudden(setup) /\ "NEW" \in view[a][a].flags
                              /\ pc[a] # "early"
  /\ out[a] # None => /\ Says(a, out[a][a])
                      /\ ~Warned(a) =>
                           \A b \in Apps : ("STOP" \in out[a][b].flags) =>
                             /\ b \in Sudden(setup) /\ pc[a] # "first"
                             /\ b = a => pc[a] # "early"

Smooth(a) ==
  /\ Ready(a) /\ Ahead(a) /\ Spoken(a) /\ Gives(a)
  /\ pc[a] = "aborted" => Refused(view[a])
SmoothInv == Usual(setup) => \A a \in Apps : Smooth(a)

LEMMA SmoothOthers ==
  ASSUME Usual(setup), \A b \in Apps : Smooth(b), NEW a \in Apps, Smooth(a)',
         UNCHANGED setup,
         \A c \in Apps \ {a} :
           /\ view'[c] = view[c] /\ joined'[c] = joined[c] /\ out'[c] = out[c]
           /\ pc'[c] = pc[c] /\ nt_cur'[c] = nt_cur[c] /\ nt_max'[c] = nt_max[c]
  PROVE  SmoothInv'
<1>1. ASSUME NEW c \in Apps \ {a} PROVE Smooth(c)'
  <2>1. Smooth(c)
    OBVIOUS
  <2>2. Ready(c)' /\ Ahead(c)'
    BY <2>1 DEF Smooth, Ready, Ahead, Warned
  <2>3. Spoken(c)'
    BY <2>1 DEF Smooth, Spoken, Passed, Warned
  <2>4. Gives(c)'
    BY <2>1 DEF Smooth, Gives, Says, CallStep, Warned
  <2>5. pc'[c] = "aborted" => Refused(view'[c])
    BY <2>1 DEF Smooth
  <2> QED
    BY <2>2, <2>3, <2>4, <2>5 DEF Smooth
<1> QED
  BY <1>1 DEF SmoothInv

\* A call of an instance that knows of no end tells exactly whether the limit is reached.
LEMMA CallGives ==
  ASSUME RunInv, Usual(setup), NEW a \in Apps, NEW cur \in Int, NEW max \in Int,
         NEW step \in TimeSteps, NEW p \in Waiting, Call(a, cur, max, step),
         pc' = [pc EXCEPT ![a] = p], CallStep(a)' = cur, nt_max'[a] = max, UNCHANGED setup,
         ~Warned(a) /\ cur >= max =>
           a \in Sudden(setup) /\ "NEW" \in view[a][a].flags /\ p # "early"
  PROVE  /\ Gives(a)'
         /\ \A b \in Apps : "NEW" \in view'[a][b].flags <=> "NEW" \in view[a][b].flags
<1>1. /\ GroupTypeOK /\ view[a] \in [Apps -> Values] /\ pc \in [Apps -> Places]
      /\ view \in [Apps -> [Apps -> Values]] /\ joined \in [Apps -> Values \cup {None}]
  BY DEF RunInv, ExchangeInv, GroupInv, GroupTypeOK, LocalInv, LocalType
<1>2. PICK v : v = Offer(a, cur, max, step)
  OBVIOUS
<1>3. Join(a, v) /\ v.flags = SyncFlags(a, cur, max)
  BY <1>2 DEF Call, Offer
<1>4. /\ view'[a] = Mark(view[a]) /\ out'[a] = None
      /\ joined'[a] # None => joined'[a] = v
      /\ pc'[a] = p
  BY <1>1, <1>3 DEF Join
<1>5. \A b \in Apps : "NEW" \in view'[a][b].flags <=> "NEW" \in view[a][b].flags
  <2>1. "NEW" \in Flag \ {"INIT", "NO_SYNC"}
    BY DEF Flag
  <2> QED
    BY <2>1, <1>1, <1>4, MarkFacts
<1>6. Warned(a)' <=> Warned(a)
  BY <1>1, <1>4, MarkEnds DEF Warned
<1>7. ASSUME ~Warned(a), "STOP" \in v.flags PROVE cur >= max
  <2>1. "STOP" \notin view[a][a].flags
    BY <1>7 DEF Warned, Ending, Leaving, LastSync
  <2>2. setup.syrthes = {}
    BY DEF Usual
  <2> QED
    BY <2>1, <2>2, <1>3, <1>7 DEF SyncFlags
<1>8. {"STOP", "NEW"} \cap v.flags # {} /\ (cur = max - 1 => "LAST" \in v.flags)
  BY <1>3 DEF SyncFlags
<1>9. ASSUME joined'[a] # None
      PROVE  /\ Says(a, joined[a])'
             /\ ~Warned(a)' /\ "STOP" \in joined'[a].flags =>
                  /\ a \in Sudden(setup)' /\ "NEW" \in view'[a][a].flags
                  /\ pc'[a] # "early"
  <2>1. joined'[a] = v
    BY <1>4, <1>9
  <2>2. Says(a, joined[a])'
    BY <2>1, <1>8 DEF Says
  <2>3. ASSUME ~Warned(a)', "STOP" \in v.flags
        PROVE  a \in Sudden(setup) /\ "NEW" \in view'[a][a].flags /\ pc'[a] # "early"
    BY <2>3, <1>4, <1>5, <1>6, <1>7
  <2>4. Sudden(setup)' = Sudden(setup)
    BY DEF Sudden
  <2> QED
    BY <2>1, <2>2, <2>3, <2>4
<1>10. Gives(a)'
  BY <1>4, <1>9 DEF Gives
<1> QED
  BY <1>5, <1>10

\* The return of a call: an instance that learns of no end has more to do than the step
\* that follows.
LEMMA ReturnGives ==
  ASSUME RunInv, Usual(setup), NEW F \in Int, NEW a \in Apps, Ends(a, F), Smooth(a),
         pc[a] \in Waiting, NEW cur \in Int, cur = CallStep(a), cur <= nt_max[a],
         NEW next \in Places \ Waiting, Return(a, cur, next)
  PROVE  /\ Gives(a)'
         /\ \/ pc'[a] = "aborted" /\ Refused(view'[a])
            \/ pc'[a] = next /\ nt_max'[a] = NewLimit(a, Known(a), cur)
         /\ ~Warned(a)' => /\ nt_max[a] > cur + 1 /\ "NEW" \in view'[a][a].flags
                           /\ NewLimit(a, Known(a), cur) = nt_max[a]
         /\ pc[a] = "first" \/ (pc[a] = "early" /\ a \in setup.uniform) =>
              (nt_max[a] > cur => NewLimit(a, Known(a), cur) > cur)
<1> DEFINE K == Known(a)
<1>1. /\ joined[a] = None /\ K \in [Apps -> Values]
      /\ out[a] # None \/ (out[a] = None /\ a \notin Active(view[a]))
      /\ view'[a] = K /\ out'[a] = None /\ joined' = joined
      /\ K = IF out[a] # None THEN out[a] ELSE view[a]
  BY ReturnFacts DEF Known
<1>2. /\ pc \in [Apps -> Places] /\ nt_max \in [Apps -> Int] /\ nt_max[a] \in Int
      /\ view[a] \in [Apps -> Values]
  BY BoundAssumption DEF RunInv, LocalInv, LocalType, ExchangeInv, GroupInv, GroupTypeOK
<1>3. \/ pc'[a] = "aborted" /\ Refused(view'[a])
      \/ pc'[a] = next /\ nt_max'[a] = NewLimit(a, K, cur)
  BY <1>1, <1>2 DEF Return
<1>4. Gives(a) /\ Announces(a) /\ Leaves(a)
  BY DEF Smooth, Ends
<1>5. Warned(a)' <=> Ending(K)
  BY <1>1 DEF Warned
<1>6. Warned(a) => Warned(a)'
  BY EndReturn
<1>7. K = Known(a)
  OBVIOUS
<1> HIDE DEF K
<1>8. Gives(a)'
  BY <1>1 DEF Gives
<1>9. ASSUME ~Warned(a) PROVE out[a] # None /\ K = out[a] /\ Active(K) = Apps
  <2>1. Active(view[a]) = Apps
    BY <1>2, <1>9, NoEnding DEF Warned
  <2> QED
    BY <2>1, <1>1 DEF RunInv, ExchangeInv, Kept
<1>10. ASSUME ~Warned(a)'
       PROVE  /\ nt_max[a] > cur + 1 /\ "NEW" \in K[a].flags
              /\ NewLimit(a, K, cur) = nt_max[a]
  <2>1. ~Warned(a) /\ out[a] # None /\ K = out[a]
    BY <1>6, <1>9, <1>10
  <2>2. "STOP" \notin K[a].flags /\ "LAST" \notin K[a].flags
    BY <1>5, <1>10 DEF Ending, Leaving, LastSync
  <2>3. Says(a, K[a])
    BY <2>1, <1>4 DEF Gives
  <2>4. ~(cur >= nt_max[a])
    BY <2>1, <2>2, <1>4 DEF Announces
  <2>5. cur # nt_max[a] - 1 /\ "NEW" \in K[a].flags
    BY <2>2, <2>3 DEF Says
  <2>6. With(K, "STOP") = {} /\ With(K, "LAST") = {}
    BY <1>1, <1>5, <1>10, NoEnding
  <2> QED
    BY <2>4, <2>5, <2>6, <1>2, LimitAtEnd
<1>11. ASSUME pc[a] = "first" \/ (pc[a] = "early" /\ a \in setup.uniform), nt_max[a] > cur
       PROVE  NewLimit(a, K, cur) > cur
  <2>1. ~Warned(a)
    BY <1>4, <1>11 DEF Leaves
  <2>2. ASSUME NEW b \in Apps, "STOP" \in K[b].flags PROVE FALSE
    <3>1. b \in Sudden(setup) /\ pc[a] # "first" /\ (b = a => pc[a] # "early")
      BY <2>1, <2>2, <1>4, <1>9 DEF Gives
    <3>2. setup.uniform \subseteq {b}
      BY <3>1 DEF Usual, Foreseen
    <3> QED
      BY <3>1, <3>2, <1>11
  <2>3. With(K, "STOP") = {}
    BY <2>2 DEF With, Active
  <2> QED
    BY <2>3, <1>2, <1>11, LimitAtEnd
<1> QED
  BY <1>1, <1>3, <1>7, <1>8, <1>10, <1>11

LEMMA MoveGives ==
  ASSUME RunInv, NEW a \in Apps, pc[a] \notin Waiting \cup {"killed"}, UNCHANGED groupVars
  PROVE  Gives(a)'
<1>1. joined'[a] = None /\ out'[a] = None
  BY DEF RunInv, LocalInv, Waited, groupVars
<1> QED
  BY <1>1 DEF Gives

LEMMA StartSmooth ==
  ASSUME RunInv, Usual(setup), NEW F \in Int, \A b \in Apps : Ends(b, F),
         \A b \in Apps : Smooth(b), NEW a \in Apps, Start(a)
  PROVE  SmoothInv'
<1>1. /\ pc[a] = "start" /\ nt_cur[a] \in Int /\ nt_max[a] \in Int /\ dt[a] \in TimeSteps
      /\ pc \in [Apps -> Places] /\ nt_cur[a] = 0 /\ nt_max[a] > 0
      /\ UNCHANGED <<setup, nt_cur, nt_max>>
  BY BoundAssumption DEF Start, RunInv, LocalInv, LocalType, Placed, Smooth, Ready
<1>2. ~Warned(a) /\ Spoken(a)
  BY <1>1 DEF Ends, Leaves, Smooth
<1>3. PICK p \in {"init", "test", "first"} : pc' = [pc EXCEPT ![a] = p] /\
        (p = "test" => a \in setup.uniform) /\
        IF p = "first" THEN Call(a, nt_cur[a], nt_max[a], dt[a]) ELSE UNCHANGED groupVars
  BY DEF Start
<1>4. /\ Gives(a)' /\ pc'[a] = p
      /\ \A b \in Apps : "NEW" \in view'[a][b].flags <=> "NEW" \in view[a][b].flags
      /\ \A c \in Apps \ {a} : /\ view'[c] = view[c] /\ joined'[c] = joined[c]
                               /\ out'[c] = out[c] /\ pc'[c] = pc[c]
  <2>1. CASE p = "first"
    <3>1. CallStep(a)' = nt_cur[a] /\ nt_max'[a] = nt_max[a] /\ ~(nt_cur[a] >= nt_max[a])
      BY <1>1, <1>3, <2>1 DEF CallStep
    <3>2. pc' = [pc EXCEPT ![a] = "first"] /\ Call(a, nt_cur[a], nt_max[a], dt[a])
      BY <1>3, <2>1
    <3> QED
      BY <2>1, <3>1, <3>2, <1>1, EndCall, CallGives DEF Waiting
  <2>2. CASE p # "first"
    <3>1. UNCHANGED groupVars /\ pc[a] \notin Waiting \cup {"killed"}
      BY <2>2, <1>1, <1>3 DEF Waiting
    <3> QED
      BY <3>1, <1>1, <1>3, MoveGives DEF groupVars
  <2> QED
    BY <2>1, <2>2
<1>5. Ready(a)' /\ Ahead(a)' /\ Spoken(a)'
  BY <1>1, <1>2, <1>3, <1>4 DEF Ready, Ahead, Spoken, Passed
<1>6. Smooth(a)'
  BY <1>4, <1>5 DEF Smooth
<1> QED
  BY <1>1, <1>4, <1>6, SmoothOthers

LEMMA TestStartSmooth ==
  ASSUME RunInv, Usual(setup), \A b \in Apps : Smooth(b), NEW a \in Apps, TestStart(a)
  PROVE  SmoothInv'
<1>1. /\ pc[a] = "test" /\ UNCHANGED <<setup, nt_cur, nt_max, groupVars>>
      /\ nt_cur[a] = 0 /\ nt_max[a] > 0 /\ pc \in [Apps -> Places] /\ nt_max[a] \in Int
  BY BoundAssumption DEF TestStart, RunInv, LocalInv, LocalType, Placed, Smooth, Ready
<1>2. pc' = [pc EXCEPT ![a] = "loop"]
  <2>1. nt_max[a] # nt_cur[a]
    BY <1>1
  <2>2. pc' = [pc EXCEPT ![a] = IF nt_max[a] = nt_cur[a] THEN "aborted" ELSE "loop"]
    BY DEF TestStart
  <2> QED
    BY <2>1, <2>2
<1>3. /\ pc'[a] = "loop" /\ UNCHANGED <<view, joined, out>>
      /\ \A c \in Apps \ {a} : pc'[c] = pc[c]
  BY <1>1, <1>2 DEF groupVars
<1>4. Gives(a)'
  BY <1>1, MoveGives DEF Waiting
<1>5. Ahead(a) /\ Spoken(a)
  BY DEF Smooth
<1>6. Ready(a)' /\ Ahead(a)' /\ Spoken(a)'
  BY <1>1, <1>3, <1>5 DEF Ready, Ahead, Spoken, Passed, Warned
<1>7. Smooth(a)'
  BY <1>3, <1>4, <1>6 DEF Smooth
<1> QED
  BY <1>1, <1>3, <1>7, SmoothOthers

LEMMA BeginStepSmooth ==
  ASSUME RunInv, Usual(setup), \A b \in Apps : Smooth(b), NEW a \in Apps, BeginStep(a)
  PROVE  SmoothInv'
<1> DEFINE cur == nt_cur[a] + (IF pc[a] = "loop" THEN 1 ELSE 0)
<1>1. /\ nt_cur \in [Apps -> Int] /\ nt_max \in [Apps -> Int] /\ pc \in [Apps -> Places]
      /\ nt_cur[a] \in Nat /\ nt_max[a] \in Int /\ Placed
  BY BoundAssumption DEF RunInv, LocalInv, LocalType
<1>2. PICK p \in {"begun", "step"} : pc' = [pc EXCEPT ![a] = p] /\
        (p = "begun" <=> a \in setup.uniform)
  BY DEF BeginStep
<1>3. /\ pc[a] \in {"init", "loop"} /\ nt_cur' = [nt_cur EXCEPT ![a] = cur]
      /\ UNCHANGED <<groupVars, setup>>
  BY DEF BeginStep
<1>4. /\ pc'[a] = p /\ UNCHANGED <<view, joined, out, setup>> /\ nt_cur'[a] = cur
      /\ \A c \in Apps \ {a} : pc'[c] = pc[c] /\ nt_cur'[c] = nt_cur[c]
  BY <1>1, <1>2, <1>3 DEF groupVars
<1>5. Gives(a)'
  BY <1>3, MoveGives DEF Waiting
<1>6. Ready(a) /\ Ahead(a) /\ Spoken(a)
  BY DEF Smooth
<1>7. /\ \A c \in Apps \ {a} : nt_max'[c] = nt_max[c]
      /\ a \notin setup.control => nt_max' = nt_max
  <2>1. CASE UNCHANGED nt_max
    BY <2>1
  <2>2. CASE ~UNCHANGED nt_max
    <3>1. /\ a \in setup.control
          /\ \E n \in 0 .. MaxSteps :
               nt_max' = [nt_max EXCEPT ![a] = IF n < cur THEN cur ELSE n]
      BY <2>2 DEF BeginStep
    <3> QED
      BY <3>1, <1>1
  <2> QED
    BY <2>1, <2>2
<1>8. pc[a] = "init" => a \in setup.ale /\ nt_cur[a] = 0
  BY <1>1 DEF Placed
<1>9. a \in setup.ale => a \notin setup.control
  BY DEF Usual, Foreseen
<1>10. Ready(a)'
  <2>1. ASSUME cur = 0 PROVE a \in setup.ale /\ nt_max'[a] > 0
    <3>1. pc[a] = "init"
      BY <2>1, <1>1, <1>3
    <3> QED
      BY <3>1, <1>6, <1>7, <1>8, <1>9 DEF Ready
  <2> QED
    BY <2>1, <1>4 DEF Ready
<1>11. Ahead(a)'
  <2>1. ASSUME a \notin Sudden(setup), ~Warned(a), a \notin setup.uniform
        PROVE  cur < nt_max'[a]
    <3>1. a \notin setup.control
      BY <2>1 DEF Sudden
    <3>2. pc[a] = "loop" => nt_cur[a] + 1 < nt_max[a]
      BY <2>1, <1>6 DEF Ahead
    <3>3. pc[a] = "init" => nt_max[a] > 0
      BY <1>6 DEF Ready
    <3> QED
      BY <3>1, <3>2, <3>3, <1>1, <1>3, <1>7, <1>8
  <2>2. Warned(a)' <=> Warned(a)
    BY <1>4 DEF Warned
  <2>3. Sudden(setup)' = Sudden(setup)
    BY <1>4 DEF Sudden
  <2> HIDE DEF cur
  <2> QED
    BY <2>1, <2>2, <2>3, <1>2, <1>4 DEF Ahead
<1>12. Spoken(a)'
  <2>1. cur > 0 => pc[a] = "loop"
    BY <1>3, <1>8
  <2>2. Warned(a)' <=> Warned(a)
    BY <1>4 DEF Warned
  <2> HIDE DEF cur
  <2> QED
    BY <2>1, <2>2, <1>2, <1>4, <1>6 DEF Spoken, Passed
<1>13. Smooth(a)'
  BY <1>4, <1>5, <1>10, <1>11, <1>12 DEF Smooth
<1> HIDE DEF cur
<1> QED
  BY <1>4, <1>7, <1>13, SmoothOthers

LEMMA UniformSmooth ==
  ASSUME RunInv, Usual(setup), NEW F \in Int, \A b \in Apps : Ends(b, F),
         \A b \in Apps : Smooth(b), NEW a \in Apps, Uniform(a)
  PROVE  SmoothInv'
<1>1. /\ pc[a] = "begun" /\ nt_cur[a] \in Int /\ nt_max[a] \in Int /\ pc \in [Apps -> Places]
      /\ pc' = [pc EXCEPT ![a] = "early"] /\ nt_cur[a] <= nt_max[a] /\ a \in setup.uniform
      /\ UNCHANGED <<setup, nt_cur, nt_max>>
  BY BoundAssumption DEF Uniform, RunInv, LocalInv, LocalType, Placed
<1>2. PICK t \in TimeSteps \ {0} : Call(a, nt_cur[a] - 1, nt_max[a], t)
  BY DEF Uniform
<1>3. /\ CallStep(a)' = nt_cur[a] - 1 /\ nt_cur[a] - 1 \in Int /\ nt_max'[a] = nt_max[a]
      /\ ~(nt_cur[a] - 1 >= nt_max[a])
  BY <1>1 DEF CallStep
<1>4. /\ Gives(a)' /\ pc'[a] = "early"
      /\ \A c \in Apps \ {a} : /\ view'[c] = view[c] /\ joined'[c] = joined[c]
                               /\ out'[c] = out[c] /\ pc'[c] = pc[c]
  BY <1>1, <1>2, <1>3, EndCall, CallGives DEF Waiting
<1>5. Ready(a)' /\ Ahead(a)' /\ Spoken(a)'
  BY <1>1, <1>4 DEF Ready, Ahead, Spoken, Passed
<1>6. Smooth(a)'
  BY <1>4, <1>5 DEF Smooth
<1> QED
  BY <1>1, <1>4, <1>6, SmoothOthers

LEMMA EndStepSmooth ==
  ASSUME RunInv, Usual(setup), NEW F \in Int, \A b \in Apps : Ends(b, F),
         \A b \in Apps : Smooth(b), NEW a \in Apps, EndStep(a)
  PROVE  SmoothInv'
<1>1. /\ nt_cur[a] \in Nat /\ nt_max[a] \in Int /\ dt[a] \in TimeSteps
      /\ nt_max \in [Apps -> Int] /\ pc \in [Apps -> Places]
      /\ pc[a] = "step" /\ UNCHANGED <<setup, nt_cur>>
      /\ Ready(a) /\ Ahead(a) /\ Spoken(a)
  BY BoundAssumption DEF EndStep, RunInv, LocalInv, LocalType, Smooth
<1>2. PICK max \in {nt_max[a], nt_cur[a]} :
        /\ nt_max' = [nt_max EXCEPT ![a] = max]
        /\ a \notin setup.short => max = nt_max[a]
        /\ IF a \in setup.uniform
           THEN pc' = [pc EXCEPT ![a] = "save"] /\ UNCHANGED groupVars
           ELSE pc' = [pc EXCEPT ![a] = "last"] /\ Call(a, nt_cur[a], max, dt[a])
  BY DEF EndStep
<1>3. max \in Int /\ nt_max'[a] = max /\ \A c \in Apps \ {a} : nt_max'[c] = nt_max[c]
  BY <1>1, <1>2
<1>4. CASE a \in setup.uniform
  <2>1. /\ pc'[a] = "save" /\ UNCHANGED <<view, joined, out>> /\ UNCHANGED groupVars
        /\ \A c \in Apps \ {a} : pc'[c] = pc[c]
    BY <1>1, <1>2, <1>4 DEF groupVars
  <2>2. Gives(a)'
    BY <1>1, <2>1, MoveGives DEF Waiting
  <2>3. a \notin Sudden(setup) => max = nt_max[a]
    BY <1>2 DEF Sudden
  <2>4. Ready(a)' /\ Ahead(a)' /\ Spoken(a)'
    BY <2>1, <2>3, <1>1, <1>3, <1>4 DEF Ready, Ahead, Spoken, Passed, Warned
  <2>5. Smooth(a)'
    BY <2>1, <2>2, <2>4 DEF Smooth
  <2> QED
    BY <2>1, <2>5, <1>1, <1>3, SmoothOthers
<1>5. CASE a \notin setup.uniform
  <2>1. Call(a, nt_cur[a], max, dt[a]) /\ pc' = [pc EXCEPT ![a] = "last"]
    BY <1>2, <1>5
  <2>2. CallStep(a)' = nt_cur[a] /\ nt_cur[a] \in Int
    BY <2>1, <1>1 DEF CallStep
  <2>3. nt_cur[a] = 0 => a \in setup.ale /\ max > 0
    <3>1. nt_cur[a] = 0 => a \in setup.ale /\ nt_max[a] > 0
      BY <1>1, <1>5 DEF Ready
    <3>2. a \in setup.ale => max = nt_max[a]
      BY <1>2 DEF Usual, Foreseen
    <3> QED
      BY <3>1, <3>2
  <2>4. ASSUME ~Warned(a), nt_cur[a] >= max
        PROVE  a \in Sudden(setup) /\ "NEW" \in view[a][a].flags
    <3>1. a \in Sudden(setup)
      <4>1. a \in setup.short => a \in Sudden(setup)
        BY DEF Sudden
      <4>2. CASE max = nt_max[a]
        BY <2>4, <4>2, <1>1, <1>5 DEF Ahead
      <4>3. CASE max # nt_max[a]
        BY <4>1, <4>3, <1>2
      <4> QED
        BY <4>2, <4>3
    <3>2. nt_cur[a] > 0
      BY <2>3, <2>4, <1>1, <1>3
    <3> QED
      BY <3>1, <3>2, <2>4, <1>1, <1>5 DEF Spoken, Passed
  <2>5. /\ Gives(a)' /\ pc'[a] = "last"
        /\ \A c \in Apps \ {a} : /\ view'[c] = view[c] /\ joined'[c] = joined[c]
                                 /\ out'[c] = out[c] /\ pc'[c] = pc[c]
    BY <2>1, <2>2, <2>4, <1>1, <1>3, EndCall, CallGives DEF Waiting
  <2>6. Ready(a)' /\ Ahead(a)' /\ Spoken(a)'
    BY <2>3, <2>5, <1>1, <1>3, <1>5 DEF Ready, Ahead, Spoken, Passed
  <2>7. Smooth(a)'
    BY <2>5, <2>6 DEF Smooth
  <2> QED
    BY <2>5, <2>7, <1>1, <1>3, SmoothOthers
<1> QED
  BY <1>4, <1>5

LEMMA ReturnSmooth ==
  ASSUME RunInv, Usual(setup), NEW F \in Int, \A b \in Apps : Ends(b, F),
         \A b \in Apps : Smooth(b), NEW a \in Apps,
         FirstReturn(a) \/ UniformReturn(a) \/ StepReturn(a) \/ FinalReturn(a)
  PROVE  SmoothInv'
<1>1. /\ nt_cur[a] \in Int /\ nt_max[a] \in Int /\ Placed
      /\ Ends(a, F) /\ Smooth(a) /\ Ready(a)
  BY BoundAssumption DEF RunInv, LocalInv, LocalType, Smooth
<1>2. pc[a] \in Waiting
  BY DEF FirstReturn, UniformReturn, StepReturn, FinalReturn, Waiting
<1>3. PICK cur \in Int : cur = CallStep(a) /\ cur <= nt_max[a]
        /\ cur = IF pc[a] = "early" THEN nt_cur[a] - 1 ELSE nt_cur[a]
  BY <1>1, <1>2 DEF CallStep, Placed, Waiting
<1>4. PICK next \in {"test", "step", "save", "ended"} :
        /\ Return(a, cur, next)
        /\ next = "test" <=> pc[a] = "first"
        /\ next = "step" <=> pc[a] = "early"
        /\ next = "save" <=> pc[a] = "last"
  <2>1. CASE FirstReturn(a) \/ StepReturn(a) \/ FinalReturn(a)
    BY <2>1, <1>3 DEF FirstReturn, StepReturn, FinalReturn
  <2>2. CASE UniformReturn(a)
    <3>1. pc[a] = "early" /\ cur = nt_cur[a] - 1
      BY <2>2, <1>3 DEF UniformReturn
    <3>2. PICK q \in {"step", "aborted"} :
            /\ Return(a, cur, q)
            /\ ~(NewLimit(a, Known(a), cur) < nt_cur[a]) => q = "step"
      BY <2>2, <3>1 DEF UniformReturn
    <3>3. q \in Places \ Waiting /\ a \in setup.uniform /\ nt_max[a] > cur
      BY <3>1, <1>1 DEF Placed, Places, Over, Waiting
    <3>4. NewLimit(a, Known(a), cur) > cur
      BY <3>1, <3>2, <3>3, <1>1, <1>2, <1>3, ReturnGives
    <3>5. NewLimit(a, Known(a), cur) \in Int
      BY <3>1, <1>1, LimitFacts
    <3>6. ~(NewLimit(a, Known(a), cur) < nt_cur[a])
      BY <3>1, <3>4, <3>5, <1>1
    <3> QED
      BY <3>1, <3>2, <3>6
  <2> QED
    BY <2>1, <2>2
<1>5. next \in Places \ Waiting
  BY DEF Places, Over, Waiting
<1>6. /\ UNCHANGED <<setup, nt_cur>>
      /\ \A c \in Apps \ {a} :
           /\ view'[c] = view[c] /\ joined'[c] = joined[c] /\ out'[c] = out[c]
           /\ pc'[c] = pc[c] /\ nt_max'[c] = nt_max[c]
  BY <1>1, <1>2, <1>3, <1>4, <1>5, EndReturn
<1>7. /\ Gives(a)'
      /\ \/ pc'[a] = "aborted" /\ Refused(view'[a])
         \/ pc'[a] = next /\ nt_max'[a] = NewLimit(a, Known(a), cur)
      /\ ~Warned(a)' => /\ nt_max[a] > cur + 1 /\ "NEW" \in view'[a][a].flags
                        /\ NewLimit(a, Known(a), cur) = nt_max[a]
      /\ pc[a] = "first" => (nt_max[a] > cur => NewLimit(a, Known(a), cur) > cur)
  BY <1>1, <1>2, <1>3, <1>4, <1>5, ReturnGives
<1>8. CASE pc'[a] = "aborted" /\ Refused(view'[a])
  <2>1. Ready(a)' /\ Ahead(a)' /\ Spoken(a)'
    BY <1>8 DEF Ready, Ahead, Spoken, Passed
  <2>2. Smooth(a)'
    BY <2>1, <1>7, <1>8 DEF Smooth
  <2> QED
    BY <2>2, <1>6, SmoothOthers
<1>9. CASE pc'[a] = next /\ nt_max'[a] = NewLimit(a, Known(a), cur)
  <2>1. /\ next = "step" => a \in setup.uniform /\ cur + 1 = nt_cur[a]
        /\ next \in {"test", "save"} => a \notin setup.uniform /\ cur = nt_cur[a]
    BY <1>1, <1>3, <1>4 DEF Placed
  <2>2. next = "test" => nt_max'[a] > 0
    BY <2>1, <1>1, <1>4, <1>7, <1>9 DEF Placed, Ready
  <2>3. ~Warned(a)' => nt_max'[a] > cur + 1 /\ "NEW" \in view'[a][a].flags
    BY <1>7, <1>9
  <2>4. Ready(a)'
    BY <2>1, <2>2, <1>4, <1>6, <1>9 DEF Ready
  <2>5. Ahead(a)'
    <3>1. next = "step" /\ ~Warned(a)' => nt_cur[a] < nt_max'[a]
      BY <2>1, <2>3
    <3>2. next \in {"test", "save"} /\ ~Warned(a)' => nt_cur[a] + 1 < nt_max'[a]
      BY <2>1, <2>3
    <3> QED
      BY <3>1, <3>2, <2>1, <1>4, <1>6, <1>9 DEF Ahead
  <2>6. Spoken(a)'
    BY <2>3, <1>4, <1>9 DEF Spoken
  <2>7. Smooth(a)'
    BY <2>4, <2>5, <2>6, <1>7, <1>9 DEF Smooth
  <2> QED
    BY <2>7, <1>6, SmoothOthers
<1> QED
  BY <1>7, <1>8, <1>9

LEMMA FinishSmooth ==
  ASSUME RunInv, Usual(setup), NEW F \in Int, \A b \in Apps : Ends(b, F),
         \A b \in Apps : Smooth(b), NEW a \in Apps,
         pc[a] \in {"save", "saving"}, Finish(a), UNCHANGED <<setup, nt_cur, nt_max>>
  PROVE  SmoothInv'
<1>1. /\ nt_cur[a] \in Int /\ nt_max[a] \in Int /\ pc \in [Apps -> Places]
      /\ nt_cur[a] <= nt_max[a] /\ Ahead(a) /\ Spoken(a)
  BY BoundAssumption DEF RunInv, LocalInv, LocalType, Placed, Smooth
<1>2. PICK p \in {"loop", "final", "ended"} :
        /\ pc' = [pc EXCEPT ![a] = p]
        /\ p # "loop" => nt_cur[a] = nt_max[a]
        /\ p = "final" => a \in setup.uniform /\
             \E t \in TimeSteps \ {0} : Call(a, nt_cur[a], nt_max[a], t)
        /\ p # "final" => UNCHANGED groupVars
  BY <1>1 DEF Finish, GoesOn
<1>3. CASE p = "final"
  <2>1. PICK t \in TimeSteps \ {0} : Call(a, nt_cur[a], nt_max[a], t)
    BY <1>2, <1>3
  <2>2. /\ CallStep(a)' = nt_cur[a] /\ nt_max'[a] = nt_max[a]
        /\ pc' = [pc EXCEPT ![a] = "final"]
    BY <1>1, <1>2, <1>3 DEF CallStep
  <2>3. ASSUME ~Warned(a) PROVE a \in Sudden(setup) /\ "NEW" \in view[a][a].flags
    <3>1. ~(nt_cur[a] < nt_max[a]) /\ a \in setup.uniform
      BY <1>1, <1>2, <1>3
    <3> QED
      BY <3>1, <2>3, <1>1 DEF Ahead, Spoken, Passed
  <2>4. /\ Gives(a)' /\ pc'[a] = "final"
        /\ \A c \in Apps \ {a} : /\ view'[c] = view[c] /\ joined'[c] = joined[c]
                                 /\ out'[c] = out[c] /\ pc'[c] = pc[c]
    BY <2>1, <2>2, <2>3, <1>1, EndCall, CallGives DEF Waiting
  <2>5. Ready(a)' /\ Ahead(a)' /\ Spoken(a)'
    BY <2>4 DEF Ready, Ahead, Spoken, Passed
  <2>6. Smooth(a)'
    BY <2>4, <2>5 DEF Smooth
  <2> QED
    BY <2>4, <2>6, SmoothOthers
<1>4. CASE p # "final"
  <2>1. /\ pc'[a] = p /\ UNCHANGED <<view, joined, out>> /\ UNCHANGED groupVars
        /\ \A c \in Apps \ {a} : pc'[c] = pc[c]
    BY <1>1, <1>2, <1>4 DEF groupVars
  <2>2. Gives(a)'
    BY <2>1, MoveGives DEF Waiting
  <2>3. Ready(a)' /\ Ahead(a)' /\ Spoken(a)'
    BY <2>1, <1>1, <1>4 DEF Ready, Ahead, Spoken, Passed, Warned, Sudden
  <2>4. Smooth(a)'
    BY <2>1, <2>2, <2>3, <1>4 DEF Smooth
  <2> QED
    BY <2>1, <2>4, SmoothOthers
<1> QED
  BY <1>3, <1>4

LEMMA CheckpointSmooth ==
  ASSUME RunInv, Usual(setup), NEW F \in Int, \A b \in Apps : Ends(b, F),
         \A b \in Apps : Smooth(b), NEW a \in Apps, TestCheckpoint(a) \/ Save(a)
  PROVE  SmoothInv'
<1>1. CASE Finish(a)
  BY <1>1, FinishSmooth DEF TestCheckpoint, Save
<1>2. CASE ~Finish(a)
  <2>1. /\ pc[a] = "save" /\ pc' = [pc EXCEPT ![a] = "saving"]
        /\ UNCHANGED <<setup, nt_cur, nt_max>> /\ UNCHANGED groupVars
    BY <1>2 DEF TestCheckpoint, Save
  <2>2. /\ pc'[a] = "saving" /\ UNCHANGED <<view, joined, out>>
        /\ \A c \in Apps \ {a} : pc'[c] = pc[c]
    BY <2>1 DEF groupVars, RunInv, LocalInv, LocalType
  <2>3. Gives(a)'
    BY <2>1, MoveGives DEF Waiting
  <2>4. Ahead(a) /\ Spoken(a)
    BY DEF Smooth
  <2>5. Ready(a)' /\ Ahead(a)' /\ Spoken(a)'
    BY <2>1, <2>2, <2>4 DEF Ready, Ahead, Spoken, Passed, Warned, Sudden
  <2>6. Smooth(a)'
    BY <2>2, <2>3, <2>5 DEF Smooth
  <2> QED
    BY <2>1, <2>2, <2>6, SmoothOthers
<1> QED
  BY <1>1, <1>2

LEMMA KilledSmooth ==
  ASSUME RunInv, Usual(setup), \A b \in Apps : Smooth(b), NEW a \in Apps, Killed(a)
  PROVE  SmoothInv'
<1>1. /\ pc'[a] = "killed" /\ \A c \in Apps \ {a} : pc'[c] = pc[c]
      /\ UNCHANGED <<view, joined, out, setup, nt_cur, nt_max>>
  BY DEF Killed, groupVars, RunInv, LocalInv, LocalType
<1>2. Ready(a)' /\ Ahead(a)' /\ Spoken(a)'
  BY <1>1 DEF Ready, Ahead, Spoken, Passed
<1>3. Warned(a)' <=> Warned(a)
  BY <1>1 DEF Warned
<1>4. Sudden(setup)' = Sudden(setup)
  BY <1>1 DEF Sudden
<1>5. Gives(a)'
  BY <1>1, <1>3, <1>4 DEF Smooth, Gives, Says, Waiting
<1>6. Smooth(a)'
  BY <1>1, <1>2, <1>5 DEF Smooth
<1> QED
  BY <1>1, <1>6, SmoothOthers

\* Before an end is known all instances take part in the exchange: each learns of the ends
\* that the others give, and has spoken to them before.
LEMMA ExchangeSmooth ==
  ASSUME RunInv, Usual(setup), NEW F \in Int, \A b \in Apps : Ends(b, F),
         \A b \in Apps : Smooth(b), Exchange
  PROVE  SmoothInv'
<1>1. PICK S \in SUBSET Apps : Close(S)
  BY DEF Exchange
<1>2. PICK r \in S : out' = [a \in Apps |-> IF a \in S THEN Vector(S, r) ELSE out[a]]
  BY <1>1 DEF Close
<1>3. PICK V : V = Vector(S, r)
  OBVIOUS
<1>4. /\ \A a \in S : joined[a] # None /\ Active(view[a]) = S
      /\ view' = view /\ UNCHANGED <<setup, pc, nt_cur, nt_max>>
      /\ \A a \in S : out'[a] = V /\ joined'[a] = None
      /\ \A a \in Apps \ S : out'[a] = out[a] /\ joined'[a] = joined[a]
      /\ \A b \in S : V[b] = joined[b]
  BY <1>1, <1>2, <1>3 DEF Close, Vector, Exchange
<1>5. \A a \in S : view[a] = view[r]
  BY <1>4, InvAgrees DEF RunInv, ExchangeInv, Agreement
<1>6. Sudden(setup)' = Sudden(setup)
  BY <1>4 DEF Sudden
<1>7. ASSUME NEW a \in Apps PROVE Gives(a)'
  <2>1. Gives(a) /\ Spoken(a)
    BY DEF Smooth
  <2>2. (Warned(a)' <=> Warned(a)) /\ CallStep(a)' = CallStep(a)
    BY <1>4 DEF Warned, CallStep
  <2>3. CASE a \notin S
    <3>1. out'[a] = out[a] /\ joined'[a] = joined[a] /\ pc'[a] = pc[a] /\ view'[a] = view[a]
          /\ nt_max'[a] = nt_max[a]
      BY <2>3, <1>4
    <3> QED
      BY <3>1, <2>1, <2>2, <1>6 DEF Gives, Says
  <2>4. CASE a \in S
    <3>1. out'[a] = V /\ joined'[a] = None /\ V[a] = joined[a] /\ joined[a] # None
      BY <2>4, <1>4
    <3>2. Says(a, V[a])'
      <4>1. Says(a, V[a])
        BY <3>1, <2>1 DEF Gives
      <4>2. V' = V
        BY <3>1
      <4> QED
        BY <4>1, <2>2, <1>4 DEF Says
    <3>3. ASSUME ~Warned(a), NEW b \in Apps, "STOP" \in V[b].flags
          PROVE  /\ b \in Sudden(setup) /\ pc[a] # "first"
                 /\ b = a => pc[a] # "early"
      <4>1. S = Apps
        <5>1. view[a] \in [Apps -> Values]
          BY DEF RunInv, ExchangeInv, GroupInv, GroupTypeOK
        <5> QED
          BY <5>1, <2>4, <3>3, <1>4, NoEnding DEF Warned
      <4>2. view[a] = view[b] /\ joined[b] # None /\ V[b] = joined[b]
        BY <4>1, <1>4, <1>5
      <4>3. ~Warned(b)
        BY <4>2, <3>3 DEF Warned
      <4>4. /\ b \in Sudden(setup) /\ "NEW" \in view[b][b].flags
            /\ pc[b] # "early"
        BY <4>2, <4>3, <3>3 DEF Smooth, Gives
      <4> QED
        BY <4>2, <4>4, <2>1 DEF Spoken
    <3> QED
      BY <3>1, <3>2, <3>3, <2>2, <1>4, <1>6 DEF Gives
  <2> QED
    BY <2>3, <2>4
<1>8. ASSUME NEW a \in Apps PROVE Ready(a)' /\ Ahead(a)' /\ Spoken(a)'
  <2>1. Ready(a) /\ Ahead(a) /\ Spoken(a)
    BY DEF Smooth
  <2> QED
    BY <2>1, <1>4, <1>6 DEF Ready, Ahead, Spoken, Passed, Warned
<1>9. \A a \in Apps : pc'[a] = "aborted" => Refused(view'[a])
  BY <1>4 DEF Smooth
<1> QED
  BY <1>7, <1>8, <1>9 DEF SmoothInv, Smooth

LEMMA SmoothStep ==
  ASSUME RunInv, EndInv, SmoothInv, [Next]_vars
  PROVE  SmoothInv'
<1>1. setup' = setup
  BY DEF Next, vars, Step, Start, FirstReturn, TestStart, BeginStep, Uniform, UniformReturn,
         EndStep, StepReturn, TestCheckpoint, Save, FinalReturn, Return, Exchange, Killed
<1>2. Usual(setup)' <=> Usual(setup)
  BY <1>1 DEF Usual, Foreseen, Sudden
<1>3. CASE ~Usual(setup)
  BY <1>2, <1>3 DEF SmoothInv
<1>4. CASE Usual(setup)
  <2>1. PICK F \in Int : \A b \in Apps : Ends(b, F)
    BY DEF EndInv
  <2>2. \A b \in Apps : Smooth(b)
    BY <1>4 DEF SmoothInv
  <2>3. ASSUME NEW a \in Apps, Step(a) PROVE SmoothInv'
    <3>1. CASE Start(a)
      BY <3>1, <1>4, <2>1, <2>2, StartSmooth
    <3>2. CASE TestStart(a)
      BY <3>2, <1>4, <2>2, TestStartSmooth
    <3>3. CASE BeginStep(a)
      BY <3>3, <1>4, <2>2, BeginStepSmooth
    <3>4. CASE Uniform(a)
      BY <3>4, <1>4, <2>1, <2>2, UniformSmooth
    <3>5. CASE EndStep(a)
      BY <3>5, <1>4, <2>1, <2>2, EndStepSmooth
    <3>6. CASE FirstReturn(a) \/ UniformReturn(a) \/ StepReturn(a) \/ FinalReturn(a)
      BY <3>6, <1>4, <2>1, <2>2, ReturnSmooth
    <3>7. CASE TestCheckpoint(a) \/ Save(a)
      BY <3>7, <1>4, <2>1, <2>2, CheckpointSmooth
    <3> QED
      BY <2>3, <3>1, <3>2, <3>3, <3>4, <3>5, <3>6, <3>7 DEF Step
  <2>4. CASE UNCHANGED vars
    <3>1. \A a \in Apps : Smooth(a)'
      BY <2>2, <2>4 DEF vars, Smooth, Ready, Ahead, Spoken, Passed, Gives, Says, CallStep, Warned
    <3> QED
      BY <3>1 DEF SmoothInv
  <2>5. CASE Exchange
    BY <2>5, <1>4, <2>1, <2>2, ExchangeSmooth
  <2>6. ASSUME NEW a \in Apps, Killed(a) PROVE SmoothInv'
    BY <2>6, <1>4, <2>2, KilledSmooth
  <2> QED
    BY <2>3, <2>4, <2>5, <2>6 DEF Next
<1> QED
  BY <1>3, <1>4

LEMMA SmoothHolds == Spec => []SmoothInv
<1>1. Init => SmoothInv
  <2> SUFFICES ASSUME Init, Usual(setup), NEW a \in Apps PROVE Smooth(a)
    BY DEF SmoothInv
  <2>1. /\ pc[a] = "start" /\ joined[a] = None /\ out[a] = None
        /\ view[a] = setup.start /\ nt_cur[a] = 0 /\ nt_max[a] = setup.max[a]
    BY DEF Init, GroupInit
  <2>2. setup.start \in [Apps -> Starts] /\ setup.max \in [Apps -> 0 .. MaxSteps]
    BY SetupAssumption DEF Init
  <2>3. \A b \in Apps : "NEW" \notin setup.start[b].flags
    BY <2>2, SynchronizedAssumption
  <2>4. nt_max[a] > 0
    BY <2>1, <2>2, BoundAssumption DEF Usual
  <2>5. Ready(a) /\ Ahead(a) /\ Spoken(a) /\ Gives(a)
    BY <2>1, <2>3, <2>4 DEF Ready, Ahead, Spoken, Passed, Gives
  <2> QED
    BY <2>1, <2>5 DEF Smooth
<1>2. RunInv /\ EndInv /\ SmoothInv /\ [Next]_vars => SmoothInv'
  BY SmoothStep
<1> QED
  BY <1>1, <1>2, RunHolds, EndHolds, PTL DEF Spec

\* No instance ends abruptly but for two leaders, coupling with SYRTHES or nothing to do,
\* if the ends that may come unannounced come where those that synchronize earlier in
\* their steps do not meet them: the others learn of each end in time.
THEOREM NoneAborts ==
  ASSUME \A s \in Setups : Foreseen(s) \/ s.syrthes # {} \/ \E b \in Apps : s.max[b] = 0
  PROVE  Spec => []OnlyRefusedAbort
<1>1. RunInv => setup \in Setups
  BY DEF RunInv, LocalInv, LocalType
<1>2. RunInv /\ SmoothInv => OnlyRefusedAbort
  BY <1>1 DEF SmoothInv, Smooth, OnlyRefusedAbort, Usual
<1> QED
  BY <1>2, RunHolds, SmoothHolds, PTL

(***************************************************************************)
(* Instances that are told to stop do so with their checkpoint.            *)
(***************************************************************************)

\* Who leads is settled at the start.
Leads(v, b) == "TS_LEADER" \in v.flags => "TS_LEADER" \in setup.start[b].flags
Settled ==
  \A a, b \in Apps :
    /\ Leads(view[a][b], b)
    /\ joined[b] # None => Leads(joined[b], b)
    /\ out[a] # None => Leads(out[a][b], b)

\* The instance goes through the step, saves it and ends.
Stopping(a) ==
  /\ pc[a] \notin {"aborted", "killed"}
  /\ a \in asked =>
       /\ pc[a] \in {"begun", "early", "step", "last", "save", "saving", "final", "ended"}
       /\ nt_max[a] = nt_cur[a]
       /\ pc[a] \in {"final", "ended"} => saved[a] = nt_cur[a]

StopInv ==
  /\ Settled
  /\ asked \subseteq setup.control
  /\ Usual(setup) /\ OneLeader(setup) => \A a \in Apps : Stopping(a)

LEMMA OneLeads ==
  ASSUME NEW s, \A b \in Apps : Leads(s[b], b), OneLeader(setup)
  PROVE  ~Refused(s)
<1>1. PICK x \in Apps : With(s, "TS_LEADER") \subseteq {x}
  BY DEF OneLeader, Leads, With, Active
<1>2. With(s, "TS_LEADER") = {} \/ With(s, "TS_LEADER") = {x}
  BY <1>1
<1>3. Cardinality(With(s, "TS_LEADER")) \in {0, 1}
  BY <1>2, FS_EmptySet, FS_Singleton
<1> QED
  BY <1>3 DEF Refused

LEMMA SettledStep ==
  ASSUME RunInv, Settled, [Next]_vars
  PROVE  Settled' /\ setup' = setup
<1>1. setup' = setup
  BY DEF Next, vars, Step, Start, FirstReturn, TestStart, BeginStep, Uniform, UniformReturn,
         EndStep, StepReturn, TestCheckpoint, Save, FinalReturn, Return, Exchange, Killed
<1>2. /\ view \in [Apps -> [Apps -> Values]] /\ joined \in [Apps -> Values \cup {None}]
      /\ out \in [Apps -> [Apps -> Values] \cup {None}]
  BY DEF RunInv, ExchangeInv, GroupInv, GroupTypeOK
<1>3. CASE UNCHANGED groupVars
  BY <1>1, <1>3 DEF groupVars, Settled, Leads
<1>4. ASSUME NEW a \in Apps, Deliver(a) PROVE Settled'
  <2>1. /\ joined' = joined /\ view'[a] = out[a] /\ out'[a] = None /\ out[a] # None
        /\ \A c \in Apps \ {a} : view'[c] = view[c] /\ out'[c] = out[c]
    BY <1>2, <1>4 DEF Deliver
  <2> QED
    BY <2>1, <1>1 DEF Settled, Leads
<1>5. ASSUME NEW a \in Apps, NEW v, Join(a, v),
             "TS_LEADER" \in v.flags => "TS_LEADER" \in view[a][a].flags
      PROVE  Settled'
  <2>1. /\ out' = out /\ view'[a] = Mark(view[a])
        /\ joined'[a] = None \/ joined'[a] = v
        /\ \A c \in Apps \ {a} : view'[c] = view[c] /\ joined'[c] = joined[c]
    BY <1>2, <1>5 DEF Join
  <2>2. "TS_LEADER" \in Flag \ {"INIT", "NO_SYNC"}
    BY DEF Flag
  <2>3. \A b \in Apps : "TS_LEADER" \in Mark(view[a])[b].flags =>
                          "TS_LEADER" \in view[a][b].flags
    BY <2>2, <1>2, MarkFacts
  <2> QED
    BY <2>1, <2>3, <1>1, <1>5 DEF Settled, Leads
<1>6. ASSUME NEW a \in Apps, NEW cur, NEW max, NEW step, Call(a, cur, max, step)
      PROVE  Settled'
  BY <1>5, <1>6 DEF Call, SyncFlags
<1>7. ASSUME NEW S \in SUBSET Apps, Close(S) PROVE Settled'
  <2>1. PICK r \in S : out' = [a \in Apps |-> IF a \in S THEN Vector(S, r) ELSE out[a]]
    BY <1>7 DEF Close
  <2>2. /\ view' = view /\ \A a \in S : joined[a] # None
        /\ \A a \in Apps : joined'[a] = None \/ joined'[a] = joined[a]
        /\ \A a \in Apps : out'[a] = Vector(S, r) \/ out'[a] = out[a]
        /\ \A b \in Apps : Vector(S, r)[b] = IF b \in S THEN joined[b] ELSE view[r][b]
    BY <2>1, <1>7 DEF Close, Vector
  <2>3. \A b \in Apps : Leads(Vector(S, r)[b], b)
    BY <2>2 DEF Settled
  <2> QED
    BY <2>2, <2>3, <1>1 DEF Settled, Leads
<1>8. ASSUME NEW a \in Apps, NEW cur, NEW next, Return(a, cur, next) PROVE Settled'
  BY <1>3, <1>4, <1>8 DEF Return
<1>9. ASSUME NEW a \in Apps, Step(a) PROVE Settled'
  <2>1. CASE Start(a)
    BY <2>1, <1>3, <1>6 DEF Start
  <2>2. CASE FirstReturn(a) \/ UniformReturn(a) \/ StepReturn(a) \/ FinalReturn(a)
    BY <2>2, <1>8 DEF FirstReturn, UniformReturn, StepReturn, FinalReturn
  <2>3. CASE TestStart(a) \/ BeginStep(a)
    BY <2>3, <1>3 DEF TestStart, BeginStep
  <2>4. CASE Uniform(a)
    BY <2>4, <1>6 DEF Uniform
  <2>5. CASE EndStep(a)
    BY <2>5, <1>3, <1>6 DEF EndStep
  <2>6. CASE TestCheckpoint(a) \/ Save(a)
    BY <2>6, <1>3, <1>6 DEF TestCheckpoint, Save, Finish
  <2> QED
    BY <1>9, <2>1, <2>2, <2>3, <2>4, <2>5, <2>6 DEF Step
<1>10. CASE UNCHANGED vars
  BY <1>3, <1>10 DEF vars, groupVars
<1> QED
  BY <1>1, <1>3, <1>7, <1>9, <1>10 DEF Next, Exchange, Killed

\* A limit given at or below the current step makes it the last one.
LEMMA BeginStopping ==
  ASSUME RunInv, Usual(setup), NEW a \in Apps, Stopping(a), BeginStep(a)
  PROVE  Stopping(a)'
<1> DEFINE cur == nt_cur[a] + (IF pc[a] = "loop" THEN 1 ELSE 0)
<1>1. /\ nt_cur \in [Apps -> Int] /\ nt_max \in [Apps -> Int] /\ pc \in [Apps -> Places]
      /\ nt_cur[a] \in Int
  BY BoundAssumption DEF RunInv, LocalInv, LocalType
<1>2. /\ nt_cur'[a] = cur /\ pc[a] \in {"init", "loop"} /\ cur \in Int
  BY <1>1 DEF BeginStep
<1>3. pc'[a] \in {"begun", "step"}
  BY <1>1 DEF BeginStep
<1>4. a \notin asked
  BY <1>2 DEF Stopping
<1> HIDE DEF cur
<1>5. CASE asked' = asked
  BY <1>3, <1>4, <1>5 DEF Stopping
<1>6. CASE asked' # asked
  <2>1. PICK n \in 0 .. MaxSteps :
          /\ nt_max' = [nt_max EXCEPT ![a] = IF n < cur THEN cur ELSE n]
          /\ asked' = asked \cup {b \in {a} : n <= cur}
    BY <1>6 DEF BeginStep, cur
  <2>2. n <= cur
    BY <2>1, <1>6
  <2>3. n \in Int
    BY BoundAssumption
  <2>4. nt_max'[a] = nt_cur'[a]
    BY <2>1, <2>2, <2>3, <1>1, <1>2
  <2> QED
    BY <2>1, <2>4, <1>3 DEF Stopping
<1> QED
  BY <1>5, <1>6

LEMMA StoppingReturn ==
  ASSUME RunInv, Usual(setup), NEW a \in Apps, Stopping(a), pc'[a] # "aborted",
         FirstReturn(a) \/ UniformReturn(a) \/ StepReturn(a) \/ FinalReturn(a)
  PROVE  Stopping(a)'
<1>1. /\ nt_cur[a] \in Int /\ nt_max[a] \in Int /\ Placed
      /\ pc \in [Apps -> Places] /\ nt_max \in [Apps -> Int]
  BY BoundAssumption DEF RunInv, LocalInv, LocalType
<1>2. PICK cur \in Int, next \in {"test", "step", "save", "ended"} :
        /\ Return(a, cur, next)
        /\ next = "test" => pc[a] = "first"
        /\ next = "ended" => pc[a] = "final"
        /\ cur = nt_cur[a] \/ (next = "step" /\ ~(NewLimit(a, Known(a), cur) < nt_cur[a]))
        /\ cur <= nt_max[a]
  <2>1. CASE FirstReturn(a) \/ StepReturn(a) \/ FinalReturn(a)
    BY <2>1, <1>1 DEF FirstReturn, StepReturn, FinalReturn, Placed
  <2>2. CASE UniformReturn(a)
    <3>1. NewLimit(a, Known(a), nt_cur[a] - 1) < nt_cur[a] => pc'[a] = "aborted"
      BY <2>2, <1>1 DEF UniformReturn, Return
    <3>2. /\ Return(a, nt_cur[a] - 1, "step") /\ nt_cur[a] - 1 <= nt_max[a]
          /\ ~(NewLimit(a, Known(a), nt_cur[a] - 1) < nt_cur[a])
      BY <2>2, <3>1, <1>1 DEF UniformReturn, Placed
    <3> QED
      BY <3>2, <1>1
  <2> QED
    BY <2>1, <2>2
<1>3. /\ pc'[a] = next /\ nt_max'[a] = NewLimit(a, Known(a), cur)
      /\ UNCHANGED <<nt_cur, saved, asked>>
  BY <1>1, <1>2 DEF Return
<1>4. ASSUME a \in asked PROVE nt_max'[a] = nt_cur[a] /\ (next = "ended" => saved[a] = nt_cur[a])
  <2>1. nt_max[a] = nt_cur[a] /\ (pc[a] = "final" => saved[a] = nt_cur[a])
    BY <1>4 DEF Stopping
  <2>2. /\ NewLimit(a, Known(a), cur) <= nt_max[a] /\ NewLimit(a, Known(a), cur) >= cur
        /\ NewLimit(a, Known(a), cur) \in Int
    BY <1>1, <1>2, LimitFacts
  <2> QED
    BY <2>1, <2>2, <1>1, <1>2, <1>3
<1>5. a \in asked => next # "test"
  BY <1>2 DEF Stopping
<1> QED
  BY <1>2, <1>3, <1>4, <1>5 DEF Stopping

LEMMA StoppingFinish ==
  ASSUME RunInv, NEW a \in Apps, Stopping(a), pc[a] = "saving" \/ ~CheckpointDue(a), Finish(a),
         UNCHANGED <<setup, nt_cur, nt_max, asked>>,
         pc[a] = "saving" => saved'[a] = nt_cur[a], pc[a] \in {"save", "saving"}
  PROVE  Stopping(a)'
<1>1. nt_cur[a] \in Int /\ nt_max[a] \in Int /\ pc \in [Apps -> Places]
  BY BoundAssumption DEF RunInv, LocalInv, LocalType
<1>2. pc'[a] \in {"loop", "final", "ended"} /\ (pc'[a] = "loop" => nt_cur[a] < nt_max[a])
  BY <1>1 DEF Finish, GoesOn
<1>3. ASSUME a \in asked
      PROVE  pc'[a] # "loop" /\ nt_max[a] = nt_cur[a] /\ saved'[a] = nt_cur[a]
  <2>1. nt_max[a] = nt_cur[a]
    BY <1>3 DEF Stopping
  <2>2. pc[a] = "saving"
    BY <2>1, <1>1 DEF CheckpointDue
  <2> QED
    BY <2>1, <2>2, <1>1, <1>2
<1> QED
  BY <1>2, <1>3 DEF Stopping

LEMMA StoppingStep ==
  ASSUME RunInv, Usual(setup), \A b \in Apps : Stopping(b), NEW a \in Apps, Step(a),
         pc'[a] # "aborted"
  PROVE  Stopping(a)'
<1>1. /\ nt_cur[a] \in Int /\ nt_max[a] \in Int /\ pc \in [Apps -> Places]
      /\ nt_max \in [Apps -> Int] /\ saved \in [Apps -> Int]
  BY BoundAssumption DEF RunInv, LocalInv, LocalType
<1>2. CASE BeginStep(a)
  BY <1>2, BeginStopping
<1>3. CASE FirstReturn(a) \/ UniformReturn(a) \/ StepReturn(a) \/ FinalReturn(a)
  BY <1>3, StoppingReturn
<1>4. CASE Start(a) \/ TestStart(a)
  <2>1. pc[a] \in {"start", "test"} /\ pc'[a] \in {"init", "test", "first", "loop"} /\ asked' = asked
    BY <1>1, <1>4 DEF Start, TestStart
  <2>2. a \notin asked
    BY <2>1 DEF Stopping
  <2> QED
    BY <2>1, <2>2 DEF Stopping
<1>5. CASE Uniform(a)
  BY <1>1, <1>5 DEF Uniform, Stopping
<1>6. CASE EndStep(a)
  <2>1. /\ pc[a] = "step" /\ pc'[a] \in {"save", "last"} /\ UNCHANGED <<nt_cur, asked>>
        /\ nt_max'[a] \in {nt_max[a], nt_cur[a]}
    BY <1>1, <1>6 DEF EndStep
  <2> QED
    BY <2>1 DEF Stopping
<1>7. CASE TestCheckpoint(a)
  <2>1. /\ pc[a] = "save" /\ UNCHANGED <<setup, nt_cur, nt_max, asked>>
        /\ \/ pc'[a] = "saving"
           \/ ~CheckpointDue(a) /\ Finish(a)
    BY <1>1, <1>7 DEF TestCheckpoint
  <2>2. CASE pc'[a] = "saving"
    BY <2>1, <2>2 DEF Stopping
  <2>3. CASE ~CheckpointDue(a) /\ Finish(a)
    BY <2>1, <2>3, StoppingFinish
  <2> QED
    BY <2>1, <2>2, <2>3
<1>8. CASE Save(a)
  <2>1. /\ pc[a] = "saving" /\ saved'[a] = nt_cur[a] /\ Finish(a)
        /\ UNCHANGED <<setup, nt_cur, nt_max, asked>>
    BY <1>1, <1>8 DEF Save
  <2> QED
    BY <2>1, StoppingFinish
<1> QED
  BY <1>2, <1>3, <1>4, <1>5, <1>6, <1>7, <1>8 DEF Step

\* What an instance does changes neither the steps nor the place of another.
LEMMA StepAlone ==
  ASSUME RunInv, NEW a \in Apps, Step(a), NEW c \in Apps \ {a}
  PROVE  /\ pc'[c] = pc[c] /\ nt_cur'[c] = nt_cur[c] /\ nt_max'[c] = nt_max[c]
         /\ saved'[c] = saved[c] /\ (c \in asked' <=> c \in asked)
<1>1. /\ pc \in [Apps -> Places] /\ nt_cur \in [Apps -> Int] /\ nt_max \in [Apps -> Int]
      /\ saved \in [Apps -> Int]
  BY BoundAssumption DEF RunInv, LocalInv, LocalType
<1>2. CASE BeginStep(a)
  BY <1>1, <1>2 DEF BeginStep
<1>3. CASE FirstReturn(a) \/ UniformReturn(a) \/ StepReturn(a) \/ FinalReturn(a)
  BY <1>1, <1>3 DEF FirstReturn, UniformReturn, StepReturn, FinalReturn, Return
<1>4. CASE Start(a) \/ TestStart(a) \/ Uniform(a)
  BY <1>1, <1>4 DEF Start, TestStart, Uniform
<1>5. CASE EndStep(a)
  BY <1>1, <1>5 DEF EndStep
<1>6. CASE TestCheckpoint(a) \/ Save(a)
  BY <1>1, <1>6 DEF TestCheckpoint, Save, Finish
<1> QED
  BY <1>2, <1>3, <1>4, <1>5, <1>6 DEF Step

LEMMA StopStep ==
  ASSUME RunInv, SmoothInv, SmoothInv', StopInv, [Next]_vars
  PROVE  StopInv'
<1>1. Settled' /\ setup' = setup
  BY SettledStep DEF StopInv
<1>2. asked' \subseteq setup.control
  <2>1. asked' # asked => \E a \in Apps : BeginStep(a) /\ asked' # asked
    BY DEF Next, vars, Step, Start, FirstReturn, TestStart, Uniform, UniformReturn,
           EndStep, StepReturn, TestCheckpoint, Save, FinalReturn, Return, Exchange, Killed
  <2>2. CASE asked' = asked
    BY <2>2 DEF StopInv
  <2>3. CASE asked' # asked
    <3>1. PICK a \in Apps : BeginStep(a) /\ asked' # asked
      BY <2>1, <2>3
    <3>2. a \in setup.control /\ asked' \subseteq asked \cup {a}
      BY <3>1 DEF BeginStep
    <3> QED
      BY <3>2 DEF StopInv
  <2> QED
    BY <2>2, <2>3
<1>3. ASSUME Usual(setup), OneLeader(setup) PROVE \A b \in Apps : Stopping(b)'
  <2>1. \A b \in Apps : Stopping(b) /\ pc[b] \notin {"aborted", "killed"}
    BY <1>3 DEF StopInv, Stopping
  <2>2. ASSUME NEW b \in Apps PROVE pc'[b] # "aborted"
    <3>1. ~Refused(view'[b])
      BY <1>1, <1>3, OneLeads DEF Settled, Leads
    <3>2. Usual(setup)'
      BY <1>1, <1>3 DEF Usual, Foreseen, Sudden
    <3>3. Refused(view[b])' <=> Refused(view'[b])
      BY DEF Refused, With, Active
    <3> QED
      BY <3>1, <3>2, <3>3 DEF SmoothInv, Smooth
  <2>3. ASSUME NEW a \in Apps, Step(a), NEW b \in Apps PROVE Stopping(b)'
    <3>1. CASE b = a
      BY <3>1, <2>1, <2>2, <2>3, <1>3, StoppingStep
    <3>2. CASE b # a
      <4>1. /\ pc'[b] = pc[b] /\ nt_cur'[b] = nt_cur[b] /\ nt_max'[b] = nt_max[b]
            /\ saved'[b] = saved[b] /\ (b \in asked' <=> b \in asked)
        BY <3>2, <2>3, StepAlone
      <4>2. Stopping(b)
        BY <2>1
      <4> QED
        BY <4>1, <4>2 DEF Stopping
    <3> QED
      BY <3>1, <3>2
  <2>4. CASE UNCHANGED vars \/ Exchange
    BY <2>1, <2>4 DEF vars, Exchange, Stopping
  <2>5. \A a \in Apps : ~Killed(a)
    BY <2>1 DEF Killed
  <2> QED
    BY <2>3, <2>4, <2>5 DEF Next
<1>4. Usual(setup)' /\ OneLeader(setup)' => Usual(setup) /\ OneLeader(setup)
  BY <1>1 DEF Usual, Foreseen, Sudden, OneLeader
<1> QED
  BY <1>1, <1>2, <1>3, <1>4 DEF StopInv

LEMMA StopHolds == Spec => []StopInv
<1>1. Init => StopInv
  <2> SUFFICES ASSUME Init PROVE StopInv
    OBVIOUS
  <2>1. \A a \in Apps : /\ pc[a] = "start" /\ joined[a] = None /\ out[a] = None
                        /\ view[a] = setup.start
    BY DEF Init, GroupInit
  <2>2. asked = {}
    BY DEF Init
  <2> QED
    BY <2>1, <2>2 DEF StopInv, Settled, Leads, Stopping
<1>2. RunInv /\ SmoothInv /\ SmoothInv' /\ StopInv /\ [Next]_vars => StopInv'
  BY StopStep
<1> QED
  BY <1>1, <1>2, RunHolds, SmoothHolds, PTL DEF Spec

\* An instance told by its control_file to stop at the current step stops with the
\* checkpoint of that step, where no abrupt end of another can come before: the limit
\* given is not reduced further, and the checkpoint of the last step is never skipped.
THEOREM StopsWithCheckpoint ==
  ASSUME \A s \in Setups : s.control = {} \/ (Usual(s) /\ OneLeader(s))
  PROVE  Spec => []StopsProperly
<1>1. RunInv => setup \in Setups /\ asked \subseteq Apps
  BY DEF RunInv, LocalInv, LocalType
<1>2. RunInv /\ StopInv => StopsProperly
  BY <1>1 DEF StopInv, Stopping, StopsProperly, Over
<1> QED
  BY <1>2, RunHolds, StopHolds, PTL
================================================================================
