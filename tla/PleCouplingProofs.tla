---------------------------- MODULE PleCouplingProofs ----------------------------
(***************************************************************************)
(* The messages of ple_coupling_mpi_set_synchronize implement the exchange *)
(* of GroupSync, for any number of applications, whatever they offer,      *)
(* however far ahead of each other they run and whether messages are       *)
(* buffered or not, provided that the rank addressed is the right one: see *)
(* WellRooted.                                                             *)
(*                                                                         *)
(* The proof says which message each channel holds.  Where two members are *)
(* in their exchanges is a fact about the exchange itself (SameExchange in *)
(* GroupSyncProofs), used here for the exchange that the messages make.    *)
(***************************************************************************)
EXTENDS PleCoupling, SequenceTheorems, FiniteSetTheorems, WellFoundedInduction, TLAPS

\* The exchange as the messages make it.
Joined == [a \in Apps |-> IF Waiting(a) /\ ~Sent(a) THEN own[a] ELSE None]
Out == [a \in Apps |-> Owed(a)]
Theory == INSTANCE GroupSyncProofs WITH
  TimeSteps <- TimeSteps \cup {0},
  Offers <- [flags : Flags, ts : TimeSteps],
  Starts <- {Created, Unsynced(Created)},
  view <- status,
  joined <- Joined,
  out <- Out

-------------------------------------------------------------------------------
Chan(x, y) == chan[<<Root(x), Root(y)>>]
Leaves(v) == v.flags \cap LastSync # {}

\* Messages are a value or a vector of values.
Typed == TypeOK /\ chan \in [Ranks \X Ranks -> Seq(Seq(Values))]

\* A member in a call takes itself for synchronized, and collects if it is the first.
Phases ==
  \A a \in Apps :
    /\ pc[a] # "idle" => a \in Synced(status[a])
    /\ pc[a] \in {"collect", "distribute"} => SyncRoot(a) = a
    /\ pc[a] \in {"send", "receive"} => SyncRoot(a) # a

\* Only leavers announce their end.
Stays(s) == \A b \in Apps : Leaves(s[b]) => b \in setup.leavers
Leaving ==
  \A a \in Apps : /\ Stays(status[a])
                  /\ pc[a] # "idle" /\ Leaves(own[a]) => a \in setup.leavers
                  /\ pc[a] \in {"distribute", "save"} => Stays(glob[a])

\* The value of x is under way to y, which has not received it.
Up(x, y) == /\ pc[x] = "receive" /\ SyncRoot(x) = y /\ ~Sent(x)
            /\ ~(pc[y] = "collect" /\ idx[y] > x)

\* A vector is under way from x to y.
Vectors == {v \in [1 .. N -> Values] : Stays([b \in Apps |-> v[b + 1]])}
Down(x, y) == /\ pc[y] = "receive" /\ SyncRoot(y) = x
              /\ \E v \in Vectors : Chan(x, y) = <<v>>

\* There is one message at most between two applications, and none elsewhere.
Channels ==
  \A x, y \in Apps : x # y => \/ Up(x, y) /\ Chan(x, y) = << <<own[x]>> >>
                              \/ ~Up(x, y) /\ Chan(x, y) = <<>>
                              \/ Down(x, y)
Elsewhere ==
  \A p \in Ranks \X Ranks :
    chan[p] # <<>> => \E x, y \in Apps : x # y /\ p = <<Root(x), Root(y)>>

\* While c collects, those it has received from wait for the vector; the others' values
\* are those it knew.  The same goes for those it has not yet sent the vector to.
WaitsFor(m, c) == pc[m] = "receive" /\ status[m] = status[c] /\ Chan(c, m) = <<>>
Collecting ==
  \A c \in Apps : pc[c] = "collect" =>
    \A i \in Apps : i < idx[c] =>
      IF i \in Awaited(c) THEN WaitsFor(i, c) /\ glob[c][i] = own[i]
      ELSE glob[c][i] = IF i = c THEN own[c] ELSE status[c][i]
Distributing ==
  \A c \in Apps : pc[c] = "distribute" =>
    /\ \A i \in Apps \ Synced(status[c]) : glob[c][i] = status[c][i]
    /\ \A i \in Addressed(c) : i >= idx[c] => WaitsFor(i, c)
    /\ \A i \in Apps : pc[i] = "receive" /\ SyncRoot(i) = c /\ Chan(c, i) = <<>> /\ i >= idx[c]
         => i \in Addressed(c)

Messages == /\ Typed /\ Phases /\ Leaving /\ Channels /\ Elsewhere
            /\ Collecting /\ Distributing
PleInv == Messages /\ Theory!GroupInv

-------------------------------------------------------------------------------
\* A non-empty set of naturals has a least element: among the intervals 0 .. n
\* for n in the set, one is minimal for inclusion.
LEMMA LeastIs ==
  ASSUME NEW S, S \subseteq Nat, S # {}
  PROVE  First(S) \in S /\ \A n \in S : First(S) <= n
<1> DEFINE T == {0 .. n : n \in S}
<1>1. T \subseteq FiniteSubsetsOf(Nat) /\ T # {}
  <2>1. ASSUME NEW n \in S PROVE 0 .. n \in FiniteSubsetsOf(Nat)
    BY FS_Interval DEF FiniteSubsetsOf
  <2> QED BY <2>1
<1>2. IsWellFoundedOn(StrictSubsetOrdering(Nat), FiniteSubsetsOf(Nat))
  BY FS_StrictSubsetOrderingWellFounded
<1>3. PICK x \in T : \A y \in T : ~(<<y, x>> \in StrictSubsetOrdering(Nat))
  BY <1>1, <1>2, WFMin
<1>4. PICK m \in S : x = 0 .. m
  OBVIOUS
<1>5. ASSUME NEW n \in S, ~(m <= n) PROVE FALSE
  <2>1. m \in Nat /\ n \in Nat /\ n < m
    BY <1>5
  <2>2. /\ 0 .. n \subseteq 0 .. m /\ 0 .. n # 0 .. m
        /\ 0 .. n \in SUBSET Nat /\ 0 .. m \in SUBSET Nat
    BY <2>1
  <2>3. <<0 .. n, 0 .. m>> \in StrictSubsetOrdering(Nat)
    BY <2>2 DEF StrictSubsetOrdering
  <2> QED
    BY <2>3, <1>3, <1>4
<1> QED
  BY <1>5 DEF First

\* Statuses of members, and what is made of them before an exchange.
LEMMA NoneIsNoValue ==
  None \notin Values /\ None \notin [Apps -> Values]
<1>1. Values \subseteq Group!Values
  BY DEF Values, FlagNames, Group!Values, Group!Flag
<1> QED
  BY <1>1, NoValueAssumption

LEMMA TheoryAssumptions ==
  /\ [flags : Flags, ts : TimeSteps] \subseteq Theory!Values
  /\ {Created, Unsynced(Created)} \subseteq Theory!Values
  /\ None \notin Theory!Values /\ None \notin [Apps -> Theory!Values]
<1>1. Theory!Values = Group!Values
  BY DEF Theory!Values, Theory!Flag, Group!Values, Group!Flag
<1>2. {Created, Unsynced(Created)} \subseteq Theory!Values
  BY DEF Created, Unsynced, Theory!Values, Theory!Flag
<1>3. [flags : Flags, ts : TimeSteps] \subseteq Theory!Values
  BY OfferAssumption DEF Theory!Values, Theory!Flag, FlagNames
<1> QED
  BY <1>1, <1>2, <1>3, NoValueAssumption

LEMMA TheoryStep == Theory!GroupInv /\ [Theory!GroupNext]_(Theory!groupVars) => Theory!GroupInv'
BY TheoryAssumptions, Theory!StepInv

LEMMA TheoryInit == Theory!GroupInit => Theory!GroupInv
BY TheoryAssumptions, Theory!InitInv

LEMMA MarkIs ==
  ASSUME NEW s \in [Apps -> Values]
  PROVE  /\ Mark(s) \in [Apps -> Values] /\ Mark(s) = Theory!Mark(s)
         /\ Stays(s) => Stays(Mark(s))
         /\ Synced(Mark(s)) = {b \in Apps : ~Leaves(s[b])}
<1>1. ASSUME NEW b \in Apps
      PROVE  /\ Mark(s)[b] \in Values /\ Mark(s)[b] = Theory!Mark(s)[b]
             /\ Leaves(Mark(s)[b]) <=> Leaves(s[b])
             /\ "NO_SYNC" \in Mark(s)[b].flags <=> Leaves(s[b])
  <2>1. s[b] \in Values
    OBVIOUS
  <2>2. Mark(s)[b] = [s[b] EXCEPT !.flags = (@ \ {"INIT"})
                        \cup (IF @ \cap LastSync # {} THEN {"NO_SYNC"} ELSE {})]
    BY DEF Mark
  <2>3. Mark(s)[b] = [flags |-> (s[b].flags \ {"INIT"})
                        \cup (IF s[b].flags \cap LastSync # {} THEN {"NO_SYNC"} ELSE {}),
                      ts |-> s[b].ts]
    BY <2>1, <2>2 DEF Values
  <2>4. Mark(s)[b] = Theory!Mark(s)[b]
    BY <2>3 DEF Theory!Mark, Theory!MarkFlags, Theory!LastSync, LastSync
  <2>5. s[b].flags \subseteq FlagNames /\ s[b].ts \in TimeSteps \cup {0}
    BY <2>1 DEF Values
  <2>6. Mark(s)[b].flags \subseteq FlagNames
    BY <2>3, <2>5 DEF FlagNames
  <2>7. Mark(s)[b] \in Values
    BY <2>3, <2>5, <2>6 DEF Values
  <2>8. /\ Leaves(Mark(s)[b]) <=> Leaves(s[b])
        /\ "NO_SYNC" \in Mark(s)[b].flags <=> Leaves(s[b])
    BY <2>3 DEF Leaves, LastSync
  <2> QED BY <2>4, <2>7, <2>8
<1>2. Mark(s) \in [Apps -> Values] /\ Mark(s) = Theory!Mark(s)
  BY <1>1 DEF Mark, Theory!Mark
<1> QED
  BY <1>1, <1>2 DEF Stays, Synced

LEMMA SyncedIs ==
  ASSUME NEW s \in [Apps -> Values]
  PROVE  /\ Synced(s) = Theory!Active(s) /\ Synced(s) \in SUBSET Apps
         /\ Synced(Mark(s)) \subseteq Synced(s)
BY MarkIs DEF Synced, Theory!Active, Leaves, LastSync

LEMMA AppsAre ==
  /\ N \in Nat /\ N > 0 /\ Apps \subseteq Nat /\ N - 1 \in Apps /\ 0 \in Apps
  /\ \A x \in Apps : x \in Nat /\ x < N
BY SizeAssumption DEF Apps

\* A synchronized member is not before the one that collects.
LEMMA SyncRootIs ==
  ASSUME NEW a \in Apps, a \in Synced(status[a])
  PROVE  /\ SyncRoot(a) \in Synced(status[a]) /\ SyncRoot(a) \in Apps
         /\ \A b \in Synced(status[a]) : SyncRoot(a) <= b
<1>1. Synced(status[a]) \subseteq Apps
  BY DEF Synced
<1> QED
  BY <1>1, LeastIs, AppsAre DEF SyncRoot

LEMMA RootKnown ==
  ASSUME Messages, NEW a \in Apps, pc[a] # "idle"
  PROVE  SyncRoot(a) \in Apps /\ a \in Synced(status[a])
BY SyncRootIs DEF Messages, Phases

\* A member that sends, or awaits the vector, is after the one that collects, which it
\* addresses.
LEMMA TargetIs ==
  ASSUME Messages, NEW a \in Apps, pc[a] \in {"send", "receive"}, WellRooted(setup)
  PROVE  /\ SyncRoot(a) \in Apps /\ SyncRoot(a) < a /\ Target(a) = Root(SyncRoot(a))
         /\ SyncRoot(a) \in Synced(status[a]) /\ a \in Synced(status[a])
<1> DEFINE r == SyncRoot(a)
<1>1. a \in Synced(status[a]) /\ r # a
  BY DEF Messages, Phases
<1>2. r \in Apps /\ r \in Synced(status[a]) /\ \A b \in Synced(status[a]) : r <= b
  BY <1>1, SyncRootIs
<1> HIDE DEF r
<1>3. r < a
  BY <1>1, <1>2, AppsAre
<1>4. ASSUME NEW j \in 0 .. r - 1 PROVE j \in setup.leavers
  <2>1. j \in Apps /\ j < r
    BY <1>2, <1>4, AppsAre DEF Apps
  <2>2. j \notin Synced(status[a])
    BY <1>2, <2>1, AppsAre
  <2>3. Leaves(status[a][j])
    BY <2>1, <2>2 DEF Synced, Leaves, LastSync
  <2> QED
    BY <2>1, <2>3 DEF Messages, Leaving, Stays
<1>5. r < N - 1
  BY <1>2, <1>3, AppsAre DEF Apps
<1>6. setup.info[r + 1] = Root(r)
  BY <1>2, <1>4, <1>5 DEF WellRooted, Root
<1> QED
  BY <1>1, <1>2, <1>3, <1>6 DEF Target, r

\* Two members do not send to each other.
LEMMA NotBoth ==
  ASSUME Messages, NEW x \in Apps, NEW y \in Apps,
         pc[x] \in {"send", "receive"}, pc[y] \in {"send", "receive"}, SyncRoot(x) = y
  PROVE  SyncRoot(y) # x
<1>1. x \in Synced(status[x]) /\ y \in Synced(status[y]) /\ x # y
  BY DEF Messages, Phases
<1>2. y <= x
  BY <1>1, SyncRootIs
<1>3. SyncRoot(y) = x => x <= y
  BY <1>1, SyncRootIs
<1> QED
  BY <1>1, <1>2, <1>3, AppsAre

\* Channels between applications are those between their roots.
LEMMA RootsAre ==
  ASSUME setup \in Setups
  PROVE  /\ \A x \in Apps : Root(x) \in Ranks
         /\ \A x, y \in Apps : Root(x) = Root(y) => x = y
BY SetupAssumption DEF Root, Ranks

\* A message is sent, or taken, between two applications: what the channels hold then.
LEMMA ElsewhereKept ==
  ASSUME Elsewhere, setup' = setup, NEW a \in Apps, NEW b \in Apps, a # b,
         \A p \in Ranks \X Ranks : p # <<Root(a), Root(b)>> => chan'[p] = chan[p]
  PROVE  Elsewhere'
<1>1. Ranks' = Ranks /\ \A x : Root(x)' = Root(x)
  BY DEF Ranks, Root
<1> SUFFICES ASSUME NEW p \in Ranks \X Ranks, chan'[p] # <<>>
             PROVE  \E x, y \in Apps : x # y /\ p = <<Root(x), Root(y)>>
  BY <1>1 DEF Elsewhere
<1>2. CASE p = <<Root(a), Root(b)>>
  BY <1>2
<1>3. CASE p # <<Root(a), Root(b)>>
  BY <1>3 DEF Elsewhere
<1> QED BY <1>2, <1>3

LEMMA PostIs ==
  ASSUME Typed, NEW a \in Apps, NEW b \in Apps, NEW m \in Seq(Values),
         Post(Root(a), Root(b), m), setup' = setup
  PROVE  /\ chan' \in [Ranks \X Ranks -> Seq(Seq(Values))]
         /\ \A x, y \in Apps : Chan(x, y)' = IF x = a /\ y = b THEN Append(Chan(a, b), m)
                                            ELSE Chan(x, y)
         /\ \A p \in Ranks \X Ranks : p # <<Root(a), Root(b)>> => chan'[p] = chan[p]
<1>1. setup \in Setups
  BY DEF Typed, TypeOK
<1>2. /\ \A x \in Apps : Root(x) \in Ranks
      /\ \A x, y \in Apps : Root(x) = Root(y) => x = y
  BY <1>1, RootsAre
<1>3. \A x : Root(x)' = Root(x)
  BY DEF Root
<1>4. chan' = [chan EXCEPT ![<<Root(a), Root(b)>>] = Append(@, m)]
  BY DEF Post
<1>5. chan \in [Ranks \X Ranks -> Seq(Seq(Values))]
  BY DEF Typed
<1>6. Append(chan[<<Root(a), Root(b)>>], m) \in Seq(Seq(Values))
  BY <1>2, <1>5
<1>7. ASSUME NEW x \in Apps, NEW y \in Apps
      PROVE  Chan(x, y)' = IF x = a /\ y = b THEN Append(Chan(a, b), m) ELSE Chan(x, y)
  <2>1. <<Root(x), Root(y)>> \in Ranks \X Ranks
    BY <1>2
  <2>2. <<Root(x), Root(y)>> = <<Root(a), Root(b)>> <=> x = a /\ y = b
    BY <1>2
  <2> QED
    BY <1>3, <1>4, <1>5, <2>1, <2>2 DEF Chan
<1> QED
  BY <1>2, <1>4, <1>5, <1>6, <1>7

LEMMA TakeIs ==
  ASSUME Typed, NEW a \in Apps, NEW b \in Apps, Chan(a, b) # <<>>,
         chan' = [chan EXCEPT ![<<Root(a), Root(b)>>] = Tail(@)], setup' = setup
  PROVE  /\ chan' \in [Ranks \X Ranks -> Seq(Seq(Values))]
         /\ \A x, y \in Apps : Chan(x, y)' = IF x = a /\ y = b THEN Tail(Chan(a, b))
                                            ELSE Chan(x, y)
         /\ \A p \in Ranks \X Ranks : p # <<Root(a), Root(b)>> => chan'[p] = chan[p]
<1>1. setup \in Setups
  BY DEF Typed, TypeOK
<1>2. /\ \A x \in Apps : Root(x) \in Ranks
      /\ \A x, y \in Apps : Root(x) = Root(y) => x = y
  BY <1>1, RootsAre
<1>3. \A x : Root(x)' = Root(x)
  BY DEF Root
<1>5. chan \in [Ranks \X Ranks -> Seq(Seq(Values))]
  BY DEF Typed
<1>6. Tail(chan[<<Root(a), Root(b)>>]) \in Seq(Seq(Values))
  BY <1>2, <1>5 DEF Chan
<1>7. ASSUME NEW x \in Apps, NEW y \in Apps
      PROVE  Chan(x, y)' = IF x = a /\ y = b THEN Tail(Chan(a, b)) ELSE Chan(x, y)
  <2>1. <<Root(x), Root(y)>> \in Ranks \X Ranks
    BY <1>2
  <2>2. <<Root(x), Root(y)>> = <<Root(a), Root(b)>> <=> x = a /\ y = b
    BY <1>2
  <2> QED
    BY <1>3, <1>5, <2>1, <2>2 DEF Chan
<1> QED
  BY <1>2, <1>5, <1>6, <1>7

-------------------------------------------------------------------------------
\* What a member has joined with, and is owed, by where it is.
LEMMA SentIs ==
  ASSUME NEW a
  PROVE  Sent(a) <=> /\ pc[a] = "receive"
                     /\ \/ Chan(SyncRoot(a), a) # <<>>
                        \/ pc[SyncRoot(a)] = "distribute" /\ idx[SyncRoot(a)] <= a
BY DEF Sent, Chan, Channel

LEMMA OwedIs ==
  ASSUME NEW a \in Apps
  PROVE  /\ Joined[a] = IF pc[a] \in {"send", "collect"} \/ (pc[a] = "receive" /\ ~Sent(a))
                        THEN own[a] ELSE None
         /\ Out[a] = IF pc[a] \in {"distribute", "save"} THEN glob[a]
                     ELSE IF ~Sent(a) THEN None
                     ELSE IF Chan(SyncRoot(a), a) # <<>>
                          THEN [b \in Apps |-> Head(Chan(SyncRoot(a), a))[b + 1]]
                          ELSE glob[SyncRoot(a)]
<1>1. Sent(a) => pc[a] = "receive"
  BY SentIs
<1> QED
  BY <1>1 DEF Joined, Out, Waiting, Owed, Chan, Channel

\* A member that waits works with the statuses that the collecting one works with, or
\* will work with once it is done with its exchange.
LEMMA WithRoot ==
  ASSUME PleInv, NEW m \in Apps, Waiting(m), ~Sent(m)
  PROVE  /\ SyncRoot(m) \in Apps /\ m \in Synced(status[m])
         /\ pc[SyncRoot(m)] = "collect" => status[SyncRoot(m)] = status[m]
         /\ pc[SyncRoot(m)] = "distribute" => Mark(glob[SyncRoot(m)]) = status[m]
<1> DEFINE c == SyncRoot(m)
<1>1. /\ status \in [Apps -> [Apps -> Values]] /\ glob \in [Apps -> [Apps -> Values]]
      /\ own \in [Apps -> Values]
  BY DEF PleInv, Messages, Typed, TypeOK
<1>2. m \in Synced(status[m])
  BY DEF PleInv, Messages, Phases, Waiting
<1>3. c \in Synced(status[m]) /\ c \in Apps
  BY <1>2, SyncRootIs
<1> HIDE DEF c
<1>4. Joined[m] # None
  BY <1>1, OwedIs, NoneIsNoValue DEF Waiting
<1>5. Theory!Coming(m) = status[m]
  BY <1>4 DEF PleInv, Theory!GroupInv, Theory!Waits, Theory!Coming
<1>6. m \in Theory!Active(status[m]) /\ c \in Theory!Active(status[m])
  BY <1>1, <1>2, <1>3, SyncedIs
<1>7. Theory!Coming(c) = status[m]
  BY <1>3, <1>5, <1>6 DEF PleInv, Theory!GroupInv, Theory!SameExchange
<1>8. ASSUME pc[c] = "collect" PROVE status[c] = status[m]
  <2>1. Joined[c] = own[c] /\ Out[c] = None
    BY <1>3, <1>8, OwedIs, SentIs
  <2> QED
    BY <1>1, <1>3, <1>7, <2>1, NoneIsNoValue DEF Theory!Coming
<1>9. ASSUME pc[c] = "distribute" PROVE Mark(glob[c]) = status[m]
  <2>1. Out[c] = glob[c] /\ glob[c] \in [Apps -> Values]
    BY <1>1, <1>3, <1>9, OwedIs
  <2> QED
    BY <1>7, <2>1, NoneIsNoValue, MarkIs DEF Theory!Coming
<1> QED
  BY <1>2, <1>3, <1>8, <1>9 DEF c

\* A member that does not move is as it was, unless its vector is sent to it.
LEMMA Unmoved ==
  ASSUME NEW b \in Apps, setup' = setup,
         pc'[b] = pc[b], status'[b] = status[b], own'[b] = own[b], glob'[b] = glob[b],
         NEW r, r = SyncRoot(b),
         pc[b] = "receive" => Chan(r, b)' = Chan(r, b),
         pc[b] = "receive" /\ Chan(r, b) = <<>>
           => (pc[r] = "distribute" /\ idx[r] <= b
               <=> pc'[r] = "distribute" /\ idx'[r] <= b),
         pc[b] = "receive" /\ pc[r] = "distribute" => glob'[r] = glob[r]
  PROVE  /\ SyncRoot(b)' = SyncRoot(b) /\ Sent(b)' = Sent(b)
         /\ Joined'[b] = Joined[b] /\ Out'[b] = Out[b]
<1>1. SyncRoot(b)' = r
  BY DEF SyncRoot, Synced
<1>2. Sent(b)' = Sent(b)
  BY <1>1, SentIs DEF Sent, Chan, Channel, Root
<1> QED
  BY <1>1, <1>2 DEF Joined, Out, Owed, Waiting, Sent, Chan, Channel, Root

\* What the exchange is made of changes for one member only.
LEMMA JoinedOf ==
  ASSUME NEW a \in Apps, \A b \in Apps : b # a => Joined'[b] = Joined[b]
  PROVE  Joined' = [Joined EXCEPT ![a] = Joined'[a]]
<1>1. Joined = [b \in Apps |-> Joined[b]]
  BY DEF Joined
<1>2. DOMAIN Joined' = Apps /\ Joined' = [b \in DOMAIN Joined' |-> Joined'[b]]
  BY DEF Joined
<1> QED
  BY <1>1, <1>2

LEMMA OutOf ==
  ASSUME NEW a \in Apps, \A b \in Apps : b # a => Out'[b] = Out[b]
  PROVE  Out' = [Out EXCEPT ![a] = Out'[a]]
<1>1. Out = [b \in Apps |-> Out[b]]
  BY DEF Out
<1>2. DOMAIN Out' = Apps /\ Out' = [b \in DOMAIN Out' |-> Out'[b]]
  BY DEF Out
<1> QED
  BY <1>1, <1>2

LEMMA SameRanks ==
  ASSUME setup' = setup
  PROVE  Ranks' = Ranks /\ \A x : Root(x)' = Root(x)
BY DEF Ranks, Root

-------------------------------------------------------------------------------
\* The vector is saved: the member reads what it is owed.
LEMMA SaveStep ==
  ASSUME PleInv, NEW a \in Apps, Save(a)
  PROVE  Messages' /\ Theory!Deliver(a)
<1>1. /\ status \in [Apps -> [Apps -> Values]] /\ glob \in [Apps -> [Apps -> Values]]
      /\ pc \in [Apps -> {"idle", "collect", "distribute", "send", "receive", "save"}]
      /\ Messages
  BY DEF PleInv, Messages, Typed, TypeOK
<1>2. /\ setup' = setup /\ own' = own /\ idx' = idx /\ glob' = glob /\ chan' = chan
      /\ rounds' = rounds /\ pc[a] = "save"
      /\ status' = [status EXCEPT ![a] = glob[a]] /\ pc' = [pc EXCEPT ![a] = "idle"]
  BY DEF Save
<1>3. /\ status'[a] = glob[a] /\ pc'[a] = "idle"
      /\ \A b \in Apps : b # a => status'[b] = status[b] /\ pc'[b] = pc[b]
  BY <1>1, <1>2
<1>4. \A x, y : Chan(x, y)' = Chan(x, y)
  BY <1>2 DEF Chan, Root
<1>5. ASSUME NEW b \in Apps, b # a
      PROVE  /\ SyncRoot(b)' = SyncRoot(b) /\ Sent(b)' = Sent(b)
             /\ Joined'[b] = Joined[b] /\ Out'[b] = Out[b]
  <2> PICK q : q = SyncRoot(b)
    OBVIOUS
  <2>1. pc[b] = "receive" => q \in Apps
    BY <1>1, RootKnown
  <2>2. pc[b] = "receive" => (pc[q] = "distribute" /\ idx[q] <= b
                              <=> pc'[q] = "distribute" /\ idx'[q] <= b)
    BY <1>2, <1>3, <2>1
  <2> QED
    BY <1>2, <1>3, <1>4, <1>5, <2>2, Unmoved
<1>6. Typed'
  BY <1>1, <1>2, SameRanks DEF Messages, Typed, TypeOK
<1>7. Phases'
  BY <1>1, <1>3, <1>5 DEF Messages, Phases, Synced
<1>8. Leaving'
  BY <1>1, <1>2, <1>3 DEF Messages, Leaving, Stays
<1>9. \A x, y \in Apps : /\ Up(x, y)' = Up(x, y) /\ Down(x, y)' = Down(x, y)
  <2>1. ASSUME NEW x \in Apps, NEW y \in Apps PROVE Up(x, y)' = Up(x, y)
    BY <1>2, <1>3, <1>5 DEF Up
  <2>2. ASSUME NEW x \in Apps, NEW y \in Apps PROVE Down(x, y)' = Down(x, y)
    <3>1. Vectors' = Vectors
      BY <1>2 DEF Vectors, Stays
    <3> QED
      BY <1>2, <1>3, <1>4, <1>5, <3>1 DEF Down
  <2> QED BY <2>1, <2>2
<1>10. Channels' /\ Elsewhere'
  BY <1>1, <1>2, <1>4, <1>9 DEF Messages, Channels, Elsewhere, Ranks, Root
<1>11. Collecting'
  BY <1>1, <1>2, <1>3, <1>4 DEF Messages, Collecting, WaitsFor, Awaited, Synced
<1>12. Distributing'
  BY <1>1, <1>2, <1>3, <1>4, <1>5 DEF Messages, Distributing, WaitsFor, Addressed, Synced
<1>13. Theory!Deliver(a)
  <2>1. Out[a] = glob[a] /\ glob[a] # None /\ Joined[a] = None
    BY <1>1, <1>2, OwedIs, NoneIsNoValue, SentIs
  <2>2. Out'[a] = None /\ Joined'[a] = None
    BY <1>3, SentIs DEF Out, Owed, Joined, Waiting, Sent
  <2>3. Out' = [Out EXCEPT ![a] = None] /\ Joined' = Joined
    <3>1. Joined = [b \in Apps |-> Joined[b]]
      BY DEF Joined
    <3> QED
      BY <1>5, <2>1, <2>2, <3>1, JoinedOf, OutOf
  <2> QED
    BY <1>2, <2>1, <2>3 DEF Theory!Deliver
<1> QED
  BY <1>6, <1>7, <1>8, <1>10, <1>11, <1>12, <1>13 DEF Messages

-------------------------------------------------------------------------------
\* When a member comes to send its value, the collecting one has not passed it, and has
\* nothing under way to it.
LEMMA SendsInTime ==
  ASSUME PleInv, NEW a \in Apps, pc[a] = "send", WellRooted(setup), NEW r, r = SyncRoot(a)
  PROVE  /\ Chan(a, r) = <<>> /\ Chan(r, a) = <<>>
         /\ ~(pc[r] = "receive" /\ SyncRoot(r) = a)
         /\ ~(pc[r] = "collect" /\ idx[r] > a)
         /\ ~(pc[r] = "distribute" /\ idx[r] <= a)
<1>1. /\ status \in [Apps -> [Apps -> Values]] /\ glob \in [Apps -> [Apps -> Values]]
      /\ Messages
  BY DEF PleInv, Messages, Typed, TypeOK
<1>2. r \in Apps /\ r < a /\ a \in Synced(status[a])
  BY <1>1, TargetIs
<1>3. a # r /\ a \in Nat /\ r \in Nat
  BY <1>2, AppsAre
<1>4. ~(pc[r] = "receive" /\ SyncRoot(r) = a)
  BY <1>1, <1>2, NotBoth
<1>5. Chan(a, r) = <<>> /\ Chan(r, a) = <<>>
  BY <1>1, <1>2, <1>3, <1>4 DEF Messages, Channels, Up, Down
<1>6. /\ pc[r] = "collect" => status[r] = status[a]
      /\ pc[r] = "distribute" => Mark(glob[r]) = status[a]
  BY <1>2, WithRoot, SentIs DEF Waiting
<1>7. ASSUME pc[r] = "collect", idx[r] > a PROVE FALSE
  <2>1. a \in Awaited(r) /\ a < idx[r]
    BY <1>2, <1>3, <1>6, <1>7 DEF Awaited
  <2> QED
    BY <1>1, <1>2, <1>7, <2>1 DEF Messages, Collecting, WaitsFor
<1>8. ASSUME pc[r] = "distribute", idx[r] <= a PROVE FALSE
  <2>1. a \in Synced(Mark(glob[r])) /\ glob[r] \in [Apps -> Values]
    BY <1>1, <1>2, <1>6, <1>8
  <2>2. "NO_SYNC" \notin glob[r][a].flags
    BY <2>1, MarkIs DEF Leaves, LastSync
  <2>3. a \in Addressed(r)
    BY <1>1, <1>2, <1>3, <1>8, <2>2 DEF Messages, Distributing, Addressed, Synced
  <2> QED
    BY <1>1, <1>2, <1>8, <2>3 DEF Messages, Distributing, WaitsFor
<1> QED
  BY <1>4, <1>5, <1>7, <1>8

\* A value is sent to the collecting member; the exchange knows of it already.
LEMMA SendStep ==
  ASSUME PleInv, WellRooted(setup), NEW a \in Apps, Send(a)
  PROVE  Messages' /\ UNCHANGED <<status, Joined, Out>>
<1>1. /\ own \in [Apps -> Values] /\ Messages /\ Typed
      /\ pc \in [Apps -> {"idle", "collect", "distribute", "send", "receive", "save"}]
  BY DEF PleInv, Messages, Typed, TypeOK
<1>2. /\ setup' = setup /\ own' = own /\ idx' = idx /\ glob' = glob /\ status' = status
      /\ rounds' = rounds /\ pc[a] = "send" /\ Post(Root(a), Target(a), <<own[a]>>)
      /\ pc' = [pc EXCEPT ![a] = "receive"]
  BY DEF Send
<1>3. pc'[a] = "receive" /\ \A b \in Apps : b # a => pc'[b] = pc[b]
  BY <1>1, <1>2
<1> PICK r : r = SyncRoot(a)
  OBVIOUS
<1>4. /\ r \in Apps /\ r < a /\ Target(a) = Root(r)
      /\ r \in Synced(status[a]) /\ a \in Synced(status[a])
  BY <1>1, <1>2, TargetIs
<1>5. a # r
  BY <1>4, AppsAre
<1>6. /\ Chan(a, r) = <<>> /\ Chan(r, a) = <<>>
      /\ ~(pc[r] = "receive" /\ SyncRoot(r) = a)
      /\ ~(pc[r] = "collect" /\ idx[r] > a)
      /\ ~(pc[r] = "distribute" /\ idx[r] <= a)
  BY <1>2, SendsInTime
<1>7. <<own[a]>> \in Seq(Values)
  BY <1>1
<1>8. /\ chan' \in [Ranks \X Ranks -> Seq(Seq(Values))]
      /\ \A x, y \in Apps : Chan(x, y)' = IF x = a /\ y = r THEN << <<own[a]>> >>
                                         ELSE Chan(x, y)
      /\ \A p \in Ranks \X Ranks : p # <<Root(a), Root(r)>> => chan'[p] = chan[p]
  <2>1. /\ chan' \in [Ranks \X Ranks -> Seq(Seq(Values))]
        /\ \A x, y \in Apps : Chan(x, y)' = IF x = a /\ y = r
                                            THEN Append(Chan(a, r), <<own[a]>>)
                                            ELSE Chan(x, y)
        /\ \A p \in Ranks \X Ranks : p # <<Root(a), Root(r)>> => chan'[p] = chan[p]
    <3>1. Post(Root(a), Root(r), <<own[a]>>)
      BY <1>2, <1>4
    <3> QED
      BY <1>1, <1>2, <1>4, <1>7, <3>1, PostIs
  <2>2. Append(Chan(a, r), <<own[a]>>) = << <<own[a]>> >>
    BY <1>6
  <2> QED
    BY <2>1, <2>2
<1>9. ASSUME NEW b \in Apps, b # a
      PROVE  /\ SyncRoot(b)' = SyncRoot(b) /\ Sent(b)' = Sent(b)
             /\ Joined'[b] = Joined[b] /\ Out'[b] = Out[b]
  <2> PICK q : q = SyncRoot(b)
    OBVIOUS
  <2>1. pc[b] = "receive" => q \in Apps
    BY <1>1, RootKnown
  <2>2. pc[b] = "receive" => Chan(q, b)' = Chan(q, b)
    <3>1. q = a => b # r \/ pc[b] # "receive"
      BY <1>6
    <3> QED
      BY <1>8, <2>1, <3>1
  <2>3. pc[b] = "receive" => (pc[q] = "distribute" /\ idx[q] <= b
                              <=> pc'[q] = "distribute" /\ idx'[q] <= b)
    BY <1>2, <1>3, <2>1
  <2> QED
    BY <1>2, <1>3, <1>9, <2>2, <2>3, Unmoved
<1>10. SyncRoot(a)' = r /\ ~Sent(a)'
  <2>1. SyncRoot(a)' = r
    BY <1>2 DEF SyncRoot, Synced
  <2>2. Chan(r, a)' = <<>> /\ ~(pc'[r] = "distribute" /\ idx'[r] <= a)
    BY <1>2, <1>3, <1>4, <1>5, <1>6, <1>8
  <2> QED
    BY <2>1, <2>2 DEF Sent, Chan, Channel, Root
<1>11. Joined'[a] = Joined[a] /\ Out'[a] = Out[a]
  <2>1. ~Sent(a) /\ pc[a] = "send"
    BY <1>2, SentIs
  <2> QED
    BY <1>2, <1>3, <1>10, <2>1 DEF Joined, Out, Owed, Waiting
<1>12. UNCHANGED <<status, Joined, Out>>
  <2>1. Joined = [b \in Apps |-> Joined[b]] /\ Out = [b \in Apps |-> Out[b]]
    BY DEF Joined, Out
  <2> QED
    BY <1>2, <1>9, <1>11, <2>1, JoinedOf, OutOf
<1>13. Typed'
  BY <1>1, <1>2, <1>8, SameRanks DEF Messages, Typed, TypeOK
<1>14. Phases'
  BY <1>1, <1>2, <1>3, <1>4, <1>5, <1>9, <1>10 DEF Messages, Phases, Synced
<1>15. Leaving'
  BY <1>1, <1>2, <1>3 DEF Messages, Leaving, Stays
<1>16. Channels'
  <2> SUFFICES ASSUME NEW x \in Apps, NEW y \in Apps, x # y
               PROVE  \/ Up(x, y)' /\ Chan(x, y)' = << <<own[x]>> >>
                      \/ ~Up(x, y)' /\ Chan(x, y)' = <<>>
                      \/ Down(x, y)'
    BY <1>2 DEF Channels
  <2>1. CASE x = a /\ y = r
    BY <1>2, <1>3, <1>4, <1>5, <1>6, <1>8, <1>10, <2>1 DEF Up
  <2>2. CASE x = a /\ y # r
    <3>1. ~Up(x, y)' /\ ~Up(x, y) /\ ~(Down(x, y) /\ y = a)
      BY <1>2, <1>10, <2>2 DEF Up
    <3>2. Chan(x, y)' = Chan(x, y) /\ y # a
      BY <1>8, <2>2
    <3>3. Down(x, y)' <=> Down(x, y)
      BY <1>2, <1>3, <1>9, <3>2 DEF Down, Vectors, Stays
    <3> QED
      BY <1>1, <3>1, <3>2, <3>3 DEF Messages, Channels
  <2>3. CASE x # a
    <3>1. Chan(x, y)' = Chan(x, y) /\ Up(x, y)' = Up(x, y)
      BY <1>2, <1>3, <1>8, <1>9, <2>3 DEF Up
    <3>2. y # a => (Down(x, y)' <=> Down(x, y))
      BY <1>2, <1>3, <1>9, <3>1 DEF Down, Vectors, Stays
    <3>3. y = a => ~Down(x, y)
      BY <1>2 DEF Down
    <3> QED
      BY <1>1, <1>2, <2>3, <3>1, <3>2, <3>3 DEF Messages, Channels
  <2> QED
    BY <2>1, <2>2, <2>3
<1>17. Elsewhere'
  BY <1>1, <1>2, <1>4, <1>5, <1>8, ElsewhereKept DEF Messages
<1>18. \A i, c \in Apps : c # a /\ WaitsFor(i, c) => WaitsFor(i, c)'
  BY <1>2, <1>3, <1>5, <1>6, <1>8 DEF WaitsFor
<1>19. Collecting'
  BY <1>1, <1>2, <1>3, <1>18 DEF Messages, Collecting, Awaited, Synced
<1>20. Distributing'
  BY <1>1, <1>2, <1>3, <1>6, <1>8, <1>9, <1>10, <1>18
     DEF Messages, Distributing, Addressed, Synced
<1> QED
  BY <1>12, <1>13, <1>14, <1>15, <1>16, <1>17, <1>19, <1>20 DEF Messages
-------------------------------------------------------------------------------
\* Those that a member collects from, or sends the vector to, take it for the first.
LEMMA WaiterRoot ==
  ASSUME Messages, NEW c \in Apps, NEW m \in Apps,
         pc[c] \in {"collect", "distribute"}, WaitsFor(m, c)
  PROVE  SyncRoot(m) = c
<1>1. SyncRoot(c) = c /\ status[m] = status[c]
  BY DEF Messages, Phases, WaitsFor
<1> QED
  BY <1>1 DEF SyncRoot

\* The vector is received: it is what the member is owed.
LEMMA ReceiveStep ==
  ASSUME PleInv, WellRooted(setup), NEW a \in Apps, Receive(a)
  PROVE  Messages' /\ UNCHANGED <<status, Joined, Out>>
<1>1. /\ own \in [Apps -> Values] /\ glob \in [Apps -> [Apps -> Values]]
      /\ Messages /\ Typed
      /\ pc \in [Apps -> {"idle", "collect", "distribute", "send", "receive", "save"}]
  BY DEF PleInv, Messages, Typed, TypeOK
<1>2. /\ setup' = setup /\ own' = own /\ idx' = idx /\ status' = status
      /\ rounds' = rounds /\ pc[a] = "receive" /\ pc' = [pc EXCEPT ![a] = "save"]
      /\ chan' = [chan EXCEPT ![<<Target(a), Root(a)>>] = Tail(@)]
      /\ Channel(Target(a), Root(a)) # <<>>
  BY DEF Receive
<1>3. pc'[a] = "save" /\ \A b \in Apps : b # a => pc'[b] = pc[b]
  BY <1>1, <1>2
<1> PICK r : r = SyncRoot(a)
  OBVIOUS
<1>4. /\ r \in Apps /\ r < a /\ Target(a) = Root(r) /\ a \in Synced(status[a])
  BY <1>1, <1>2, TargetIs
<1>5. r # a /\ ~(pc[r] \in {"send", "receive"} /\ SyncRoot(r) = a)
  BY <1>1, <1>2, <1>4, AppsAre, NotBoth
<1>6. Chan(r, a) # <<>>
  BY <1>2, <1>4 DEF Chan, Channel
<1>7. PICK v \in Vectors : Chan(r, a) = <<v>>
  BY <1>1, <1>4, <1>5, <1>6 DEF Messages, Channels, Up, Down
<1>8. v \in [1 .. N -> Values] /\ Stays([b \in Apps |-> v[b + 1]]) /\ Len(v) = N
  BY AppsAre DEF Vectors
<1>9. glob' = [glob EXCEPT ![a] = [b \in Apps |-> v[b + 1]]]
  <2>1. Head(Channel(Target(a), Root(a))) = v
    BY <1>4, <1>7 DEF Chan, Channel
  <2>2. PICK rest \in {Blank} :
          glob' = [glob EXCEPT ![a] = [b \in Apps |-> IF b < Len(v) THEN v[b + 1] ELSE rest]]
    BY <1>8, <2>1 DEF Receive
  <2>3. [b \in Apps |-> IF b < Len(v) THEN v[b + 1] ELSE rest] = [b \in Apps |-> v[b + 1]]
    BY <1>8, AppsAre
  <2> QED
    BY <2>2, <2>3
<1>10. [b \in Apps |-> v[b + 1]] \in [Apps -> Values]
  BY <1>8, AppsAre
<1>11. /\ glob'[a] = [b \in Apps |-> v[b + 1]] /\ glob' \in [Apps -> [Apps -> Values]]
       /\ \A b \in Apps : b # a => glob'[b] = glob[b]
  BY <1>1, <1>9, <1>10
<1>12. /\ chan' \in [Ranks \X Ranks -> Seq(Seq(Values))]
       /\ \A x, y \in Apps : Chan(x, y)' = IF x = r /\ y = a THEN <<>> ELSE Chan(x, y)
       /\ \A p \in Ranks \X Ranks : p # <<Root(r), Root(a)>> => chan'[p] = chan[p]
  <2>1. chan' = [chan EXCEPT ![<<Root(r), Root(a)>>] = Tail(@)]
    BY <1>2, <1>4
  <2>2. Tail(Chan(r, a)) = <<>>
    BY <1>7
  <2>3. /\ chan' \in [Ranks \X Ranks -> Seq(Seq(Values))]
        /\ \A x, y \in Apps : Chan(x, y)' = IF x = r /\ y = a THEN Tail(Chan(r, a))
                                            ELSE Chan(x, y)
        /\ \A p \in Ranks \X Ranks : p # <<Root(r), Root(a)>> => chan'[p] = chan[p]
    BY <1>1, <1>2, <1>4, <1>6, <2>1, TakeIs
  <2> QED
    BY <2>2, <2>3
<1>13. ASSUME NEW b \in Apps, b # a
       PROVE  /\ SyncRoot(b)' = SyncRoot(b) /\ Sent(b)' = Sent(b)
              /\ Joined'[b] = Joined[b] /\ Out'[b] = Out[b]
  <2> PICK q : q = SyncRoot(b)
    OBVIOUS
  <2>1. pc[b] = "receive" => q \in Apps
    BY <1>1, RootKnown
  <2>2. pc[b] = "receive" => Chan(q, b)' = Chan(q, b)
    BY <1>12, <1>13, <2>1
  <2>3. pc[b] = "receive" => (pc[q] = "distribute" /\ idx[q] <= b
                              <=> pc'[q] = "distribute" /\ idx'[q] <= b)
    BY <1>2, <1>3, <2>1
  <2>4. pc[b] = "receive" /\ pc[q] = "distribute" => glob'[q] = glob[q]
    BY <1>2, <1>11, <2>1
  <2> QED
    BY <1>2, <1>3, <1>11, <1>13, <2>2, <2>3, <2>4, Unmoved
<1>14. Sent(a) /\ SyncRoot(a)' = r
  <2>1. SyncRoot(a)' = r
    BY <1>2 DEF SyncRoot, Synced
  <2> QED
    BY <1>2, <1>6, <2>1, SentIs
<1>15. Joined'[a] = Joined[a] /\ Out'[a] = Out[a]
  <2>1. Joined[a] = None /\ Out[a] = [b \in Apps |-> v[b + 1]]
    BY <1>2, <1>6, <1>7, <1>14, OwedIs
  <2>2. Joined'[a] = None /\ Out'[a] = glob'[a]
    BY <1>3 DEF Joined, Out, Owed, Waiting
  <2> QED
    BY <1>11, <2>1, <2>2
<1>16. UNCHANGED <<status, Joined, Out>>
  <2>1. Joined = [b \in Apps |-> Joined[b]] /\ Out = [b \in Apps |-> Out[b]]
    BY DEF Joined, Out
  <2> QED
    BY <1>2, <1>13, <1>15, <2>1, JoinedOf, OutOf
<1>17. Typed'
  BY <1>1, <1>2, <1>11, <1>12, SameRanks DEF Messages, Typed, TypeOK
<1>18. Phases'
  BY <1>1, <1>2, <1>3, <1>4, <1>13 DEF Messages, Phases, Synced
<1>19. Leaving'
  BY <1>1, <1>2, <1>3, <1>8, <1>11 DEF Messages, Leaving, Stays
<1>20. Channels'
  <2> SUFFICES ASSUME NEW x \in Apps, NEW y \in Apps, x # y
               PROVE  \/ Up(x, y)' /\ Chan(x, y)' = << <<own[x]>> >>
                      \/ ~Up(x, y)' /\ Chan(x, y)' = <<>>
                      \/ Down(x, y)'
    BY <1>2 DEF Channels
  <2>1. Up(x, y)' = Up(x, y)
    <3>1. CASE x = a
      BY <1>3, <1>14, <3>1 DEF Up
    <3>2. CASE x # a
      BY <1>2, <1>3, <1>13, <3>2 DEF Up
    <3> QED BY <3>1, <3>2
  <2>2. CASE x = r /\ y = a
    BY <1>5, <1>12, <2>1, <2>2 DEF Up
  <2>3. CASE y = a /\ x # r
    <3>1. ~Down(x, y) /\ Chan(x, y)' = Chan(x, y)
      BY <1>12, <2>3 DEF Down
    <3> QED
      BY <1>1, <2>1, <3>1 DEF Messages, Channels
  <2>4. CASE y # a
    <3>1. Chan(x, y)' = Chan(x, y)
      BY <1>12, <2>4
    <3>2. Down(x, y)' <=> Down(x, y)
      BY <1>2, <1>3, <1>13, <2>4, <3>1 DEF Down, Vectors, Stays
    <3> QED
      BY <1>1, <2>1, <3>1, <3>2 DEF Messages, Channels
  <2> QED
    BY <2>2, <2>3, <2>4
<1>21. Elsewhere'
  BY <1>1, <1>2, <1>4, <1>5, <1>12, ElsewhereKept DEF Messages
<1>22. ASSUME NEW c \in Apps, NEW i \in Apps,
              pc[c] \in {"collect", "distribute"}, WaitsFor(i, c)
       PROVE  i # a /\ WaitsFor(i, c)'
  <2>1. SyncRoot(i) = c
    BY <1>1, <1>22, WaiterRoot
  <2>2. i # a
    BY <1>6, <1>22, <2>1 DEF WaitsFor
  <2> QED
    BY <1>2, <1>3, <1>12, <1>22, <2>2 DEF WaitsFor
<1>23. Collecting'
  <2> SUFFICES ASSUME NEW c \in Apps, pc'[c] = "collect", NEW i \in Apps, i < idx[c]
               PROVE  IF i \in Awaited(c) THEN WaitsFor(i, c)' /\ glob'[c][i] = own[i]
                      ELSE glob'[c][i] = IF i = c THEN own[c] ELSE status[c][i]
    BY <1>2 DEF Collecting, Awaited, Synced
  <2>1. c # a /\ pc[c] = "collect"
    BY <1>3
  <2> QED
    BY <1>1, <1>11, <1>22, <2>1 DEF Messages, Collecting
<1>24. Distributing'
  <2> SUFFICES ASSUME NEW c \in Apps, pc'[c] = "distribute"
               PROVE  /\ \A i \in Apps \ Synced(status[c]) : glob'[c][i] = status[c][i]
                      /\ \A i \in Addressed(c) : i >= idx[c] => WaitsFor(i, c)'
                      /\ \A i \in Apps : pc'[i] = "receive" /\ SyncRoot(i)' = c
                           /\ Chan(c, i)' = <<>> /\ i >= idx[c] => i \in Addressed(c)
    BY <1>2 DEF Distributing, Addressed, Synced
  <2>1. c # a /\ pc[c] = "distribute" /\ glob'[c] = glob[c]
    BY <1>3, <1>11
  <2>2. \A i \in Addressed(c) : i \in Apps
    BY DEF Addressed, Synced
  <2>3. \A i \in Addressed(c) : i >= idx[c] => WaitsFor(i, c)'
    BY <1>1, <1>22, <2>1, <2>2 DEF Messages, Distributing
  <2>4. \A i \in Apps : pc'[i] = "receive" /\ SyncRoot(i)' = c
           /\ Chan(c, i)' = <<>> /\ i >= idx[c] => i \in Addressed(c)
    BY <1>1, <1>3, <1>12, <1>13, <2>1 DEF Messages, Distributing
  <2> QED
    BY <1>1, <2>1, <2>3, <2>4 DEF Messages, Distributing
<1> QED
  BY <1>16, <1>17, <1>18, <1>19, <1>20, <1>21, <1>23, <1>24 DEF Messages
-------------------------------------------------------------------------------
\* The loop that distributes goes on to the next application, or ends.
LEMMA LoopIs ==
  ASSUME NEW i \in Apps, NEW b \in Apps
  PROVE  /\ ~AtEnd(i) => i + 1 \in Apps
         /\ b # i => (i <= b <=> ~AtEnd(i) /\ i + 1 <= b)
         /\ b < i + 1 <=> b < i \/ b = i
BY SizeAssumption DEF Apps, AtEnd

\* The vector that is sent is the one that is read on reception.
LEMMA VectorIs ==
  ASSUME NEW g \in [Apps -> Values], Stays(g)
  PROVE  /\ [b \in 1 .. N |-> g[b - 1]] \in Vectors
         /\ [b \in Apps |-> [k \in 1 .. N |-> g[k - 1]][b + 1]] = g
<1>1. \A b \in 1 .. N : b - 1 \in Apps
  BY SizeAssumption DEF Apps
<1>2. \A b \in Apps : b + 1 \in 1 .. N /\ (b + 1) - 1 = b
  BY SizeAssumption DEF Apps
<1>3. [b \in Apps |-> [k \in 1 .. N |-> g[k - 1]][b + 1]] = g
  BY <1>2
<1> QED
  BY <1>1, <1>3 DEF Vectors

\* The vector goes to the next member, which is owed it already; an application that is
\* not addressed has its vector, or awaits none.
LEMMA DistributeStep ==
  ASSUME PleInv, NEW a \in Apps, Distribute(a)
  PROVE  Messages' /\ UNCHANGED <<status, Joined, Out>>
<1>1. /\ own \in [Apps -> Values] /\ glob \in [Apps -> [Apps -> Values]]
      /\ idx \in [Apps -> Apps] /\ Messages /\ Typed
      /\ pc \in [Apps -> {"idle", "collect", "distribute", "send", "receive", "save"}]
  BY DEF PleInv, Messages, Typed, TypeOK
<1> PICK i \in Apps : i = idx[a]
  BY <1>1
<1>0. PICK g : g = [b \in 1 .. N |-> glob[a][b - 1]]
  OBVIOUS
<1>2. /\ setup' = setup /\ own' = own /\ status' = status /\ glob' = glob
      /\ rounds' = rounds /\ pc[a] = "distribute"
      /\ IF i \in Addressed(a) THEN Post(Root(a), Root(i), g) ELSE UNCHANGED chan
      /\ idx' = [idx EXCEPT ![a] = IF AtEnd(i) THEN 0 ELSE i + 1]
      /\ pc' = [pc EXCEPT ![a] = IF AtEnd(i) THEN "save" ELSE "distribute"]
  BY <1>0 DEF Distribute
<1>3. /\ pc'[a] = IF AtEnd(i) THEN "save" ELSE "distribute"
      /\ idx'[a] = IF AtEnd(i) THEN 0 ELSE i + 1
      /\ \A b \in Apps : b # a => pc'[b] = pc[b] /\ idx'[b] = idx[b]
  BY <1>1, <1>2
<1>4. SyncRoot(a) = a /\ a \in Synced(status[a]) /\ Stays(glob[a])
  BY <1>1, <1>2 DEF Messages, Phases, Leaving
<1>5. /\ g \in Vectors /\ [b \in Apps |-> g[b + 1]] = glob[a]
  BY <1>0, <1>1, <1>4, VectorIs
<1>6. ASSUME i \in Addressed(a)
      PROVE  pc[i] = "receive" /\ Chan(a, i) = <<>> /\ SyncRoot(i) = a /\ i # a
  <2>1. WaitsFor(i, a)
    BY <1>1, <1>2, <1>6, AppsAre DEF Messages, Distributing
  <2> QED
    BY <1>1, <1>2, <1>6, <2>1, WaiterRoot DEF WaitsFor, Addressed
<1>7. ASSUME i \notin Addressed(a)
      PROVE  ~(pc[i] = "receive" /\ SyncRoot(i) = a /\ Chan(a, i) = <<>>)
  BY <1>1, <1>2, <1>7, AppsAre DEF Messages, Distributing
<1>8. /\ chan' \in [Ranks \X Ranks -> Seq(Seq(Values))]
      /\ \A x, y \in Apps : Chan(x, y)' = IF x = a /\ y = i /\ i \in Addressed(a)
                                         THEN <<g>> ELSE Chan(x, y)
      /\ \A p \in Ranks \X Ranks : p # <<Root(a), Root(i)>> => chan'[p] = chan[p]
  <2>1. CASE i \in Addressed(a)
    <3>1. g \in Seq(Values)
      BY <1>5, AppsAre DEF Vectors
    <3>2. Post(Root(a), Root(i), g)
      BY <1>2, <2>1
    <3>3. /\ chan' \in [Ranks \X Ranks -> Seq(Seq(Values))]
          /\ \A x, y \in Apps : Chan(x, y)' = IF x = a /\ y = i THEN Append(Chan(a, i), g)
                                             ELSE Chan(x, y)
          /\ \A p \in Ranks \X Ranks : p # <<Root(a), Root(i)>> => chan'[p] = chan[p]
      BY <1>1, <1>2, <3>1, <3>2, PostIs
    <3>4. Append(Chan(a, i), g) = <<g>>
      <4>1. Chan(a, i) = <<>>
        BY <1>6, <2>1
      <4>2. Append(<<>>, g) = <<g>>
        BY <3>1
      <4> QED
        BY <4>1, <4>2
    <3> QED
      BY <2>1, <3>3, <3>4
  <2>2. CASE i \notin Addressed(a)
    <3>1. chan' = chan
      BY <1>2, <2>2
    <3> QED
      <4>1. chan' \in [Ranks \X Ranks -> Seq(Seq(Values))]
        BY <1>1, <3>1 DEF Typed
      <4>2. \A x, y \in Apps : Chan(x, y)' = Chan(x, y)
        BY <1>2, <3>1 DEF Chan, Root
      <4> QED
        BY <2>2, <3>1, <4>1, <4>2
  <2> QED
    BY <2>1, <2>2
<1>9. \A b \in Apps : SyncRoot(b)' = SyncRoot(b)
  BY <1>2 DEF SyncRoot, Synced
<1>10. ASSUME NEW b \in Apps, b # a, ~(b = i /\ i \in Addressed(a))
       PROVE  Sent(b)' = Sent(b) /\ Joined'[b] = Joined[b] /\ Out'[b] = Out[b]
  <2> PICK q : q = SyncRoot(b)
    OBVIOUS
  <2>1. pc[b] = "receive" => q \in Apps
    BY <1>1, RootKnown
  <2>2. pc[b] = "receive" => Chan(q, b)' = Chan(q, b)
    BY <1>8, <1>10, <2>1
  <2>3. pc[b] = "receive" /\ Chan(q, b) = <<>>
          => (pc[q] = "distribute" /\ idx[q] <= b
              <=> pc'[q] = "distribute" /\ idx'[q] <= b)
    <3>1. CASE q # a
      BY <1>3, <2>1, <3>1
    <3>2. CASE q = a /\ b # i
      BY <1>2, <1>3, <3>2, LoopIs
    <3>3. CASE q = a /\ b = i
      BY <1>7, <1>10, <3>3
    <3> QED BY <3>1, <3>2, <3>3
  <2> QED
    BY <1>2, <1>3, <1>10, <2>2, <2>3, Unmoved
<1>11. ASSUME NEW b \in Apps, b = i, i \in Addressed(a)
       PROVE  Sent(b)' = Sent(b) /\ Joined'[b] = Joined[b] /\ Out'[b] = Out[b]
  <2>1. Sent(b) /\ Joined[b] = None /\ Out[b] = glob[a]
    <3>1. Sent(b)
      BY <1>2, <1>6, <1>11, SentIs, AppsAre
    <3> QED
      BY <1>6, <1>11, <3>1, OwedIs
  <2>2. pc'[b] = "receive" /\ SyncRoot(b)' = a /\ Chan(a, b)' = <<g>>
    BY <1>3, <1>6, <1>8, <1>9, <1>11
  <2>3. Channel(Root(SyncRoot(b)), Root(b))' = <<g>>
    BY <2>2 DEF Chan, Channel, Root
  <2>4. Sent(b)'
    BY <2>2, <2>3 DEF Sent
  <2>5. Joined'[b] = None /\ Out'[b] = [k \in Apps |-> Head(<<g>>)[k + 1]]
    BY <2>2, <2>3, <2>4 DEF Joined, Out, Owed, Waiting
  <2>6. Head(<<g>>) = g
    OBVIOUS
  <2>7. Out'[b] = glob[a]
    BY <1>5, <2>5, <2>6
  <2> QED
    BY <2>1, <2>4, <2>5, <2>7
<1>12. ASSUME NEW b \in Apps, b = a
       PROVE  Sent(b)' = Sent(b) /\ Joined'[b] = Joined[b] /\ Out'[b] = Out[b]
  <2>1. Sent(b) = FALSE /\ Joined[b] = None /\ Out[b] = glob[b]
    BY <1>2, <1>12, OwedIs DEF Sent
  <2>2. pc'[b] \in {"distribute", "save"}
    BY <1>3, <1>12
  <2>3. Sent(b)' = FALSE /\ Joined'[b] = None /\ Out'[b] = glob'[b]
    BY <2>2 DEF Sent, Joined, Out, Owed, Waiting
  <2> QED
    BY <1>2, <2>1, <2>3
<1>13. \A b \in Apps : Sent(b)' = Sent(b) /\ Joined'[b] = Joined[b] /\ Out'[b] = Out[b]
  BY <1>10, <1>11, <1>12
<1>14. UNCHANGED <<status, Joined, Out>>
  <2>1. Joined = [b \in Apps |-> Joined[b]] /\ Out = [b \in Apps |-> Out[b]]
    BY DEF Joined, Out
  <2> QED
    BY <1>2, <1>13, <2>1, JoinedOf, OutOf
<1>15. Typed'
  <2>1. idx' \in [Apps -> Apps]
    BY <1>1, <1>2, LoopIs, AppsAre
  <2> QED
    BY <1>1, <1>2, <1>8, <2>1, SameRanks DEF Messages, Typed, TypeOK
<1>16. Phases'
  <2>1. \A b \in Apps : b # a => pc'[b] = pc[b]
    BY <1>3
  <2>2. pc'[a] \in {"distribute", "save"}
    BY <1>3
  <2> QED
    BY <1>1, <1>2, <1>4, <1>9, <2>1, <2>2 DEF Messages, Phases, Synced
<1>17. Leaving'
  <2>1. \A b \in Apps : /\ pc'[b] # "idle" => pc[b] # "idle"
                        /\ pc'[b] \in {"distribute", "save"} => pc[b] \in {"distribute", "save"}
    BY <1>2, <1>3
  <2> QED
    BY <1>1, <1>2, <2>1 DEF Messages, Leaving, Stays
<1>18. Channels'
  <2> SUFFICES ASSUME NEW x \in Apps, NEW y \in Apps, x # y
               PROVE  \/ Up(x, y)' /\ Chan(x, y)' = << <<own[x]>> >>
                      \/ ~Up(x, y)' /\ Chan(x, y)' = <<>>
                      \/ Down(x, y)'
    BY <1>2 DEF Channels
  <2>1. Up(x, y)' = Up(x, y)
    <3>1. pc'[x] = "receive" <=> pc[x] = "receive"
      BY <1>2, <1>3
    <3>2. pc'[y] = "collect" /\ idx'[y] > x <=> pc[y] = "collect" /\ idx[y] > x
      BY <1>2, <1>3
    <3> QED
      BY <1>9, <1>13, <3>1, <3>2 DEF Up
  <2>2. CASE x = a /\ y = i /\ i \in Addressed(a)
    <3>1. pc'[i] = "receive" /\ SyncRoot(i)' = a /\ Chan(a, i)' = <<g>> /\ Vectors' = Vectors
      BY <1>2, <1>3, <1>6, <1>8, <1>9, <2>2 DEF Vectors, Stays
    <3>2. Down(a, i)'
      BY <1>5, <3>1 DEF Down
    <3> QED
      BY <2>2, <3>2
  <2>3. CASE ~(x = a /\ y = i /\ i \in Addressed(a))
    <3>1. Chan(x, y)' = Chan(x, y) /\ (pc'[y] = "receive" <=> pc[y] = "receive")
      BY <1>2, <1>3, <1>8, <2>3
    <3>2. Down(x, y)' <=> Down(x, y)
      BY <1>2, <1>9, <3>1 DEF Down, Vectors, Stays
    <3> QED
      BY <1>1, <2>1, <3>1, <3>2 DEF Messages, Channels
  <2> QED
    BY <2>2, <2>3
<1>19. Elsewhere'
  <2>1. CASE i = a
    <3>1. chan' = chan
      BY <1>2, <1>6, <2>1
    <3> QED
      BY <1>1, <1>2, <3>1, SameRanks DEF Messages, Elsewhere
  <2>2. CASE i # a
    BY <1>1, <1>2, <1>8, <2>2, ElsewhereKept DEF Messages
  <2> QED BY <2>1, <2>2
<1>20. ASSUME NEW c \in Apps, NEW m \in Apps, WaitsFor(m, c), ~(c = a /\ m = i)
       PROVE  WaitsFor(m, c)'
  BY <1>2, <1>3, <1>8, <1>20 DEF WaitsFor
<1>21. Collecting'
  <2> SUFFICES ASSUME NEW c \in Apps, pc'[c] = "collect", NEW m \in Apps, m < idx'[c]
               PROVE  IF m \in Awaited(c) THEN WaitsFor(m, c)' /\ glob[c][m] = own[m]
                      ELSE glob[c][m] = IF m = c THEN own[c] ELSE status[c][m]
    BY <1>2 DEF Collecting, Awaited, Synced
  <2>1. c # a /\ pc[c] = "collect" /\ m < idx[c]
    BY <1>3
  <2> QED
    BY <1>1, <1>20, <2>1 DEF Messages, Collecting
<1>22. Distributing'
  <2> SUFFICES ASSUME NEW c \in Apps, pc'[c] = "distribute"
               PROVE  /\ \A m \in Apps \ Synced(status[c]) : glob[c][m] = status[c][m]
                      /\ \A m \in Addressed(c) : m >= idx'[c] => WaitsFor(m, c)'
                      /\ \A m \in Apps : pc'[m] = "receive" /\ SyncRoot(m)' = c
                           /\ Chan(c, m)' = <<>> /\ m >= idx'[c] => m \in Addressed(c)
    BY <1>2 DEF Distributing, Addressed, Synced
  <2>1. pc[c] = "distribute"
    BY <1>2, <1>3
  <2>2. ASSUME NEW m \in Apps, m >= idx'[c] PROVE m >= idx[c] /\ ~(c = a /\ m = i)
    <3>1. CASE c # a
      BY <1>3, <2>2, <3>1
    <3>2. CASE c = a
      BY <1>3, <2>2, <3>2, AppsAre
    <3> QED BY <3>1, <3>2
  <2>3. ASSUME NEW m \in Addressed(c), m >= idx'[c] PROVE WaitsFor(m, c)'
    <3>1. m \in Apps
      BY DEF Addressed, Synced
    <3>2. WaitsFor(m, c)
      BY <1>1, <2>1, <2>2, <2>3, <3>1 DEF Messages, Distributing
    <3> QED
      BY <1>20, <2>2, <2>3, <3>1, <3>2
  <2>4. ASSUME NEW m \in Apps, pc'[m] = "receive", SyncRoot(m)' = c,
               Chan(c, m)' = <<>>, m >= idx'[c]
        PROVE  m \in Addressed(c)
    <3>1. pc[m] = "receive" /\ SyncRoot(m) = c /\ Chan(c, m) = <<>> /\ m >= idx[c]
      BY <1>3, <1>8, <1>9, <2>2, <2>4
    <3> QED
      BY <1>1, <2>1, <3>1 DEF Messages, Distributing
  <2> QED
    BY <1>1, <2>1, <2>3, <2>4 DEF Messages, Distributing
<1> QED
  BY <1>14, <1>15, <1>16, <1>17, <1>18, <1>19, <1>21, <1>22 DEF Messages
-------------------------------------------------------------------------------
\* What waits for a collecting member, and has not been answered, is synchronized with it.
LEMMA WaitsTogether ==
  ASSUME PleInv, NEW a \in Apps, pc[a] = "collect",
         NEW m \in Apps, pc[m] = "receive", SyncRoot(m) = a, Chan(a, m) = <<>>
  PROVE  m \in Awaited(a) /\ WaitsFor(m, a) /\ ~Sent(m)
<1>1. ~Sent(m)
  BY SentIs
<1>2. status[a] = status[m] /\ m \in Synced(status[m])
  BY <1>1, WithRoot DEF Waiting
<1> QED
  BY <1>1, <1>2 DEF WaitsFor, Awaited

\* The collecting member goes through one application: what it has then.
LEMMA CollectsOne ==
  ASSUME PleInv, NEW a \in Apps, NEW i, i = idx[a], Collect(a)
  PROVE  /\ i \in Apps
         /\ i \in Awaited(a) => WaitsFor(i, a) /\ SyncRoot(i) = a /\ i # a
         /\ glob' \in [Apps -> [Apps -> Values]]
         /\ \A b \in Apps : b # a => glob'[b] = glob[b]
         /\ \A m \in Apps : m # i => glob'[a][m] = glob[a][m]
         /\ glob'[a][i] = IF i \in Awaited(a) THEN own[i]
                          ELSE IF i = a THEN own[a] ELSE status[a][i]
         /\ chan' \in [Ranks \X Ranks -> Seq(Seq(Values))]
         /\ \A x, y \in Apps : Chan(x, y)' = IF x = i /\ y = a /\ i \in Awaited(a)
                                            THEN <<>> ELSE Chan(x, y)
         /\ Elsewhere'
<1>1. /\ own \in [Apps -> Values] /\ glob \in [Apps -> [Apps -> Values]]
      /\ status \in [Apps -> [Apps -> Values]] /\ i \in Apps /\ Messages /\ Typed
  BY DEF PleInv, Messages, Typed, TypeOK
<1>2. setup' = setup /\ pc[a] = "collect"
  BY DEF Collect
<1>3. CASE i \notin Awaited(a)
  <2>1. /\ glob' = [glob EXCEPT ![a][i] = IF i = a THEN own[a] ELSE status[a][i]]
        /\ chan' = chan
    BY <1>3 DEF Collect
  <2>2. (IF i = a THEN own[a] ELSE status[a][i]) \in Values
    BY <1>1
  <2>3. \A x, y \in Apps : Chan(x, y)' = Chan(x, y)
    BY <1>2, <2>1 DEF Chan, Root
  <2>4. Elsewhere'
    BY <1>1, <1>2, <2>1, SameRanks DEF Messages, Elsewhere
  <2>5. chan' \in [Ranks \X Ranks -> Seq(Seq(Values))]
    BY <1>1, <2>1 DEF Typed
  <2> QED
    BY <1>1, <1>3, <2>1, <2>2, <2>3, <2>4, <2>5
<1>4. CASE i \in Awaited(a)
  <2>1. /\ glob' = [glob EXCEPT ![a][i] = Head(Channel(Root(i), Root(a)))[1]]
        /\ chan' = [chan EXCEPT ![<<Root(i), Root(a)>>] = Tail(@)]
        /\ Channel(Root(i), Root(a)) # <<>>
    BY <1>4 DEF Collect
  <2>2. i # a /\ Chan(i, a) # <<>>
    BY <1>4, <2>1 DEF Awaited, Chan, Channel
  <2>3. Up(i, a) /\ Chan(i, a) = << <<own[i]>> >>
    BY <1>1, <1>2, <2>2 DEF Messages, Channels, Down
  <2>4. pc[i] = "receive" /\ SyncRoot(i) = a /\ ~Sent(i)
    BY <2>3 DEF Up
  <2>5. Chan(a, i) = <<>>
    BY <1>1, <2>4, SentIs
  <2>6. WaitsFor(i, a)
    BY <1>1, <1>2, <2>4, <2>5, WaitsTogether
  <2>7. glob' = [glob EXCEPT ![a][i] = own[i]]
    <3>1. Channel(Root(i), Root(a)) = << <<own[i]>> >>
      BY <2>3 DEF Chan, Channel
    <3>2. Head(Channel(Root(i), Root(a)))[1] = own[i]
      BY <3>1
    <3> QED
      BY <2>1, <3>2
  <2>8. /\ glob' \in [Apps -> [Apps -> Values]] /\ glob'[a][i] = own[i]
        /\ \A b \in Apps : b # a => glob'[b] = glob[b]
        /\ \A m \in Apps : m # i => glob'[a][m] = glob[a][m]
    BY <1>1, <2>7
  <2>9. /\ chan' \in [Ranks \X Ranks -> Seq(Seq(Values))]
        /\ \A x, y \in Apps : Chan(x, y)' = IF x = i /\ y = a THEN Tail(Chan(i, a))
                                           ELSE Chan(x, y)
        /\ \A p \in Ranks \X Ranks : p # <<Root(i), Root(a)>> => chan'[p] = chan[p]
    BY <1>1, <1>2, <2>1, <2>2, TakeIs
  <2>10. Tail(Chan(i, a)) = <<>>
    BY <2>3
  <2>11. Elsewhere'
    BY <1>1, <1>2, <2>2, <2>9, ElsewhereKept DEF Messages
  <2> QED
    BY <1>1, <1>4, <2>2, <2>4, <2>6, <2>8, <2>9, <2>10, <2>11
<1> QED
  BY <1>3, <1>4

\* What the collecting member has of those it has gone through.
LEMMA CollectedIs ==
  ASSUME PleInv, NEW a \in Apps, NEW i, i = idx[a], Collect(a)
  PROVE  \A m \in Apps : m < i + 1 =>
           IF m \in Awaited(a) THEN WaitsFor(m, a) /\ glob'[a][m] = own[m]
           ELSE glob'[a][m] = IF m = a THEN own[a] ELSE status[a][m]
<1>1. pc[a] = "collect" /\ Messages
  BY DEF Collect, PleInv
<1>2. /\ i \in Apps
      /\ i \in Awaited(a) => WaitsFor(i, a)
      /\ \A m \in Apps : m # i => glob'[a][m] = glob[a][m]
      /\ glob'[a][i] = IF i \in Awaited(a) THEN own[i]
                       ELSE IF i = a THEN own[a] ELSE status[a][i]
  BY CollectsOne
<1> TAKE m \in Apps
<1>3. CASE m = i
  BY <1>2, <1>3
<1>4. CASE m # i
  <2>1. m < i + 1 => m < i
    BY <1>2, <1>4, LoopIs
  <2> QED
    BY <1>1, <1>2, <1>4, <2>1 DEF Messages, Collecting
<1> QED BY <1>3, <1>4

\* All members of the set of a that is collected wait in the same exchange.
LEMMA AllWait ==
  ASSUME PleInv, NEW a \in Apps, Collect(a), AtEnd(idx[a]), NEW m \in Synced(status[a])
  PROVE  /\ m \in Apps /\ status[m] = status[a] /\ SyncRoot(m) = a
         /\ m # a => WaitsFor(m, a)
         /\ Sent(m) = FALSE /\ Joined[m] = own[m] /\ Out[m] = None
<1> PICK i : i = idx[a]
  OBVIOUS
<1>1. /\ Messages /\ pc[a] = "collect" /\ i \in Apps /\ SyncRoot(a) = a
      /\ m \in Apps /\ i = N - 1
  BY DEF PleInv, Messages, Typed, TypeOK, Phases, Collect, AtEnd, Synced
<1>2. ASSUME m # a PROVE WaitsFor(m, a)
  <2>1. m \in Awaited(a) /\ m < i + 1
    BY <1>1, <1>2, AppsAre DEF Awaited
  <2> QED
    BY <1>1, <2>1, CollectedIs
<1>3. status[m] = status[a] /\ SyncRoot(m) = a
  BY <1>1, <1>2, WaiterRoot DEF WaitsFor
<1>4. pc[m] \in {"collect", "receive"}
  BY <1>1, <1>2 DEF WaitsFor
<1>5. Sent(m) = FALSE
  BY <1>1, <1>2, <1>3 DEF Sent, WaitsFor, Chan, Channel
<1> QED
  BY <1>1, <1>2, <1>3, <1>4, <1>5, OwedIs

\* The vector of an exchange that closes.
LEMMA VectorOf ==
  ASSUME PleInv, NEW a \in Apps, Collect(a), AtEnd(idx[a])
  PROVE  glob'[a] = Theory!Vector(Synced(status[a]), a)
<1> PICK i : i = idx[a]
  OBVIOUS
<1>1. /\ Messages /\ pc[a] = "collect" /\ i = N - 1 /\ a \in Synced(status[a])
      /\ SyncRoot(a) = a
  BY DEF PleInv, Messages, Phases, Collect, AtEnd
<1>2. glob' \in [Apps -> [Apps -> Values]]
  BY CollectsOne
<1>3. ASSUME NEW m \in Apps
      PROVE  glob'[a][m] = IF m \in Synced(status[a]) THEN Joined[m] ELSE status[a][m]
  <2>1. m < i + 1
    BY <1>1, AppsAre
  <2>2. IF m \in Awaited(a) THEN glob'[a][m] = own[m]
        ELSE glob'[a][m] = IF m = a THEN own[a] ELSE status[a][m]
    BY <2>1, CollectedIs
  <2>3. m \in Synced(status[a]) => Joined[m] = own[m]
    BY AllWait
  <2> QED
    BY <1>1, <2>2, <2>3 DEF Awaited
<1> QED
  BY <1>2, <1>3 DEF Theory!Vector

\* An application is collected from; once the last one is, the exchange closes.
LEMMA CollectStep ==
  ASSUME PleInv, NEW a \in Apps, Collect(a)
  PROVE  Messages' /\ (UNCHANGED <<status, Joined, Out>> \/ Theory!Close(Synced(status[a])))
<1>1. /\ own \in [Apps -> Values] /\ glob \in [Apps -> [Apps -> Values]]
      /\ status \in [Apps -> [Apps -> Values]]
      /\ idx \in [Apps -> Apps] /\ Messages /\ Typed
      /\ pc \in [Apps -> {"idle", "collect", "distribute", "send", "receive", "save"}]
  BY DEF PleInv, Messages, Typed, TypeOK
<1> PICK i \in Apps : i = idx[a]
  BY <1>1
<1>2. /\ setup' = setup /\ own' = own /\ status' = status
      /\ rounds' = rounds /\ pc[a] = "collect"
      /\ idx' = [idx EXCEPT ![a] = IF AtEnd(i) THEN 0 ELSE i + 1]
      /\ pc' = [pc EXCEPT ![a] = IF AtEnd(i) THEN "distribute" ELSE "collect"]
  BY DEF Collect
<1>3. /\ pc'[a] = IF AtEnd(i) THEN "distribute" ELSE "collect"
      /\ idx'[a] = IF AtEnd(i) THEN 0 ELSE i + 1
      /\ \A b \in Apps : b # a => pc'[b] = pc[b] /\ idx'[b] = idx[b]
  BY <1>1, <1>2
<1>4. SyncRoot(a) = a /\ a \in Synced(status[a])
  BY <1>1, <1>2 DEF Messages, Phases
<1>5. /\ i \in Awaited(a) => WaitsFor(i, a) /\ SyncRoot(i) = a /\ i # a
      /\ glob' \in [Apps -> [Apps -> Values]]
      /\ \A b \in Apps : b # a => glob'[b] = glob[b]
      /\ chan' \in [Ranks \X Ranks -> Seq(Seq(Values))]
      /\ \A x, y \in Apps : Chan(x, y)' = IF x = i /\ y = a /\ i \in Awaited(a)
                                         THEN <<>> ELSE Chan(x, y)
      /\ Elsewhere'
  <2>1. /\ i \in Awaited(a) => WaitsFor(i, a) /\ SyncRoot(i) = a /\ i # a
        /\ glob' \in [Apps -> [Apps -> Values]]
        /\ \A b \in Apps : b # a => glob'[b] = glob[b]
    BY CollectsOne
  <2>2. chan' \in [Ranks \X Ranks -> Seq(Seq(Values))] /\ Elsewhere'
    BY CollectsOne
  <2>3. \A x, y \in Apps : Chan(x, y)' = IF x = i /\ y = a /\ i \in Awaited(a)
                                         THEN <<>> ELSE Chan(x, y)
    BY CollectsOne
  <2> QED
    BY <2>1, <2>2, <2>3
<1>6. \A b \in Apps : SyncRoot(b)' = SyncRoot(b)
  BY <1>2 DEF SyncRoot, Synced
<1>7. ASSUME NEW b \in Apps, b # a, ~(AtEnd(i) /\ b \in Synced(status[a]))
      PROVE  Sent(b)' = Sent(b) /\ Joined'[b] = Joined[b] /\ Out'[b] = Out[b]
  <2> PICK q : q = SyncRoot(b)
    OBVIOUS
  <2>1. pc[b] = "receive" => q \in Apps
    BY <1>1, RootKnown
  <2>2. pc[b] = "receive" => Chan(q, b)' = Chan(q, b)
    BY <1>5, <1>7, <2>1
  <2>3. pc[b] = "receive" /\ Chan(q, b) = <<>>
          => (pc[q] = "distribute" /\ idx[q] <= b
              <=> pc'[q] = "distribute" /\ idx'[q] <= b)
    <3>1. CASE q # a
      BY <1>3, <2>1, <3>1
    <3>2. CASE q = a /\ pc[b] = "receive" /\ Chan(q, b) = <<>>
      <4>1. b \in Synced(status[a])
        BY <1>2, <3>2, WaitsTogether DEF Awaited
      <4> QED
        BY <1>2, <1>3, <1>7, <3>2, <4>1
    <3> QED BY <3>1, <3>2
  <2>4. pc[b] = "receive" /\ pc[q] = "distribute" => glob'[q] = glob[q]
    BY <1>2, <1>5, <2>1
  <2> QED
    BY <1>2, <1>3, <1>5, <1>7, <2>2, <2>3, <2>4, Unmoved
<1>8. ASSUME AtEnd(i), NEW b \in Apps, b \in Synced(status[a])
      PROVE  Sent(b)' = (b # a) /\ Joined'[b] = None /\ Out'[b] = glob'[a]
  <2>1. CASE b = a
    <3>1. pc'[b] = "distribute"
      BY <1>3, <1>8, <2>1
    <3>2. Sent(b)' = FALSE
      BY <3>1 DEF Sent
    <3>3. Joined'[b] = None /\ Out'[b] = glob'[b]
      BY <3>1, <3>2 DEF Joined, Out, Owed, Waiting
    <3> QED
      BY <2>1, <3>2, <3>3
  <2>2. CASE b # a
    <3>1. pc[b] = "receive" /\ Chan(a, b) = <<>> /\ SyncRoot(b) = a
      BY <1>8, <2>2, AllWait DEF WaitsFor
    <3>2. /\ pc'[b] = "receive" /\ Chan(a, b)' = <<>> /\ SyncRoot(b)' = a
          /\ pc'[a] = "distribute" /\ idx'[a] <= b
      BY <1>3, <1>5, <1>6, <1>8, <2>2, <3>1, AppsAre
    <3>3. Channel(Root(SyncRoot(b)), Root(b))' = <<>>
      BY <3>2 DEF Chan, Channel, Root
    <3>4. Sent(b)' = TRUE
      BY <3>2 DEF Sent
    <3>5. Joined'[b] = None /\ Out'[b] = glob'[a]
      BY <3>2, <3>3, <3>4 DEF Joined, Out, Owed, Waiting
    <3> QED
      BY <2>2, <3>4, <3>5
  <2> QED BY <2>1, <2>2
<1>9. ASSUME ~AtEnd(i), NEW b \in Apps
      PROVE  Sent(b)' = Sent(b) /\ Joined'[b] = Joined[b] /\ Out'[b] = Out[b]
  <2>1. CASE b = a
    <3>1. pc'[b] = "collect" /\ pc[b] = "collect"
      BY <1>2, <1>3, <1>9, <2>1
    <3>2. Sent(b) = FALSE /\ Sent(b)' = FALSE
      BY <3>1 DEF Sent
    <3>3. Joined[b] = own[b] /\ Out[b] = None /\ Joined'[b] = own'[b] /\ Out'[b] = None
      BY <3>1, <3>2 DEF Joined, Out, Owed, Waiting
    <3> QED
      BY <1>2, <3>2, <3>3
  <2>2. CASE b # a
    BY <1>7, <1>9, <2>2
  <2> QED BY <2>1, <2>2
<1>10. UNCHANGED <<status, Joined, Out>> \/ Theory!Close(Synced(status[a]))
  <2>1. CASE ~AtEnd(i)
    <3>1. Joined = [b \in Apps |-> Joined[b]] /\ Out = [b \in Apps |-> Out[b]]
      BY DEF Joined, Out
    <3>2. DOMAIN Joined' = Apps /\ Joined' = [b \in DOMAIN Joined' |-> Joined'[b]]
      BY DEF Joined
    <3>3. DOMAIN Out' = Apps /\ Out' = [b \in DOMAIN Out' |-> Out'[b]]
      BY DEF Out
    <3>4. \A b \in Apps : Joined'[b] = Joined[b] /\ Out'[b] = Out[b]
      BY <1>9, <2>1
    <3> QED
      BY <1>2, <3>1, <3>2, <3>3, <3>4
  <2>2. CASE AtEnd(i)
    <3> PICK S : S = Synced(status[a])
      OBVIOUS
    <3>1. S # {} /\ a \in S /\ S \in SUBSET Apps
      BY <1>4 DEF Synced
    <3>2. \A m \in S : Joined[m] # None /\ Theory!Active(status[m]) = S
      <4> TAKE m \in S
      <4>1. m \in Apps /\ status[m] = status[a] /\ Joined[m] = own[m]
        BY <2>2, AllWait
      <4> QED
        BY <1>1, <4>1, NoneIsNoValue, SyncedIs
    <3>3. Out' = [b \in Apps |-> IF b \in S THEN Theory!Vector(S, a) ELSE Out[b]]
      <4>1. glob'[a] = Theory!Vector(S, a)
        BY <2>2, VectorOf
      <4>2. ASSUME NEW b \in Apps
            PROVE  Out'[b] = IF b \in S THEN glob'[a] ELSE Out[b]
        BY <1>7, <1>8, <2>2, <3>1
      <4>3. DOMAIN Out' = Apps /\ Out' = [b \in DOMAIN Out' |-> Out'[b]]
        BY DEF Out
      <4> QED
        BY <4>1, <4>2, <4>3
    <3>4. Joined' = [b \in Apps |-> IF b \in S THEN None ELSE Joined[b]]
      <4>1. ASSUME NEW b \in Apps
            PROVE  Joined'[b] = IF b \in S THEN None ELSE Joined[b]
        BY <1>7, <1>8, <2>2, <3>1
      <4>2. DOMAIN Joined' = Apps /\ Joined' = [b \in DOMAIN Joined' |-> Joined'[b]]
        BY DEF Joined
      <4> QED
        BY <4>1, <4>2
    <3>5. Theory!Close(S)
      BY <1>2, <3>1, <3>2, <3>3, <3>4 DEF Theory!Close
    <3> QED
      BY <3>5
  <2> QED BY <2>1, <2>2
<1>11. Typed'
  <2>1. idx' \in [Apps -> Apps]
    BY <1>1, <1>2, LoopIs, AppsAre
  <2> QED
    BY <1>1, <1>2, <1>5, <2>1, SameRanks DEF Messages, Typed, TypeOK
<1>12. Phases'
  <2>1. \A b \in Apps : b # a => pc'[b] = pc[b]
    BY <1>3
  <2>2. pc'[a] \in {"collect", "distribute"}
    BY <1>3
  <2> QED
    BY <1>1, <1>2, <1>4, <1>6, <2>1, <2>2 DEF Messages, Phases, Synced
<1>13. ASSUME AtEnd(i), NEW m \in Apps
       PROVE  glob'[a][m] = IF m \in Synced(status[a]) THEN own[m] ELSE status[a][m]
  <2>1. glob'[a] = Theory!Vector(Synced(status[a]), a)
    BY <1>13, VectorOf
  <2>2. m \in Synced(status[a]) => Joined[m] = own[m]
    BY <1>13, AllWait
  <2> QED
    BY <2>1, <2>2 DEF Theory!Vector
<1>14. Leaving'
  <2>1. \A b \in Apps : b # a => pc'[b] = pc[b] /\ glob'[b] = glob[b]
    BY <1>3, <1>5
  <2>2. ASSUME AtEnd(i), NEW m \in Apps, Leaves(glob'[a][m]) PROVE m \in setup.leavers
    <3>1. CASE m \in Synced(status[a])
      <4>1. pc[m] # "idle"
        BY <1>2, <2>2, <3>1, AllWait DEF WaitsFor
      <4>2. Leaves(own[m])
        BY <1>13, <2>2, <3>1
      <4> QED
        BY <1>1, <4>1, <4>2 DEF Messages, Leaving
    <3>2. CASE m \notin Synced(status[a])
      <4>1. Leaves(status[a][m])
        BY <1>13, <2>2, <3>2
      <4> QED
        BY <1>1, <4>1 DEF Messages, Leaving, Stays
    <3> QED BY <3>1, <3>2
  <2>3. pc'[a] \in {"distribute", "save"} => AtEnd(i)
    BY <1>3
  <2> QED
    BY <1>1, <1>2, <2>1, <2>2, <2>3 DEF Messages, Leaving, Stays
<1>15. ASSUME NEW x \in Apps, NEW y \in Apps, ~(x = i /\ y = a)
       PROVE  Up(x, y)' <=> Up(x, y)
  <2>1. pc'[x] = "receive" <=> pc[x] = "receive"
    BY <1>2, <1>3
  <2> SUFFICES ASSUME pc[x] = "receive", SyncRoot(x) = y
               PROVE  ~Sent(x)' /\ ~(pc'[y] = "collect" /\ idx'[y] > x)
                      <=> ~Sent(x) /\ ~(pc[y] = "collect" /\ idx[y] > x)
    BY <1>6, <2>1 DEF Up
  <2>2. x # a
    BY <1>2
  <2>3. CASE ~(AtEnd(i) /\ x \in Synced(status[a]))
    <3>1. Sent(x)' = Sent(x)
      BY <1>7, <2>2, <2>3
    <3>2. CASE y # a
      BY <1>3, <3>1, <3>2
    <3>3. CASE y = a /\ ~AtEnd(i)
      <4>1. i + 1 > x <=> i > x
        BY <1>15, <3>3, LoopIs, AppsAre
      <4> QED
        BY <1>2, <1>3, <3>1, <3>3, <4>1
    <3>4. CASE y = a /\ AtEnd(i)
      <4>1. i > x
        BY <1>15, <3>4, AppsAre DEF AtEnd
      <4>2. Sent(x)
        <5>1. x \notin Awaited(a)
          BY <2>3, <3>4 DEF Awaited
        <5>2. Chan(a, x) # <<>>
          BY <1>2, <3>4, <5>1, WaitsTogether
        <5> QED
          BY <3>4, <5>2, SentIs
      <4> QED
        BY <3>1, <4>2
    <3> QED BY <3>2, <3>3, <3>4
  <2>4. CASE AtEnd(i) /\ x \in Synced(status[a])
    <3>1. y = a /\ Sent(x)' = TRUE
      BY <1>8, <2>2, <2>4, AllWait
    <3>2. i > x
      BY <1>15, <2>4, <3>1, AppsAre DEF AtEnd
    <3> QED
      BY <1>2, <3>1, <3>2
  <2> QED BY <2>3, <2>4
<1>16. ASSUME i # a PROVE ~Up(i, a)' /\ (i \notin Awaited(a) => ~Up(i, a))
  <2>1. ASSUME i \notin Awaited(a) PROVE ~Up(i, a)
    <3>1. ASSUME pc[i] = "receive", SyncRoot(i) = a PROVE Sent(i)
      BY <1>2, <2>1, <3>1, SentIs, WaitsTogether
    <3> QED
      BY <3>1 DEF Up
  <2>2. CASE ~AtEnd(i)
    <3>1. pc'[a] = "collect" /\ idx'[a] > i
      BY <1>3, <2>2, AppsAre
    <3> QED
      BY <2>1, <3>1 DEF Up
  <2>3. CASE AtEnd(i) /\ i \in Synced(status[a])
    <3>1. Sent(i)' = TRUE
      BY <1>8, <1>16, <2>3
    <3> QED
      BY <2>1, <3>1 DEF Up
  <2>4. CASE i \notin Synced(status[a])
    <3>1. Sent(i)' = Sent(i)
      BY <1>7, <1>16, <2>4
    <3>2. i \notin Awaited(a)
      BY <2>4 DEF Awaited
    <3>3. ASSUME pc[i] = "receive", SyncRoot(i) = a PROVE Sent(i)
      BY <1>2, <3>2, <3>3, SentIs, WaitsTogether
    <3>4. pc'[i] = pc[i] /\ SyncRoot(i)' = SyncRoot(i)
      BY <1>3, <1>6, <1>16
    <3> QED
      BY <2>1, <3>1, <3>2, <3>3, <3>4 DEF Up
  <2> QED BY <2>2, <2>3, <2>4
<1>17. Channels'
  <2> SUFFICES ASSUME NEW x \in Apps, NEW y \in Apps, x # y
               PROVE  \/ Up(x, y)' /\ Chan(x, y)' = << <<own[x]>> >>
                      \/ ~Up(x, y)' /\ Chan(x, y)' = <<>>
                      \/ Down(x, y)'
    BY <1>2 DEF Channels
  <2>1. CASE x = i /\ y = a
    <3>1. ~Up(x, y)' /\ ~Down(x, y)
      BY <1>2, <1>16, <2>1 DEF Down
    <3>2. Chan(x, y)' = <<>>
      BY <1>1, <1>5, <1>16, <2>1, <3>1 DEF Messages, Channels
    <3> QED
      BY <3>1, <3>2
  <2>2. CASE ~(x = i /\ y = a)
    <3>1. Chan(x, y)' = Chan(x, y) /\ (Up(x, y)' <=> Up(x, y))
      BY <1>5, <1>15, <2>2
    <3>2. pc'[y] = "receive" <=> pc[y] = "receive"
      BY <1>2, <1>3
    <3>3. Down(x, y)' <=> Down(x, y)
      BY <1>2, <1>6, <3>1, <3>2 DEF Down, Vectors, Stays
    <3> QED
      BY <1>1, <3>1, <3>3 DEF Messages, Channels
  <2> QED BY <2>1, <2>2
<1>18. ASSUME NEW c \in Apps, NEW m \in Apps, WaitsFor(m, c)
       PROVE  WaitsFor(m, c)'
  <2>1. m # a
    BY <1>2, <1>18 DEF WaitsFor
  <2> QED
    BY <1>2, <1>3, <1>5, <1>18, <2>1 DEF WaitsFor
<1>19. Collecting'
  <2> SUFFICES ASSUME NEW c \in Apps, pc'[c] = "collect", NEW m \in Apps, m < idx'[c]
               PROVE  IF m \in Awaited(c) THEN WaitsFor(m, c)' /\ glob'[c][m] = own[m]
                      ELSE glob'[c][m] = IF m = c THEN own[c] ELSE status[c][m]
    BY <1>2 DEF Collecting, Awaited, Synced
  <2>1. CASE c = a
    <3>1. m < i + 1
      BY <1>3, <2>1
    <3> QED
      BY <1>18, <2>1, <3>1, CollectedIs
  <2>2. CASE c # a
    <3>1. pc[c] = "collect" /\ m < idx[c] /\ glob'[c] = glob[c]
      BY <1>3, <1>5, <2>2
    <3> QED
      BY <1>1, <1>18, <3>1 DEF Messages, Collecting
  <2> QED BY <2>1, <2>2
<1>20. Distributing'
  <2> SUFFICES ASSUME NEW c \in Apps, pc'[c] = "distribute"
               PROVE  /\ \A m \in Apps \ Synced(status[c]) : glob'[c][m] = status[c][m]
                      /\ \A m \in Addressed(c) : m >= idx'[c] => WaitsFor(m, c)'
                      /\ \A m \in Apps : pc'[m] = "receive" /\ SyncRoot(m)' = c
                           /\ Chan(c, m)' = <<>> /\ m >= idx'[c] => m \in Addressed(c)
    BY <1>2 DEF Distributing, Addressed, Synced
  <2>1. CASE c = a
    <3>1. AtEnd(i)
      BY <1>3, <2>1
    <3>2. \A m \in Apps \ Synced(status[c]) : glob'[c][m] = status[c][m]
      BY <1>13, <2>1, <3>1
    <3>3. ASSUME NEW m \in Addressed(c) PROVE WaitsFor(m, c)'
      <4>1. m \in Synced(status[a]) /\ m # a /\ m \in Apps
        BY <2>1 DEF Addressed, Synced
      <4>2. WaitsFor(m, a)
        BY <3>1, <4>1, AllWait
      <4> QED
        BY <1>18, <2>1, <4>1, <4>2
    <3>4. ASSUME NEW m \in Apps, pc'[m] = "receive", SyncRoot(m)' = c, Chan(c, m)' = <<>>
          PROVE  m \in Addressed(c)
      <4>1. m # a
        BY <1>3, <3>4
      <4>2. pc[m] = "receive" /\ SyncRoot(m) = a /\ Chan(a, m) = <<>>
        BY <1>3, <1>5, <1>6, <2>1, <3>4, <4>1
      <4> QED
        BY <1>2, <2>1, <4>2, WaitsTogether DEF Awaited, Addressed
    <3> QED
      BY <3>2, <3>3, <3>4
  <2>2. CASE c # a
    <3>1. pc[c] = "distribute" /\ idx'[c] = idx[c] /\ glob'[c] = glob[c]
      BY <1>3, <1>5, <2>2
    <3>2. ASSUME NEW m \in Addressed(c), m >= idx[c] PROVE WaitsFor(m, c)'
      <4>1. m \in Apps /\ WaitsFor(m, c)
        BY <1>1, <3>1, <3>2 DEF Messages, Distributing, Addressed, Synced
      <4> QED
        BY <1>18, <4>1
    <3>3. ASSUME NEW m \in Apps, pc'[m] = "receive", SyncRoot(m)' = c,
                 Chan(c, m)' = <<>>, m >= idx[c]
          PROVE  m \in Addressed(c)
      <4>1. m # a
        BY <1>3, <3>3
      <4>2. pc[m] = "receive" /\ SyncRoot(m) = c /\ Chan(c, m) = <<>>
        BY <1>3, <1>5, <1>6, <3>3, <4>1
      <4> QED
        BY <1>1, <3>1, <3>3, <4>2 DEF Messages, Distributing
    <3> QED
      BY <1>1, <3>1, <3>2, <3>3 DEF Messages, Distributing
  <2> QED BY <2>1, <2>2
<1> QED
  BY <1>5, <1>10, <1>11, <1>12, <1>14, <1>17, <1>19, <1>20 DEF Messages

-------------------------------------------------------------------------------
\* A call begins: the member joins the exchange, or returns.
LEMMA SynchronizeStep ==
  ASSUME PleInv, NEW a \in Apps, Synchronize(a)
  PROVE  Messages' /\ \E v \in [flags : Flags, ts : TimeSteps] : Theory!Join(a, v)
<1> PICK M : M = Mark(status[a])
  OBVIOUS
<1>1. /\ own \in [Apps -> Values] /\ glob \in [Apps -> [Apps -> Values]]
      /\ status \in [Apps -> [Apps -> Values]] /\ rounds \in [Apps -> 0 .. MaxRounds]
      /\ idx \in [Apps -> Apps] /\ Messages /\ Typed
      /\ pc \in [Apps -> {"idle", "collect", "distribute", "send", "receive", "save"}]
  BY DEF PleInv, Messages, Typed, TypeOK
<1>2. /\ setup' = setup /\ glob' = glob /\ chan' = chan /\ pc[a] = "idle"
      /\ rounds[a] < MaxRounds /\ rounds' = [rounds EXCEPT ![a] = @ + 1]
      /\ status' = [status EXCEPT ![a] = M]
  BY DEF Synchronize
<1>3. /\ M \in [Apps -> Values] /\ M = Theory!Mark(status[a]) /\ Stays(M)
      /\ Synced(M) = Theory!Active(M)
  <2>1. Stays(status[a])
    BY <1>1 DEF Messages, Leaving
  <2> QED
    BY <1>1, <2>1, MarkIs, SyncedIs
<1>4. PICK v \in [flags : Flags, ts : TimeSteps] :
        IF a \in Synced(M)
        THEN /\ own' = [own EXCEPT ![a] = v] /\ idx' = [idx EXCEPT ![a] = 0]
             /\ pc' = [pc EXCEPT ![a] = IF First(Synced(M)) = a THEN "collect" ELSE "send"]
             /\ Leaves(v) => a \in setup.leavers
        ELSE UNCHANGED <<own, pc, idx>>
  <2>1. CASE a \in Synced(M)
    <3>1. PICK f \in Flags, t \in TimeSteps :
            /\ f \cap LastSync # {} => a \in setup.leavers
            /\ own' = [own EXCEPT ![a] = [flags |-> f, ts |-> t]]
      BY <2>1 DEF Synchronize
    <3>2. /\ idx' = [idx EXCEPT ![a] = 0]
          /\ pc' = [pc EXCEPT ![a] = IF First(Synced(M)) = a THEN "collect" ELSE "send"]
      BY <2>1 DEF Synchronize
    <3>3. Leaves([flags |-> f, ts |-> t]) <=> f \cap LastSync # {}
      BY DEF Leaves
    <3> WITNESS [flags |-> f, ts |-> t] \in [flags : Flags, ts : TimeSteps]
    <3> QED
      BY <2>1, <3>1, <3>2, <3>3
  <2>2. CASE a \notin Synced(M)
    <3>1. UNCHANGED <<own, pc, idx>>
      BY <2>2 DEF Synchronize
    <3>2. [flags : Flags, ts : TimeSteps] # {}
      <4>1. PICK f \in Flags, t \in TimeSteps : TRUE
        BY OfferAssumption
      <4>2. [flags |-> f, ts |-> t] \in [flags : Flags, ts : TimeSteps]
        OBVIOUS
      <4> QED BY <4>2
    <3> QED
      BY <2>2, <3>1, <3>2
  <2> QED BY <2>1, <2>2
<1>5. /\ status'[a] = M /\ \A b \in Apps : b # a => status'[b] = status[b]
      /\ pc'[a] = IF a \in Synced(M)
                  THEN IF First(Synced(M)) = a THEN "collect" ELSE "send" ELSE "idle"
      /\ a \in Synced(M) => own'[a] = v /\ idx'[a] = 0
      /\ \A b \in Apps : b # a => pc'[b] = pc[b] /\ idx'[b] = idx[b] /\ own'[b] = own[b]
  BY <1>1, <1>2, <1>4
<1>6. \A x, y : Chan(x, y)' = Chan(x, y)
  BY <1>2 DEF Chan, Root
<1>7. ASSUME NEW b \in Apps, b # a
      PROVE  /\ SyncRoot(b)' = SyncRoot(b) /\ Sent(b)' = Sent(b)
             /\ Joined'[b] = Joined[b] /\ Out'[b] = Out[b]
  <2> PICK q : q = SyncRoot(b)
    OBVIOUS
  <2>1. pc[b] = "receive" => q \in Apps
    BY <1>1, RootKnown
  <2>2. pc[b] = "receive" => (pc[q] = "distribute" /\ idx[q] <= b
                              <=> pc'[q] = "distribute" /\ idx'[q] <= b)
    BY <1>2, <1>5, <2>1
  <2> QED
    BY <1>2, <1>5, <1>6, <1>7, <2>2, Unmoved
<1>8. SyncRoot(a)' = First(Synced(M))
  BY <1>5 DEF SyncRoot, Synced
<1>9. Theory!Join(a, v)
  <2>1. Joined[a] = None /\ Out[a] = None
    BY <1>2, OwedIs DEF Sent
  <2>2. pc'[a] # "receive" /\ pc'[a] \notin {"distribute", "save"}
    BY <1>5
  <2>3. Sent(a)' = FALSE
    BY <2>2 DEF Sent
  <2>4. Out'[a] = None /\ Joined'[a] = IF a \in Synced(M) THEN v ELSE None
    BY <1>5, <2>2, <2>3 DEF Joined, Out, Owed, Waiting
  <2>5. Out' = Out /\ Joined' = [Joined EXCEPT ![a] = IF a \in Synced(M) THEN v ELSE None]
    <3>1. Out = [b \in Apps |-> Out[b]]
      BY DEF Out
    <3> QED
      BY <1>7, <2>1, <2>4, <3>1, JoinedOf, OutOf
  <2>6. Joined = [Joined EXCEPT ![a] = None]
    <3>1. Joined = [b \in Apps |-> Joined[b]]
      BY DEF Joined
    <3> QED
      BY <2>1, <3>1
  <2> QED
    BY <1>2, <1>3, <2>1, <2>5, <2>6 DEF Theory!Join
<1>10. Typed'
  <2>1. v \in Values
    BY OfferAssumption DEF Values
  <2>2. own' \in [Apps -> Values] /\ idx' \in [Apps -> Apps]
        /\ pc' \in [Apps -> {"idle", "collect", "distribute", "send", "receive", "save"}]
    BY <1>1, <1>4, <2>1, AppsAre
  <2>3. rounds' \in [Apps -> 0 .. MaxRounds]
    BY <1>1, <1>2, SizeAssumption
  <2>4. status' \in [Apps -> [Apps -> Values]]
    BY <1>1, <1>2, <1>3
  <2> QED
    BY <1>1, <1>2, <2>2, <2>3, <2>4, SameRanks DEF Messages, Typed, TypeOK
<1>11. Phases'
  <2>1. ASSUME NEW b \in Apps, b # a
        PROVE  /\ pc'[b] # "idle" => b \in Synced(status'[b])
               /\ pc'[b] \in {"collect", "distribute"} => SyncRoot(b)' = b
               /\ pc'[b] \in {"send", "receive"} => SyncRoot(b)' # b
    BY <1>1, <1>5, <1>7, <2>1 DEF Messages, Phases, Synced
  <2>2. ASSUME NEW b \in Apps, b = a
        PROVE  /\ pc'[b] # "idle" => b \in Synced(status'[b])
               /\ pc'[b] \in {"collect", "distribute"} => SyncRoot(b)' = b
               /\ pc'[b] \in {"send", "receive"} => SyncRoot(b)' # b
    BY <1>5, <1>8, <2>2
  <2>3. \A b \in Apps : Synced(status[b])' = Synced(status'[b])
    BY DEF Synced
  <2> QED
    BY <2>1, <2>2, <2>3 DEF Phases
<1>12. Leaving'
  <2>1. pc'[a] # "idle" => a \in Synced(M)
    BY <1>5
  <2>2. pc'[a] # "idle" /\ Leaves(own'[a]) => a \in setup.leavers
    BY <1>4, <1>5, <2>1
  <2>3. pc'[a] \notin {"distribute", "save"}
    BY <1>5
  <2> QED
    BY <1>1, <1>2, <1>3, <1>5, <2>2, <2>3 DEF Messages, Leaving, Stays
<1>13. Channels'
  <2> SUFFICES ASSUME NEW x \in Apps, NEW y \in Apps, x # y
               PROVE  \/ Up(x, y)' /\ Chan(x, y)' = << <<own'[x]>> >>
                      \/ ~Up(x, y)' /\ Chan(x, y)' = <<>>
                      \/ Down(x, y)'
    BY <1>2 DEF Channels
  <2>1. pc'[a] # "receive" /\ pc[a] # "receive"
    BY <1>2, <1>5
  <2>2. pc'[y] = "collect" /\ idx'[y] > x <=> pc[y] = "collect" /\ idx[y] > x
    BY <1>2, <1>5, AppsAre
  <2>3. (Up(x, y)' <=> Up(x, y)) /\ (Up(x, y) => own'[x] = own[x])
    <3>1. CASE x = a
      BY <2>1, <3>1 DEF Up
    <3>2. CASE x # a
      BY <1>5, <1>7, <2>2, <3>2 DEF Up
    <3> QED BY <3>1, <3>2
  <2>4. Down(x, y)' <=> Down(x, y)
    <3>1. CASE y = a
      BY <2>1, <3>1 DEF Down
    <3>2. CASE y # a
      BY <1>2, <1>5, <1>6, <1>7, <3>2 DEF Down, Vectors, Stays
    <3> QED BY <3>1, <3>2
  <2> QED
    BY <1>1, <1>6, <2>3, <2>4 DEF Messages, Channels
<1>14. Elsewhere'
  BY <1>1, <1>2, SameRanks DEF Messages, Elsewhere
<1>15. ASSUME NEW c \in Apps, c # a, NEW m \in Apps, WaitsFor(m, c)
       PROVE  WaitsFor(m, c)' /\ own'[m] = own[m]
  BY <1>2, <1>5, <1>6, <1>15 DEF WaitsFor
<1>16. Collecting'
  <2> SUFFICES ASSUME NEW c \in Apps, pc'[c] = "collect", NEW m \in Apps, m < idx'[c]
               PROVE  IF m \in Awaited(c)' THEN WaitsFor(m, c)' /\ glob[c][m] = own'[m]
                      ELSE glob[c][m] = IF m = c THEN own'[c] ELSE status'[c][m]
    BY <1>2 DEF Collecting
  <2>1. c # a
    BY <1>2, <1>5, AppsAre
  <2>2. /\ pc[c] = "collect" /\ m < idx[c] /\ own'[c] = own[c] /\ status'[c] = status[c]
        /\ Awaited(c)' = Awaited(c)
    BY <1>5, <2>1 DEF Awaited, Synced
  <2> QED
    BY <1>1, <1>15, <2>1, <2>2 DEF Messages, Collecting
<1>17. Distributing'
  <2> SUFFICES ASSUME NEW c \in Apps, pc'[c] = "distribute"
               PROVE  /\ \A m \in Apps \ Synced(status[c])' : glob[c][m] = status'[c][m]
                      /\ \A m \in Addressed(c)' : m >= idx'[c] => WaitsFor(m, c)'
                      /\ \A m \in Apps : pc'[m] = "receive" /\ SyncRoot(m)' = c
                           /\ Chan(c, m)' = <<>> /\ m >= idx'[c] => m \in Addressed(c)'
    BY <1>2 DEF Distributing
  <2>1. c # a
    BY <1>5
  <2>2. /\ pc[c] = "distribute" /\ idx'[c] = idx[c] /\ status'[c] = status[c]
        /\ Addressed(c)' = Addressed(c) /\ Synced(status[c])' = Synced(status[c])
    BY <1>5, <2>1 DEF Addressed, Synced
  <2>3. ASSUME NEW m \in Addressed(c), m >= idx[c] PROVE WaitsFor(m, c)'
    <3>1. m \in Apps /\ WaitsFor(m, c)
      BY <1>1, <2>2, <2>3 DEF Messages, Distributing, Addressed, Synced
    <3> QED
      BY <1>15, <2>1, <3>1
  <2>4. ASSUME NEW m \in Apps, pc'[m] = "receive", SyncRoot(m)' = c,
               Chan(c, m)' = <<>>, m >= idx[c]
        PROVE  m \in Addressed(c)
    <3>1. m # a
      BY <1>5, <2>4
    <3>2. pc[m] = "receive" /\ SyncRoot(m) = c /\ Chan(c, m) = <<>>
      BY <1>5, <1>6, <1>7, <2>4, <3>1
    <3> QED
      BY <1>1, <2>2, <2>4, <3>2 DEF Messages, Distributing
  <2> QED
    BY <1>1, <2>2, <2>3, <2>4 DEF Messages, Distributing
<1> QED
  BY <1>9, <1>10, <1>11, <1>12, <1>13, <1>14, <1>16, <1>17 DEF Messages

-------------------------------------------------------------------------------
\* The set is created: no call has begun.
LEMMA FirstState == Init => Messages /\ Theory!GroupInit
<1> SUFFICES ASSUME Init PROVE Messages /\ Theory!GroupInit
  OBVIOUS
<1>1. /\ setup \in Setups /\ pc = [a \in Apps |-> "idle"] /\ own = [a \in Apps |-> Blank]
      /\ idx = [a \in Apps |-> 0] /\ glob = [a \in Apps |-> [b \in Apps |-> Blank]]
      /\ chan = [p \in Ranks \X Ranks |-> <<>>] /\ rounds = [a \in Apps |-> 0]
  BY DEF Init
<1>2. PICK U \in SUBSET setup.leavers :
        status = [a \in Apps |-> [b \in Apps |->
                   IF b \in U THEN Unsynced(Created) ELSE Created]]
  BY DEF Init
<1>3. PICK s : s = [b \in Apps |-> IF b \in U THEN Unsynced(Created) ELSE Created]
  OBVIOUS
<1>4. Created \in Values /\ Unsynced(Created) \in Values /\ Blank \in Values
  BY DEF Created, Unsynced, Blank, Values, FlagNames
<1>5. ~Leaves(Created) /\ \A b \in Apps : s[b] = Created \/ b \in U
  BY <1>3 DEF Leaves, Created, LastSync
<1>6. status = [a \in Apps |-> s] /\ s \in [Apps -> {Created, Unsynced(Created)}]
  BY <1>2, <1>3
<1>7. \A a \in Apps : pc[a] = "idle" /\ status[a] = s
  BY <1>1, <1>6
<1>8. Typed
  <2>1. status \in [Apps -> [Apps -> Values]]
    BY <1>4, <1>6
  <2>2. rounds \in [Apps -> 0 .. MaxRounds] /\ idx \in [Apps -> Apps]
    BY <1>1, AppsAre, SizeAssumption
  <2> QED
    BY <1>1, <1>4, <2>1, <2>2 DEF Typed, TypeOK
<1>9. Phases
  BY <1>7 DEF Phases
<1>10. Leaving
  BY <1>2, <1>5, <1>7 DEF Leaving, Stays
<1>11. \A x, y \in Apps : Chan(x, y) = <<>>
  BY <1>1, RootsAre DEF Chan
<1>12. Channels
  BY <1>7, <1>11 DEF Channels, Up
<1>13. Elsewhere
  BY <1>1 DEF Elsewhere
<1>14. Collecting /\ Distributing
  BY <1>7 DEF Collecting, Distributing
<1>15. Theory!GroupInit
  <2>1. \A a \in Apps : Joined[a] = None /\ Out[a] = None
    BY <1>7, OwedIs DEF Sent
  <2>2. Joined = [a \in Apps |-> Joined[a]] /\ Out = [a \in Apps |-> Out[a]]
    BY DEF Joined, Out
  <2>3. Joined = [a \in Apps |-> None] /\ Out = [a \in Apps |-> None]
    BY <2>1, <2>2
  <2> QED
    BY <1>6, <2>3 DEF Theory!GroupInit
<1> QED
  BY <1>8, <1>9, <1>10, <1>12, <1>13, <1>14, <1>15 DEF Messages

\* Each step is one of the exchange, or none.
LEMMA PleStep ==
  ASSUME PleInv, WellRooted(setup), [Next]_vars
  PROVE  PleInv' /\ [Theory!GroupNext]_(Theory!groupVars)
<1>1. ASSUME NEW a \in Apps, Step(a)
      PROVE  Messages' /\ [Theory!GroupNext]_(Theory!groupVars)
  <2>1. CASE Synchronize(a)
    BY <2>1, SynchronizeStep DEF Theory!GroupNext
  <2>2. CASE Collect(a)
    <3>1. Synced(status[a]) \in SUBSET Apps
      BY DEF Synced
    <3> QED
      BY <2>2, <3>1, CollectStep DEF Theory!GroupNext, Theory!groupVars
  <2>3. CASE Distribute(a)
    BY <2>3, DistributeStep DEF Theory!groupVars
  <2>4. CASE Send(a)
    BY <2>4, SendStep DEF Theory!groupVars
  <2>5. CASE Receive(a)
    BY <2>5, ReceiveStep DEF Theory!groupVars
  <2>6. CASE Save(a)
    BY <2>6, SaveStep DEF Theory!GroupNext
  <2> QED
    BY <1>1, <2>1, <2>2, <2>3, <2>4, <2>5, <2>6 DEF Step
<1>2. ASSUME UNCHANGED vars
      PROVE  Messages' /\ UNCHANGED <<status, Joined, Out>>
  <2>1. /\ setup' = setup /\ status' = status /\ pc' = pc /\ own' = own /\ idx' = idx
        /\ glob' = glob /\ chan' = chan /\ rounds' = rounds
    BY <1>2 DEF vars
  <2>2. \A a : Sent(a)' = Sent(a)
    BY <2>1 DEF Sent, SyncRoot, Synced, Channel, Root
  <2>3. Joined' = Joined
    BY <2>1, <2>2 DEF Joined, Waiting
  <2>4. Out' = Out
    BY <2>1 DEF Out, Owed, Sent, SyncRoot, Synced, Channel, Root
  <2>5. Messages'
    <3>1. Messages
      BY DEF PleInv
    <3>2. Typed' /\ Elsewhere'
      BY <2>1, <3>1, SameRanks DEF Messages, Typed, TypeOK, Elsewhere
    <3>3. Phases'
      BY <2>1, <3>1 DEF Messages, Phases, SyncRoot, Synced
    <3>4. Leaving'
      BY <2>1, <3>1 DEF Messages, Leaving, Stays
    <3>5. \A x, y : /\ Up(x, y)' <=> Up(x, y)
                    /\ Down(x, y)' <=> Down(x, y)
                    /\ Chan(x, y)' = Chan(x, y)
      BY <2>1, <2>2 DEF Up, Down, Vectors, Stays, Chan, Root, SyncRoot, Synced
    <3>6. Channels'
      BY <2>1, <3>1, <3>5 DEF Messages, Channels
    <3>7. Collecting' /\ Distributing'
      BY <2>1, <3>1 DEF Messages, Collecting, Distributing, WaitsFor, Awaited, Addressed,
                        Chan, Root, SyncRoot, Synced
    <3> QED
      BY <3>2, <3>3, <3>4, <3>6, <3>7 DEF Messages
  <2> QED
    BY <2>1, <2>3, <2>4, <2>5
<1>3. Messages' /\ [Theory!GroupNext]_(Theory!groupVars)
  BY <1>1, <1>2 DEF Next, Theory!groupVars
<1>4. Theory!GroupInv'
  BY <1>3, TheoryStep DEF PleInv
<1> QED
  BY <1>3, <1>4 DEF PleInv

LEMMA PleInvariant ==
  ASSUME \A s \in Setups : WellRooted(s)
  PROVE  Spec => []PleInv
<1>1. Init => PleInv
  BY FirstState, TheoryInit DEF PleInv
<1>2. PleInv /\ [Next]_vars => PleInv'
  <2>1. PleInv => WellRooted(setup)
    BY DEF PleInv, Messages, Typed, TypeOK
  <2> QED
    BY <2>1, PleStep
<1> QED
  BY <1>1, <1>2, PTL DEF Spec

\* Each variable keeps its type (ple_coupling_mpi_set_synchronize): what members receive
\* is a value or a whole vector, and indexes stay in the set.
THEOREM CouplingTyped ==
  ASSUME \A s \in Setups : WellRooted(s)
  PROVE  Spec => []TypeOK
<1>1. PleInv => TypeOK
  BY DEF PleInv, Messages, Typed
<1> QED
  BY <1>1, PleInvariant, PTL

\* When no member is in ple_coupling_mpi_set_synchronize, no message of theirs is left in
\* the network, whatever the order in which they called and were answered.
THEOREM CouplingEmpties ==
  ASSUME \A s \in Setups : WellRooted(s)
  PROVE  Spec => []NothingLeft
<1>1. PleInv => NothingLeft
  <2> SUFFICES ASSUME PleInv, \A a \in Apps : pc[a] = "idle", NEW p \in DOMAIN chan
               PROVE  chan[p] = <<>>
    BY DEF NothingLeft
  <2>1. p \in Ranks \X Ranks
    BY DEF PleInv, Messages, Typed
  <2>2. ASSUME NEW x \in Apps, NEW y \in Apps, x # y PROVE Chan(x, y) = <<>>
    BY <2>2 DEF PleInv, Messages, Channels, Up, Down
  <2> QED
    BY <2>1, <2>2 DEF PleInv, Messages, Elsewhere, Chan
<1> QED
  BY <1>1, PleInvariant, PTL

\* The messages of ple_coupling_mpi_set_synchronize make the atomic exchange of GroupSync:
\* an exchange closes when the collecting member has the last value, and every member of
\* it reads the same vector.
THEOREM CouplingRefinesExchange ==
  ASSUME \A s \in Setups : WellRooted(s)
  PROVE  Spec => RefinesGroupSync
<1>1. Init => Theory!GroupInit
  BY FirstState
<1>2. PleInv /\ [Next]_vars => [Theory!GroupNext]_(Theory!groupVars)
  <2>1. PleInv => WellRooted(setup)
    BY DEF PleInv, Messages, Typed, TypeOK
  <2> QED
    BY <2>1, PleStep
<1>3. Theory!GroupInit => Group!GroupInit
  BY DEF Theory!GroupInit, Group!GroupInit, Joined, Out
<1>4. [Theory!GroupNext]_(Theory!groupVars) => [Group!GroupNext]_(Group!groupVars)
  <2>1. ASSUME NEW a, NEW v, Theory!Join(a, v) PROVE Group!Join(a, v)
    BY <2>1 DEF Theory!Join, Group!Join, Theory!Mark, Group!Mark, Theory!MarkFlags,
                Group!MarkFlags, Theory!LastSync, Group!LastSync, Theory!Active,
                Group!Active, Joined, Out
  <2>2. ASSUME NEW a, Theory!Deliver(a) PROVE Group!Deliver(a)
    BY <2>2 DEF Theory!Deliver, Group!Deliver, Joined, Out
  <2>3. ASSUME NEW S, Theory!Close(S) PROVE Group!Close(S)
    BY <2>3 DEF Theory!Close, Group!Close, Theory!Vector, Group!Vector, Theory!Active,
                Group!Active, Joined, Out
  <2>4. ASSUME UNCHANGED Theory!groupVars PROVE UNCHANGED Group!groupVars
    BY <2>4 DEF Theory!groupVars, Group!groupVars, Joined, Out
  <2> QED
    BY <2>1, <2>2, <2>3, <2>4 DEF Theory!GroupNext, Group!GroupNext
<1> QED
  BY <1>1, <1>2, <1>3, <1>4, PleInvariant, PTL DEF Spec, RefinesGroupSync, Group!GroupSpec
===============================================================================
