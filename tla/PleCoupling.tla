------------------------------ MODULE PleCoupling ------------------------------
(***************************************************************************)
(* ple_coupling_mpi_set_synchronize (libple/src/ple_coupling.c) with its   *)
(* messages.  The first synchronized application of the set receives the   *)
(* value of each other member in turn, then sends the vector back to each  *)
(* in turn; members run ahead of each other, and MPI keeps the order of    *)
(* the messages between two ranks only.                                    *)
(*                                                                         *)
(* The root rank of each application acts; the broadcast inside app_comm   *)
(* that ends each exchange hands its result to the other ranks unchanged.  *)
(***************************************************************************)
EXTENDS Integers, Sequences, Functions

CONSTANTS
  N,         \* number of applications of the set
  Setups,    \* sets as set_create may describe them: app_info, and how MPI_Send acts
  Flags,     \* flags a member may give: sets of names
  TimeSteps, \* time steps a member may give
  MaxRounds, \* bound on the number of calls of each member
  None

Apps == 0 .. N - 1
FlagNames == {"INIT", "NO_SYNC", "STOP", "LAST", "NEW"}
Values == [flags : SUBSET FlagNames, ts : TimeSteps \cup {0}]

ASSUME SizeAssumption == N \in Nat \ {0} /\ MaxRounds \in Nat
ASSUME OfferAssumption == Flags # {} /\ Flags \subseteq SUBSET FlagNames /\ TimeSteps # {}
\* Applications have distinct root ranks.
ASSUME SetupAssumption ==
  \A s \in Setups : \A a, b \in Apps : a # b => s.info[a * 4 + 1] # s.info[b * 4 + 1]

VARIABLES
  setup,     \* [info, leavers, eager]: the set, constant during a run
  status,    \* status[a][b]: app_status and app_timestep of b in the set of a
  pc,        \* where the root rank of each application is
  own,       \* sync_flag and time_step of the call
  idx,       \* the loop index i over the applications
  glob,      \* glob_vals
  chan,      \* messages in transit between two ranks of base_comm, in order
  rounds     \* number of calls made

vars == <<setup, status, pc, own, idx, glob, chan, rounds>>

\* What set_create puts in s->app_info when it receives the answers of the applications
\* in this order: four entries for each, its root rank, its number of ranks and, from the
\* lengths of its type and of its name, where both begin in the array of names.
NamesBefore(apps) ==
  [i \in 1 .. Len(apps) |->
     FoldFunction(+, 0, [j \in 1 .. i - 1 |-> apps[j].type + apps[j].name])]
AppInfo(apps) ==
  [k \in 1 .. 4 * Len(apps) |->
     LET i == (k + 3) \div 4
     IN CASE k % 4 = 1 -> apps[i].root
          [] k % 4 = 2 -> apps[i].ranks
          [] k % 4 = 3 -> NamesBefore(apps)[i]
          [] k % 4 = 0 -> NamesBefore(apps)[i] + apps[i].type]

Root(i) == setup.info[i * 4 + 1]
Ranks == {Root(i) : i \in Apps} \cup {setup.info[i] : i \in 1 .. N}

Synced(s) == {b \in Apps : "NO_SYNC" \notin s[b].flags}
First(S) == CHOOSE i \in S : \A j \in S : i <= j
SyncRoot(a) == First(Synced(status[a]))

\* The rank that members send to and receive from is app_info[sync_root], the entry
\* itself and not the first of the four entries of that application.
Target(a) == setup.info[SyncRoot(a) + 1]

LastSync == {"NO_SYNC", "STOP", "LAST"}
\* Mutant: after its last step, a member is still synchronized.
Mark_NotLast(s) ==
  [b \in Apps |->
     [s[b] EXCEPT !.flags = (@ \ {"INIT"})
                            \cup (IF @ \cap {"NO_SYNC", "STOP"} # {} THEN {"NO_SYNC"}
                                  ELSE {})]]

Mark(s) ==
  [b \in Apps |->
     [s[b] EXCEPT !.flags = (@ \ {"INIT"})
                            \cup (IF @ \cap LastSync # {} THEN {"NO_SYNC"} ELSE {})]]

Channel(s, d) == chan[<<s, d>>]
Post(s, d, m) == chan' = [chan EXCEPT ![<<s, d>>] = Append(@, m)]

\* MPI_Send returns at once when the message is buffered, else once it is received.
Returned(a) == setup.eager \/ \A d \in Ranks : Channel(Root(a), d) = <<>>

Blank == [flags |-> {}, ts |-> 0]
Created == [flags |-> {"INIT"}, ts |-> 0]
Unsynced(v) == [v EXCEPT !.flags = @ \cup {"NO_SYNC"}]

\* After set_create; an application may be created unsynchronized.
Init ==
  /\ setup \in Setups
  /\ \E U \in SUBSET setup.leavers :
       status = [a \in Apps |-> [b \in Apps |->
                  IF b \in U THEN Unsynced(Created) ELSE Created]]
  /\ pc = [a \in Apps |-> "idle"]
  /\ own = [a \in Apps |-> Blank]
  /\ idx = [a \in Apps |-> 0]
  /\ glob = [a \in Apps |-> [b \in Apps |-> Blank]]
  /\ chan = [p \in Ranks \X Ranks |-> <<>>]
  /\ rounds = [a \in Apps |-> 0]

\* The call: flags are updated first, and an unsynchronized member returns.
Synchronize(a) ==
  /\ pc[a] = "idle" /\ rounds[a] < MaxRounds /\ Returned(a)
  /\ rounds' = [rounds EXCEPT ![a] = @ + 1]
  /\ status' = [status EXCEPT ![a] = Mark(status[a])]
  /\ IF a \in Synced(Mark(status[a]))
     THEN /\ \E f \in Flags, t \in TimeSteps :
               /\ f \cap LastSync # {} => a \in setup.leavers
               /\ own' = [own EXCEPT ![a] = [flags |-> f, ts |-> t]]
          /\ pc' = [pc EXCEPT ![a] = IF First(Synced(Mark(status[a]))) = a
                                     THEN "collect" ELSE "send"]
          /\ idx' = [idx EXCEPT ![a] = 0]
     ELSE UNCHANGED <<own, pc, idx>>
  /\ UNCHANGED <<setup, glob, chan>>

\* Mutant: the loop over the applications goes one too far.
AtEnd_TooFar(i) == i = N
AtEnd(i) == i = N - 1

\* Mutant: the values of those that left are waited for.
Awaited_All(a) == Apps \ {a}
Awaited(a) == Synced(status[a]) \ {a}

\* The collecting member goes through the applications: it keeps the values of those
\* that are not synchronized, and receives from the others in order.
Collect(a) ==
  /\ pc[a] = "collect"
  /\ LET i == idx[a]
     IN /\ \/ /\ i \notin Awaited(a)
              /\ glob' = [glob EXCEPT ![a][i] = IF i = a THEN own[a] ELSE status[a][i]]
              /\ UNCHANGED chan
           \/ /\ i \in Awaited(a) /\ Channel(Root(i), Root(a)) # <<>>
              /\ glob' = [glob EXCEPT ![a][i] = Head(Channel(Root(i), Root(a)))[1]]
              /\ chan' = [chan EXCEPT ![<<Root(i), Root(a)>>] = Tail(@)]
        /\ idx' = [idx EXCEPT ![a] = IF AtEnd(i) THEN 0 ELSE i + 1]
        /\ pc' = [pc EXCEPT ![a] = IF AtEnd(i) THEN "distribute" ELSE "collect"]
  /\ UNCHANGED <<setup, status, own, rounds>>

\* Mutant: the vector is sent to those that left too.
Addressed_All(a) == Apps \ {a}
Addressed(a) == Synced(status[a]) \ {a}

\* ... and sends them the vector in the same order.
Distribute(a) ==
  /\ pc[a] = "distribute" /\ Returned(a)
  /\ LET i == idx[a]
     IN /\ IF i \in Addressed(a)
           THEN Post(Root(a), Root(i), [b \in 1 .. N |-> glob[a][b - 1]])
           ELSE UNCHANGED chan
        /\ idx' = [idx EXCEPT ![a] = IF AtEnd(i) THEN 0 ELSE i + 1]
        /\ pc' = [pc EXCEPT ![a] = IF AtEnd(i) THEN "save" ELSE "distribute"]
  /\ UNCHANGED <<setup, status, own, glob, rounds>>

\* Another member sends its value, and waits for the vector.
Send(a) ==
  /\ pc[a] = "send"
  /\ Post(Root(a), Target(a), <<own[a]>>)
  /\ pc' = [pc EXCEPT ![a] = "receive"]
  /\ UNCHANGED <<setup, status, own, idx, glob, rounds>>

\* A message shorter than the vector leaves the rest of glob_vals uninitialised.
Receive(a) ==
  /\ pc[a] = "receive" /\ Returned(a)
  /\ Channel(Target(a), Root(a)) # <<>>
  /\ LET msg == Head(Channel(Target(a), Root(a)))
     IN \E rest \in IF Len(msg) = N THEN {Blank} ELSE {Blank, own[a]} :
          glob' = [glob EXCEPT ![a] = [b \in Apps |-> IF b < Len(msg) THEN msg[b + 1]
                                                      ELSE rest]]
  /\ chan' = [chan EXCEPT ![<<Target(a), Root(a)>>] = Tail(@)]
  /\ pc' = [pc EXCEPT ![a] = "save"]
  /\ UNCHANGED <<setup, status, own, idx, rounds>>

\* The vector is broadcast to all ranks of the application and saved.
Save(a) ==
  /\ pc[a] = "save" /\ Returned(a)
  /\ status' = [status EXCEPT ![a] = glob[a]]
  /\ pc' = [pc EXCEPT ![a] = "idle"]
  /\ UNCHANGED <<setup, own, idx, glob, chan, rounds>>

Step(a) == \/ Synchronize(a) \/ Collect(a) \/ Distribute(a) \/ Send(a) \/ Receive(a)
           \/ Save(a)
Next == \E a \in Apps : Step(a)

Spec == Init /\ [][Next]_vars
\* Each application is a process that runs when it can.
FairSpec == Spec /\ \A a \in Apps : WF_vars(Step(a))

-------------------------------------------------------------------------------
(***************************************************************************)
(* Properties.                                                             *)
(***************************************************************************)
\* Every variable has its type.
TypeOK ==
  /\ setup \in Setups
  /\ status \in [Apps -> [Apps -> Values]] /\ glob \in [Apps -> [Apps -> Values]]
  /\ own \in [Apps -> Values]
  /\ pc \in [Apps -> {"idle", "collect", "distribute", "send", "receive", "save"}]
  /\ idx \in [Apps -> Apps] /\ rounds \in [Apps -> 0 .. MaxRounds]

\* No message is left over between two exchanges: when every call has returned the
\* network is empty, so that nothing of one exchange is taken for the next.
NothingLeft == (\A a \in Apps : pc[a] = "idle") => \A p \in DOMAIN chan : chan[p] = <<>>

\* The entry of app_info that members take for the root rank of the collecting one is
\* this rank, for each application that may come to collect: those before it may leave.
\* This is always so when the first application stays.
WellRooted(s) ==
  \A i \in Apps : i < N - 1 /\ (\A j \in 0 .. i - 1 : j \in s.leavers)
                    => s.info[i + 1] = s.info[i * 4 + 1]

\* Every member that calls gets its answer: flags are updated after each call.
SyncReturns == \A a \in Apps : pc[a] # "idle" ~> pc[a] = "idle"

\* The exchange of messages implements the atomic exchange of GroupSync.
Waiting(a) == pc[a] \in {"send", "receive", "collect"}
Sent(a) == LET r == SyncRoot(a)
           IN /\ pc[a] = "receive"
              /\ \/ Channel(Root(r), Root(a)) # <<>>
                 \/ pc[r] = "distribute" /\ idx[r] <= a
Owed(a) == IF pc[a] \in {"distribute", "save"} THEN glob[a]
           ELSE IF ~Sent(a) THEN None
           ELSE LET c == Channel(Root(SyncRoot(a)), Root(a))
                IN IF c # <<>> THEN [b \in Apps |-> Head(c)[b + 1]] ELSE glob[SyncRoot(a)]

Group == INSTANCE GroupSync WITH
  TimeSteps <- TimeSteps \cup {0},
  Offers <- [flags : Flags, ts : TimeSteps],
  Starts <- {Created, Unsynced(Created)},
  view <- status,
  joined <- [a \in Apps |-> IF Waiting(a) /\ ~Sent(a) THEN own[a] ELSE None],
  out <- [a \in Apps |-> Owed(a)]

RefinesGroupSync == Group!GroupSpec

ASSUME NoValueAssumption == None \notin Group!Values /\ None \notin [Apps -> Group!Values]
===============================================================================
