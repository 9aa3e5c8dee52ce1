----------------------------- MODULE CrystalRouter -----------------------------
(***************************************************************************)
(* The crystal router of cs_all_to_all.c, with its messages, and the round *)
(* trip for which the mesh joining uses it (_get_local_o2n_vtx_gnum of     *)
(* cs_join.c): the global numbers of the local vertices go to the ranks    *)
(* that own their blocks, are replaced there by the new numbers, and come  *)
(* back.                                                                   *)
(*                                                                         *)
(* At each stage a group of ranks splits in two.  A rank keeps the elements*)
(* for its half and sends the others to its partner in the other half; in  *)
(* a group of odd size the last rank has no partner of its own: it sends   *)
(* to that of its neighbour, and receives nothing.                         *)
(***************************************************************************)
EXTENDS Integers, Sequences, SequencesExt, Functions, Selection

CONSTANTS
  Setups,   \* gnum: global numbers of the vertices of each rank; block: block size;
            \* eager: how MPI_Isend acts
  NewGnum   \* the new number of each global number: new_gnum_by_block

\* Each global number is in the block of a rank.  With a single rank there is nothing to
\* exchange.
ASSUME SetupAssumption ==
  \A s \in Setups :
    /\ s.gnum \in Seq(Seq(Nat \ {0})) /\ Len(s.gnum) > 1 /\ s.block \in Nat \ {0}
    /\ \A r \in 1 .. Len(s.gnum) : \A k \in 1 .. Len(s.gnum[r]) :
         (s.gnum[r][k] - 1) \div s.block < Len(s.gnum)

VARIABLES
  setup,    \* constant during a run
  pc,       \* where each rank is
  buffer,   \* buffer[r]: the elements of buffer[0]
  sent,     \* sent[r]: those of buffer[1], which are to be sent
  size0,    \* sizes of the two buffers, in elements
  size1,
  b_low,    \* first rank of the group
  n_sub,    \* n_sub_ranks: size of the group
  got,      \* got[r]: what the receives of a MPI_Waitall brought so far
  chan,     \* messages in transit between two ranks, in order
  given,    \* the elements that each rank gave to each exchange (history)
  ended     \* number of exchanges ended

group == <<b_low, n_sub>>
vars == <<setup, pc, buffer, sent, size0, size1, group, got, chan, given, ended>>

N == Len(setup.gnum)
Ranks == 0 .. N - 1
Larger(a, b) == IF a >= b THEN a ELSE b
Gnum(r) == setup.gnum[r + 1]

-------------------------------------------------------------------------------
\* The rank of an element's block.
DestRank(g) == (g - 1) \div setup.block

\* The elements with their metadata: destination and source rank.
Created(r) ==
  [k \in 1 .. Len(Gnum(r)) |->
     [dest |-> DestRank(Gnum(r)[k]), src |-> r, val |-> Gnum(r)[k]]]

Init ==
  /\ setup \in Setups
  /\ pc = [r \in Ranks |-> "enter"]
  /\ buffer = [r \in Ranks |-> Created(r)]
  /\ sent = [r \in Ranks |-> <<>>]
  /\ size0 = [r \in Ranks |-> Len(Gnum(r))] /\ size1 = [r \in Ranks |-> 0]
  /\ b_low = [r \in Ranks |-> 0] /\ n_sub = [r \in Ranks |-> N]
  /\ got = [r \in Ranks |-> <<>>]
  /\ chan = [p \in Ranks \X Ranks |-> <<>>]
  /\ given = [r \in Ranks |-> <<>>] /\ ended = [r \in Ranks |-> 0]

-------------------------------------------------------------------------------
(***************************************************************************)
(* _crystal_exchange_strided: one stage.                                   *)
(***************************************************************************)
n_low(r)  == n_sub[r] \div 2
b_high(r) == b_low[r] + n_low(r)
IsLow(r)  == r < b_high(r)

\* The rank that has no partner of its own.
IsLast(r) == ~IsLow(r) /\ r - n_low(r) = b_high(r)

\* Mutant: the last rank of an odd group sends to the first of the upper half.
target_Shifted(r) == IF IsLow(r) THEN r + n_low(r) ELSE r - n_low(r)
target(r) == IF IsLow(r) THEN r + n_low(r)
             ELSE IF IsLast(r) THEN b_high(r) - 1 ELSE r - n_low(r)

\* Mutant: the last rank of an odd group waits for an answer.
n_recv_Last(r) == IF IsLow(r) /\ n_sub[r] % 2 = 1 /\ r = b_high(r) - 1 THEN 2 ELSE 1

n_recv(r) == IF IsLow(r) /\ n_sub[r] % 2 = 1 /\ r = b_high(r) - 1 THEN 2
             ELSE IF IsLast(r) THEN 0 ELSE 1

Sources(r) == target(r) .. target(r) + n_recv(r) - 1

Post(r, q, m) == chan' = [chan EXCEPT ![<<r, q>>] = Append(@, m)]

\* An MPI_Isend is complete at once, or once its message is received.
SendDone(r) == setup.eager \/ chan[<<r, target(r)>>] = <<>>
Waitall(r) == DOMAIN got[r] = Sources(r) /\ SendDone(r)

Enter(r) ==
  /\ pc[r] = "enter"
  /\ given' = [given EXCEPT ![r] = Append(@, buffer[r])]
  /\ b_low' = [b_low EXCEPT ![r] = 0] /\ n_sub' = [n_sub EXCEPT ![r] = N]
  /\ pc' = [pc EXCEPT ![r] = "stage"]
  /\ UNCHANGED <<setup, buffer, sent, size0, size1, got, chan, ended>>

\* Mutant: the cutoff rank is taken with the lower half.
Keeps_Cutoff(r, e) == IF IsLow(r) THEN e.dest <= b_high(r) ELSE e.dest > b_high(r)
Keeps(r, e) == IF IsLow(r) THEN e.dest < b_high(r) ELSE e.dest >= b_high(r)

Kept(r) == Select(buffer[r], {e \in Range(buffer[r]) : Keeps(r, e)})
Others(r) == Select(buffer[r], {e \in Range(buffer[r]) : ~Keeps(r, e)})

\* The elements are partitioned in place; the number of those to send goes first.
Partition(r) ==
  /\ pc[r] = "stage"
  /\ buffer' = [buffer EXCEPT ![r] = Kept(r)]
  /\ sent' = [sent EXCEPT ![r] = Others(r)]
  /\ size1' = [size1 EXCEPT ![r] = Larger(@, size0[r])]
  /\ Post(r, target(r), [n |-> Len(Others(r))])
  /\ got' = [got EXCEPT ![r] = <<>>]
  /\ pc' = [pc EXCEPT ![r] = "counts"]
  /\ UNCHANGED <<setup, size0, group, given, ended>>

Receive(r) ==
  /\ pc[r] \in {"counts", "data"}
  /\ \E q \in Sources(r) \ DOMAIN got[r] :
       /\ chan[<<q, r>>] # <<>>
       /\ got' = [got EXCEPT ![r] = [p \in DOMAIN @ \cup {q} |->
                    IF p = q THEN Head(chan[<<q, r>>]) ELSE @[p]]]
       /\ chan' = [chan EXCEPT ![<<q, r>>] = Tail(@)]
  /\ UNCHANGED <<setup, pc, buffer, sent, size0, size1, group, given, ended>>

\* Mutant: room is made for the first of two sources only.
Incoming_First(r) ==
  IF target(r) \in Sources(r) THEN got[r][target(r)].n ELSE 0
Incoming(r) ==
  LET recv_size(i) == got[r][target(r) + i].n
  IN  CASE n_recv(r) = 0 -> 0
        [] n_recv(r) = 1 -> recv_size(0)
        [] n_recv(r) = 2 -> recv_size(0) + recv_size(1)

\* All counts are known: the first buffer grows if need be, and the elements are sent.
SendData(r) ==
  /\ pc[r] = "counts" /\ Waitall(r)
  /\ size0' = [size0 EXCEPT ![r] = Larger(@, Len(buffer[r]) + Incoming(r))]
  /\ Post(r, target(r), [elts |-> sent[r]])
  /\ got' = [got EXCEPT ![r] = <<>>]
  /\ pc' = [pc EXCEPT ![r] = "data"]
  /\ UNCHANGED <<setup, buffer, sent, size1, group, given, ended>>

\* What was received comes after what was kept, in the order of the sources.
Received(r) ==
  FlattenSeq([i \in 1 .. n_recv(r) |-> got[r][target(r) + i - 1].elts])

\* The rank goes on in its half of the group.
NextLow(r)  == IF IsLow(r) THEN b_low[r] ELSE b_high(r)
\* Mutant: the upper half is taken as large as the lower one.
NextSize_Low(r) == n_low(r)
NextSize(r) == IF IsLow(r) THEN n_low(r) ELSE n_sub[r] - n_low(r)

\* Alone in its group, it has ended the exchange and the second buffer is freed.
EndStage(r) ==
  /\ pc[r] = "data" /\ Waitall(r)
  /\ buffer' = [buffer EXCEPT ![r] = @ \o Received(r)]
  /\ sent' = [sent EXCEPT ![r] = <<>>]
  /\ got' = [got EXCEPT ![r] = <<>>]
  /\ b_low' = [b_low EXCEPT ![r] = NextLow(r)]
  /\ n_sub' = [n_sub EXCEPT ![r] = NextSize(r)]
  /\ IF NextSize(r) > 1
     THEN /\ pc' = [pc EXCEPT ![r] = "stage"]
          /\ UNCHANGED <<size1, ended>>
     ELSE /\ pc' = [pc EXCEPT ![r] = IF ended[r] = 0 THEN "edit" ELSE "sort"]
          /\ size1' = [size1 EXCEPT ![r] = 0]
          /\ ended' = [ended EXCEPT ![r] = @ + 1]
  /\ UNCHANGED <<setup, size0, chan, given>>

-------------------------------------------------------------------------------
\* The owner of a block replaces the numbers, then source and destination are swapped.
Edited(e) == [e EXCEPT !.val = NewGnum[@], !.src = e.dest, !.dest = e.src]

Edit(r) ==
  /\ pc[r] = "edit"
  /\ buffer' = [buffer EXCEPT ![r] = [k \in DOMAIN @ |-> Edited(@[k])]]
  /\ pc' = [pc EXCEPT ![r] = "enter"]
  /\ UNCHANGED <<setup, sent, size0, size1, group, got, chan, given, ended>>

\* Mutant: the elements are left in the order of their arrival.
BySource_None(s) == s
\* qsort with a comparison of source ranks, then of addresses: where it is a merge
\* sort, as in glibc, elements of one source stay in order.
BySource(s) ==
  FlattenSeq([i \in 1 .. N |-> Select(s, {e \in Range(s) : e.src = i - 1})])

Sort(r) ==
  /\ pc[r] = "sort"
  /\ buffer' = [buffer EXCEPT ![r] = BySource(@)]
  /\ pc' = [pc EXCEPT ![r] = "done"]
  /\ UNCHANGED <<setup, sent, size0, size1, group, got, chan, given, ended>>

Step(r) == \/ Enter(r) \/ Partition(r) \/ Receive(r) \/ SendData(r) \/ EndStage(r)
           \/ Edit(r) \/ Sort(r)

\* All ranks have their elements back.
AllDone == \A r \in Ranks : pc[r] = "done"

Next == \E r \in Ranks : Step(r)
Spec == Init /\ [][Next]_vars
\* Each rank is a process that runs when it can.
FairSpec == Spec /\ WF_vars(\E r \in Ranks : Step(r))

-------------------------------------------------------------------------------
(***************************************************************************)
(* Properties.                                                             *)
(***************************************************************************)
\* A rank is in its group, an interval of ranks of the communicator.
GroupsOK ==
  /\ b_low \in [Ranks -> Nat] /\ n_sub \in [Ranks -> Nat]
  /\ \A r \in Ranks : /\ b_low[r] <= r /\ r < b_low[r] + n_sub[r]
                      /\ b_low[r] + n_sub[r] <= N

\* Every variable has its type.
TypeOK ==
  /\ setup \in Setups /\ GroupsOK
  /\ \A r \in Ranks :
       /\ pc[r] \in {"enter", "stage", "counts", "data", "edit", "sort", "done"}
       /\ \A e \in Range(buffer[r]) : e.src \in Ranks /\ e.dest \in Ranks
       /\ ended[r] \in 0 .. 2

\* In a group of any size, odd ones included, a rank waits for messages from the ranks
\* that send to it, and from no other (_crystal_exchange_strided).
Pairing ==
  \A r, q \in Ranks :
    b_low[q] = b_low[r] /\ n_sub[q] = n_sub[r] /\ n_sub[r] > 1
      => (target(q) = r <=> q \in Sources(r))

\* The elements in a buffer, and those that a receive has announced, fit in it.
NoOverflow ==
  \A r \in Ranks :
    /\ Len(sent[r]) <= size1[r]
    /\ pc[r] = "data" /\ DOMAIN got[r] = Sources(r)
         => Len(buffer[r]) + Len(Received(r)) <= size0[r]
    /\ Len(buffer[r]) <= size0[r]

\* After the sort, each rank holds what it would hold with the default algorithm,
\* MPI_Alltoallv, which receives by order of source rank (cs_all_to_all_sort_by_source_rank).
Alltoallv(b) ==
  [d \in Ranks |-> FlattenSeq([i \in 1 .. N |->
                     Select(b[i - 1], {e \in Range(b[i - 1]) : e.dest = d})])]
ByDefault ==
  LET there == Alltoallv([r \in Ranks |-> Created(r)])
  IN Alltoallv([r \in Ranks |-> [k \in DOMAIN there[r] |-> Edited(there[r][k])]])
SameAsDefault(r) == buffer[r] = ByDefault[r]

InOrder(s) == \A j, k \in DOMAIN s : j < k => s[j] <= s[k]

\* After the round trip a rank holds all that it would hold with the default algorithm; if
\* its vertices are in the order of their global numbers, the i-th element has the new
\* number of the i-th vertex, as cs_join.c relies on when it takes values by position.
Renumbered ==
  \A r \in Ranks : pc[r] = "done" =>
    /\ InOrder(Gnum(r)) => [k \in DOMAIN buffer[r] |-> buffer[r][k].val]
                            = [k \in DOMAIN Gnum(r) |-> NewGnum[Gnum(r)[k]]]
    /\ SameAsDefault(r)

\* Every rank ends its exchanges, and no message is left behind for the next one.
Returns == <>(AllDone /\ \A p \in DOMAIN chan : chan[p] = <<>>)

\* The stages of the router implement the exchange of AllToAll.
Exchanges == INSTANCE AllToAll WITH
  ranks <- Ranks,
  held <- [r \in Ranks |-> IF Len(given[r]) > ended[r] THEN given[r][Len(given[r])]
                           ELSE buffer[r]]

RefinesAllToAll == Exchanges!ExchangeSpec
===============================================================================
