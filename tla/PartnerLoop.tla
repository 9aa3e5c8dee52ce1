------------------------------ MODULE PartnerLoop ------------------------------
(***************************************************************************)
(* The loops of ple_locator.c over the ranks that a rank exchanges with:   *)
(* the array of their ids is filled in ascending order, and each of them   *)
(* is visited in turn with a MPI_Sendrecv, which posts a message to it and *)
(* returns when the message it posted back is there.  Nothing else orders  *)
(* the ranks, and all messages carry the same tag.                         *)
(***************************************************************************)
EXTENDS Integers, Sequences

CONSTANT Ranks    \* ids of the ranks in the communicator

ASSUME RanksAssumption == Ranks \subseteq Nat

VARIABLES
  left,     \* left[r]: the partners not yet visited in the current loop
  posted,   \* posted[r]: r is within MPI_Sendrecv with the next one
  chan      \* chan[p]: messages posted by p[1] that p[2] has not taken, in order

\* intersect_rank is ascending: the next partner is the least one.
Partner(r) == CHOOSE q \in left[r] : \A s \in left[r] : q <= s

\* Enter MPI_Sendrecv: the message m is on its way.
Post(r, m) ==
  /\ left[r] # {} /\ ~posted[r]
  /\ chan' = [chan EXCEPT ![<<r, Partner(r)>>] = Append(@, m)]
  /\ posted' = [posted EXCEPT ![r] = TRUE]

\* The partner's message is there.
Arrived(r) == left[r] # {} /\ posted[r] /\ chan[<<Partner(r), r>>] # <<>>
Incoming(r) == Head(chan[<<Partner(r), r>>])

\* Leave MPI_Sendrecv with it.
Take(r) ==
  /\ Arrived(r)
  /\ chan' = [chan EXCEPT ![<<Partner(r), r>>] = Tail(@)]
  /\ posted' = [posted EXCEPT ![r] = FALSE]
===============================================================================
