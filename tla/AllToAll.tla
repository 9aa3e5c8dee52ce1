-------------------------------- MODULE AllToAll --------------------------------
(***************************************************************************)
(* What cs_all_to_all_exchange promises: each rank ends the exchange with  *)
(* the elements that the others gave for it, those of one source in the    *)
(* order in which they were given, and it does not end before all ranks    *)
(* have entered.  Between two exchanges a rank edits what it holds, and    *)
(* becomes the source of it.                                               *)
(***************************************************************************)
EXTENDS Integers, Sequences, Functions, Selection

VARIABLES
  ranks,    \* the ranks of the communicator, constant during a run
  held,     \* held[r]: the elements of rank r, with their source and destination
  given,    \* given[r]: what rank r gave to each of the exchanges it entered
  ended     \* ended[r]: number of exchanges that rank r has ended

exchangeVars == <<ranks, held, given, ended>>

From(s, q) == Select(s, {e \in Range(s) : e.src = q})
For(s, d)  == Select(s, {e \in Range(s) : e.dest = d})

\* s is what rank r gets out of the k-th exchange, in some order of the sources.
IsDelivery(s, r, k) ==
  /\ \A e \in Range(s) : e.src \in ranks
  /\ \A q \in ranks : From(s, q) = For(given[q][k], r)

Entered(r) == Len(given[r])
Outside(r) == Entered(r) = ended[r]
HeldChanges(r) == \A q \in ranks \ {r} : held'[q] = held[q]

ExchangeInit ==
  /\ given = [r \in ranks |-> <<>>]
  /\ ended = [r \in ranks |-> 0]

Edit(r) ==
  /\ Outside(r) /\ HeldChanges(r)
  /\ UNCHANGED <<ranks, given, ended>>

Enter(r) ==
  /\ Outside(r) /\ \A e \in Range(held[r]) : e.src = r /\ e.dest \in ranks
  /\ given' = [given EXCEPT ![r] = Append(@, held[r])]
  /\ UNCHANGED <<ranks, held, ended>>

End(r) ==
  /\ ~Outside(r) /\ \A q \in ranks : Entered(q) > ended[r]
  /\ HeldChanges(r) /\ IsDelivery(held'[r], r, ended[r] + 1)
  /\ ended' = [ended EXCEPT ![r] = @ + 1]
  /\ UNCHANGED <<ranks, given>>

ExchangeNext == \E r \in ranks : Edit(r) \/ Enter(r) \/ End(r)
ExchangeSpec == ExchangeInit /\ [][ExchangeNext]_exchangeVars
===============================================================================
