------------------------------- MODULE BlockDist -------------------------------
(***************************************************************************)
(* The distribution of n_g_ents entities, numbered from 1, into contiguous *)
(* blocks owned by the ranks that are multiples of rank_step               *)
(* (cs_block_dist.c), for n_ranks ranks numbered from 0.                   *)
(***************************************************************************)
EXTENDS Integers

\* Floor of a/b as in C, for naturals; the number of ranks with blocks, for a given step.
ActiveRanks(n_ranks, step) == n_ranks \div step

\* The condition of the loop that doubles the step until blocks are large enough.
TooSmall(n_ranks, step, min_block_size, n_g_ents) ==
  LET active == ActiveRanks(n_ranks, step)
  IN  /\ n_g_ents \div active < (IF min_block_size > 1 THEN min_block_size ELSE 1)
      /\ active > 1
      /\ step < n_ranks

\* The step with which the loop ends.  min_rank_step is at most n_ranks: it comes from
\* cs_file_set_default_comm, and with more, no rank would have a block.
RankStep(n_ranks, min_rank_step, min_block_size, n_g_ents) ==
  LET loop[step \in 1 .. n_ranks] ==
        IF TooSmall(n_ranks, step, min_block_size, n_g_ents) THEN loop[2 * step] ELSE step
  IN  loop[IF min_rank_step > 1 THEN min_rank_step ELSE 1]

BlockSize(n_ranks, step, n_g_ents) ==
  LET active == ActiveRanks(n_ranks, step)
  IN  n_g_ents \div active + (IF n_g_ents % active > 0 THEN 1 ELSE 0)

\* The start of the block of a number, which is one past the end of the previous one.
Bound(k, size, n_g_ents) ==
  IF k * size + 1 > n_g_ents + 1 THEN n_g_ents + 1 ELSE k * size + 1

\* gnum_range of a rank.  A rank that is not a multiple of the step has the empty range
\* that ends the block of the rank before it.
BlockStart(rank, n_ranks, step, n_g_ents) ==
  Bound(IF rank % step = 0 THEN rank \div step ELSE rank \div step + 1,
        BlockSize(n_ranks, step, n_g_ents), n_g_ents)
BlockEnd(rank, n_ranks, step, n_g_ents) ==
  Bound(rank \div step + 1, BlockSize(n_ranks, step, n_g_ents), n_g_ents)
================================================================================
