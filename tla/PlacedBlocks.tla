------------------------------ MODULE PlacedBlocks ------------------------------
(***************************************************************************)
(* What the writers of a file promise together: each block is written      *)
(* once, entirely and at its place.  A file is a function of positions.    *)
(***************************************************************************)
EXTENDS Functions

VARIABLES blocks,    \* the positions of each block, constant during a run
          contents,  \* what is to be at each position, constant too
          file

vars == <<blocks, contents, file>>

Init == file = <<>>

Write == \E block \in blocks :
  /\ block \cap DOMAIN file = {}
  /\ file' = Restrict(contents, DOMAIN file \cup block)
  /\ UNCHANGED <<blocks, contents>>

Spec == Init /\ [][Write]_vars
=================================================================================
