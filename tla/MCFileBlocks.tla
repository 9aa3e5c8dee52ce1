----------------------------- MODULE MCFileBlocks -----------------------------
(* Instances of FileBlocks for TLC: a header, a section of one value, and sections of *)
(* several values for each entity, some with fewer entities than ranks or with none.  *)
EXTENDS FileBlocks

Align(header) == [op |-> "align", to |-> 4, header |-> header]
Header == [op |-> "global", n |-> 3]
Section(n, stride) == [op |-> "block", n |-> n, stride |-> stride]

Calls ==
  <<Header, Align(FALSE), Section(5, 2), Align(TRUE), Section(2, 1), Section(0, 1), Header>>

Setup(n, step, min, how, buffered) ==
  [n_ranks |-> n, step |-> step, min_block |-> min, method |-> how, calls |-> Calls,
   buffered |-> buffered]

\* Files that are read by more ranks, fewer ranks, with or without idle ranks.
FileSetups ==
  {Setup(<<3, 3>>, <<1, 1>>, <<1, 1>>, <<"serial", "serial">>, b) : b \in BOOLEAN}
    \cup {Setup(<<4, 2>>, <<2, 1>>, <<1, 1>>, <<"serial", "parallel">>, TRUE),
          Setup(<<3, 4>>, <<1, 1>>, <<2, 2>>, <<"mpi", "serial">>, FALSE),
          Setup(<<1, 3>>, <<1, 2>>, <<1, 1>>, <<"serial", "parallel">>, TRUE),
          Setup(<<4, 1>>, <<1, 1>>, <<1, 1>>, <<"mpi", "serial">>, TRUE),
          Setup(<<3, 4>>, <<2, 2>>, <<1, 1>>, <<"serial", "serial">>, TRUE),
          Setup(<<4, 4>>, <<1, 2>>, <<2, 1>>, <<"mpi", "parallel">>, TRUE),
          Setup(<<2, 3>>, <<1, 1>>, <<1, 1>>, <<"serial", "mpi">>, FALSE)}
===============================================================================
