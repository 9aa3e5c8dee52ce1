------------------------------- MODULE Selection -------------------------------
(* Selection in a sequence, by a set: SelectSeq as a function of its arguments.    *)
EXTENDS Integers, Sequences

\* The elements of a sequence that are in a set, in their order.
Select(s, S) ==
  LET selected[i \in 0 .. Len(s)] ==
        IF i = 0 THEN <<>>
        ELSE IF s[i] \in S THEN Append(selected[i - 1], s[i]) ELSE selected[i - 1]
  IN selected[Len(s)]
===============================================================================
