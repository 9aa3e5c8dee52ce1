-------------------------------- MODULE MCLocator --------------------------------
(* Instances of Locator for TLC: two applications of two ranks each, and one that is *)
(* coupled with itself.                                                              *)
EXTENDS Locator

By(a, b, c, d) == (0 :> a) @@ (1 :> b) @@ (2 :> c) @@ (3 :> d)
A == {0, 1}
B == {2, 3}
Sides == By(B, B, A, A)

Pass(rev, d, l) == [reverse |-> rev, dist |-> d, loc |-> l]
Forward == Pass(FALSE, Ranks, Ranks)
Backward == Pass(TRUE, Ranks, Ranks)

\* Elements at the same distance on two ranks, ranks without points or elements, which
\* have extents in common; a variable for one side only.
Ties ==
  [far |-> Sides, pts |-> By(<<5, 1>>, <<>>, <<2, 6>>, <<7>>),
   elts |-> By(<<0, 4>>, <<8>>, <<6, 2>>, <<>>), tol |-> By(3, 3, 3, 3),
   nearest |-> TRUE, calls |-> <<Forward, Pass(TRUE, A, B)>>]

\* Tolerances that differ, and points that stay without location between others.
Exterior ==
  [far |-> Sides, pts |-> By(<<90, 5, 50, 1>>, <<3, 60>>, <<40>>, <<9, 30, 11>>),
   elts |-> By(<<8>>, <<12>>, <<3>>, <<6>>), tol |-> By(2, 2, 3, 4),
   nearest |-> FALSE, calls |-> <<Pass(FALSE, B, A), Backward>>]

\* One search, or two extensions: at each of them the points of a rank that have not been
\* located yet are its first ones.
Extended ==
  [far |-> Sides, pts |-> By(<<30, 3>>, <<20>>, <<8, 9>>, <<>>),
   elts |-> By(<<22>>, <<>>, <<2>>, <<17, 24>>), tol |-> By(2, 2, 2, 2),
   nearest |-> TRUE, calls |-> <<Forward, Backward>>]

\* Each rank may exchange with all of them, itself included.
Self ==
  [far |-> By(Ranks, Ranks, Ranks, Ranks), pts |-> By(<<3>>, <<1, 6>>, <<6>>, <<9>>),
   elts |-> By(<<0>>, <<2, 8>>, <<5>>, <<>>), tol |-> By(3, 3, 3, 3),
   nearest |-> FALSE, calls |-> <<Forward, Backward>>]

\* The ranks of A pass no array for the values that those of B send them.
Mismatch == [Ties EXCEPT !.calls = <<Pass(FALSE, Ranks, B)>>]

Nothing == [Ties EXCEPT !.pts = By(<<>>, <<>>, <<>>, <<>>)]

PairSetups == {Ties, Exterior, Extended, Self, Mismatch, Nothing}

\* A rank with a point located by the first search, and another point by the extension.
PartlySetups ==
  {[Extended EXCEPT !.pts = By(<<3, 30>>, <<20>>, <<21>>, <<>>)]}

\* What the theorem about the nearest elements asks for.
ASSUME OrderAssumption ==
  /\ \A s \in PairSetups : InOrder(s, 0 .. 4)
  /\ \A s \in PartlySetups : ~InOrder(s, 0 .. 4)
===============================================================================
