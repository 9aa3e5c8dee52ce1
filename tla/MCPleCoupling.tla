----------------------------- MODULE MCPleCoupling -----------------------------
(* Instances of PleCoupling for TLC: three applications of 2, 1 and 1 ranks.   *)
EXTENDS PleCoupling

App(root, ranks) == [root |-> root, ranks |-> ranks, type |-> 3, name |-> 2]
\* The application of rank 0 comes first, the others as they answered.
Ordered == AppInfo(<<App(0, 2), App(2, 1), App(3, 1)>>)
Shuffled == AppInfo(<<App(0, 2), App(3, 1), App(2, 1)>>)

OrderedSetups == {[info |-> Ordered, leavers |-> {0, 1, 2}, eager |-> e] : e \in BOOLEAN}
\* The first application stays to the end.
StableSetups == {[info |-> Shuffled, leavers |-> {1, 2}, eager |-> e] : e \in BOOLEAN}
PassSetups == OrderedSetups \cup StableSetups
\* It leaves.
LeavingSetups == {[info |-> Shuffled, leavers |-> {0}, eager |-> TRUE]}

\* The rank addressed is the right one in the first two only.
ASSUME RootAssumption == /\ \A s \in PassSetups : WellRooted(s)
                         /\ \A s \in LeavingSetups : ~WellRooted(s)

RunFlags == {{"NEW"}, {"NEW", "LAST"}}
===============================================================================
