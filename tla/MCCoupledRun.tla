----------------------------- MODULE MCCoupledRun ------------------------------
(* Groups of instances for TLC.                                                *)
EXTENDS CoupledRun, TLC

CONSTANTS a1, a2, a3

AllValues == Values
Status(flags) == [flags |-> {"INIT"} \cup flags, ts |-> 0]
Free == Status({})
Minimum == Status({"TS_MIN"})
Leader == Status({"TS_LEADER"})
RunStarts == {Free, Minimum, Leader}

For(x, y, z) == a1 :> x @@ a2 :> y @@ a3 :> z

\* No uniform time step: any instance may be stopped, by any means.
FixedGroup ==
  [start |-> For(Minimum, Minimum, Leader), max |-> For(2, 3, 3), dt |-> For(2, 1, 2),
   uniform |-> {}, ale |-> {a2}, control |-> {a1, a3}, short |-> {a1, a3},
   syrthes |-> {}]
\* Uniform time steps only, whose limits the user changes.
UniformGroup ==
  [start |-> For(Minimum, Minimum, Free), max |-> For(2, 3, 3), dt |-> For(1, 1, 1),
   uniform |-> {a1, a2, a3}, ale |-> {}, control |-> {a1, a2, a3}, short |-> {},
   syrthes |-> {}]
\* One uniform time step, which leads; only that instance may be stopped.
MixedGroup ==
  [start |-> For(Leader, Free, Minimum), max |-> For(3, 3, 2), dt |-> For(1, 1, 2),
   uniform |-> {a1}, ale |-> {a2}, control |-> {a1}, short |-> {a1}, syrthes |-> {}]
\* Two leaders; nothing to do; no coupling with SYRTHES.
RefusedGroup ==
  [MixedGroup EXCEPT !.start = For(Leader, Leader, Free), !.control = {}]
IdleGroup ==
  [MixedGroup EXCEPT !.max = For(0, 2, 2), !.uniform = {a3}, !.ale = {}, !.control = {}]
LostGroup == [IdleGroup EXCEPT !.max = For(3, 3, 3), !.syrthes = {a2}]
PassGroups == {FixedGroup, UniformGroup, MixedGroup, RefusedGroup, IdleGroup, LostGroup}

\* Uniform and fixed time steps, and a control file for one of the fixed ones.
StoppedGroups == {[MixedGroup EXCEPT !.control = {a2}, !.ale = {}, !.short = {}]}

\* What the theorems of CoupledRunProofs ask of the groups; StoppedGroups have an end that
\* an instance with a uniform time step does not foresee.
ASSUME HypothesisAssumption ==
  /\ \A s \in PassGroups :
       /\ Alike(s)
       /\ Foreseen(s) \/ s.syrthes # {} \/ \E b \in Apps : s.max[b] = 0
       /\ s.control = {} \/ (Usual(s) /\ OneLeader(s))
  /\ {FixedGroup, UniformGroup, MixedGroup} = {s \in PassGroups : Usual(s) /\ OneLeader(s)}
  /\ \A s \in StoppedGroups : ~Foreseen(s)
===============================================================================
