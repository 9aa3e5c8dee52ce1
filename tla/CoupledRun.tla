------------------------------ MODULE CoupledRun -------------------------------
(***************************************************************************)
(* Several instances of the code that run in one group: the time loop of   *)
(* caltri.f90 around cs_coupling_sync_apps (cs_coupling.c), which tells    *)
(* the others when an instance ends and agrees on the time step.  The      *)
(* exchange itself is that of GroupSync, which PleCoupling implements.     *)
(*                                                                         *)
(* An instance with a uniform time step (idtvar = 1) synchronizes within   *)
(* its time step (dttvar.f90), the others at its end.  Time steps are the  *)
(* apparent ones: an instance's own step times its multiplier.             *)
(***************************************************************************)
EXTENDS GroupSync, Integers, FiniteSets

CONSTANTS
  Setups,   \* groups: start, max and dt of each instance, and the sets of instances
            \* that are uniform, ale, may get control files, run out of time, or were
            \* told to stop as their SYRTHES coupling could not be set up
  MaxSteps, \* bound on the step limits
  MaxEdits  \* bound on the number of limits given by control files

ASSUME BoundAssumption == MaxSteps \in Nat /\ MaxEdits \in Nat
ASSUME StepAssumption == TimeSteps \subseteq Nat
ASSUME OfferAssumption == Offers = Values
\* Members start synchronized, and do not both lead and ask for the smallest step.
ASSUME SynchronizedAssumption ==
  \A s \in Starts : /\ s.flags \cap (LastSync \cup {"NEW"}) = {}
                    /\ ~({"TS_MIN", "TS_LEADER"} \subseteq s.flags)
ASSUME SetupAssumption ==
  \A s \in Setups : /\ s.start \in [Apps -> Starts] /\ s.max \in [Apps -> 0 .. MaxSteps]
                    /\ s.dt \in [Apps -> TimeSteps \ {0}]
                    /\ UNION {s.uniform, s.ale, s.control, s.short, s.syrthes} \subseteq Apps

VARIABLES
  setup,    \* the group, constant during a run
  pc,       \* where each instance is
  nt_cur,   \* number of steps begun since the start: ntcabs - ntpabs
  nt_max,   \* ntmabs - ntpabs
  dt,       \* the time step
  saved,    \* the step of the last checkpoint
  asked,    \* instances whose control_file asked them to stop at the current step
  late,     \* instances whose limit was raised after a last step was announced
  edits     \* number of limits given

vars == <<view, joined, out, setup, pc, nt_cur, nt_max, dt, saved, asked, late, edits>>

Least(S) == CHOOSE i \in S : \A j \in S : i <= j
Over == {"ended", "aborted", "killed"}

\* The statuses are those given at the set's creation.
Init ==
  /\ setup \in Setups
  /\ GroupInit /\ \A a \in Apps : view[a] = setup.start
  /\ pc = [a \in Apps |-> "start"] /\ nt_cur = [a \in Apps |-> 0]
  /\ nt_max = setup.max /\ dt = setup.dt
  /\ saved = [a \in Apps |-> 0]
  /\ asked = {} /\ late = {} /\ edits = 0

-------------------------------------------------------------------------------
(***************************************************************************)
(* cs_coupling_sync_apps: the flags given, and what is made of those of    *)
(* the others.                                                             *)
(***************************************************************************)
\* Mutant: the last step is not announced.
SyncFlags_NoLast(a, cur, max) ==
  (view[a][a].flags \ {"NEW", "REDO"}) \cup {f \in {"STOP"} : a \in setup.syrthes}
  \cup (IF cur >= max THEN {"STOP"} ELSE {"NEW"})

\* Mutant: the end is not announced.
SyncFlags_NoEnd(a, cur, max) ==
  (view[a][a].flags \ {"NEW", "REDO"}) \cup {f \in {"STOP"} : a \in setup.syrthes} \cup {"NEW"}

\* The current status, with: end of the calculation, new iteration, last iteration.
SyncFlags(a, cur, max) ==
  (view[a][a].flags \ {"NEW", "REDO"}) \cup {f \in {"STOP"} : a \in setup.syrthes}
  \cup (IF cur >= max THEN {"STOP"} ELSE {"NEW"})
  \cup {f \in {"LAST"} : cur = max - 1}

With(s, flag) == {b \in Active(s) : flag \in s[b].flags}

\* Mutant: only a stop is heeded.
NewLimit_NoLast(a, s, cur) ==
  Least({nt_max[a]} \cup {n \in {cur} : With(s, "STOP") # {}})

\* Those that stop, or announce their last step, reduce the limit.
NewLimit(a, s, cur) ==
  Least({nt_max[a]} \cup {n \in {cur} : With(s, "STOP") # {}}
                    \cup {n \in {cur + 1} : With(s, "LAST") # {}})

\* Two leaders are an error.
Refused(s) == Cardinality(With(s, "TS_LEADER")) > 1

\* Mutant: the time step of those that are in their last one is left out.
NewStep_NotLast(a, s) ==
  IF "TS_MIN" \in s[a].flags
  THEN Least({dt[a]} \cup {s[b].ts : b \in With(s, "TS_MIN") \ With(s, "LAST")})
  ELSE IF With(s, "TS_LEADER") # {} THEN s[CHOOSE b \in With(s, "TS_LEADER") : TRUE].ts
  ELSE dt[a]

\* An instance that asks for the smallest step takes it whatever the leader says.
NewStep(a, s) ==
  IF "TS_MIN" \in s[a].flags
  THEN Least({dt[a]} \cup {s[b].ts : b \in With(s, "TS_MIN") \ With(s, "TS_LEADER")})
  ELSE IF With(s, "TS_LEADER") # {} THEN s[CHOOSE b \in With(s, "TS_LEADER") : TRUE].ts
  ELSE dt[a]

\* The first half of the call, up to the exchange.
Call(a, cur, max, step) == Join(a, [flags |-> SyncFlags(a, cur, max), ts |-> step])

\* Mutant: the exchange is not waited for.
Answered_Async(a) == TRUE
Answered(a) == joined[a] = None

\* The second half; next is where the instance goes with its new limit.
Known(a) == IF out[a] # None THEN out[a] ELSE view[a]
Return(a, cur, next) ==
  /\ Answered(a)
  /\ IF out[a] # None THEN Deliver(a) ELSE UNCHANGED groupVars
  /\ IF Refused(Known(a))
     THEN /\ pc' = [pc EXCEPT ![a] = "aborted"]
          /\ UNCHANGED <<nt_max, dt>>
     ELSE /\ nt_max' = [nt_max EXCEPT ![a] = NewLimit(a, Known(a), cur)]
          /\ dt' = [dt EXCEPT ![a] = NewStep(a, Known(a))]
          /\ pc' = [pc EXCEPT ![a] = next]
  /\ UNCHANGED <<setup, nt_cur, saved, asked, late, edits>>

-------------------------------------------------------------------------------
(***************************************************************************)
(* The time loop of each instance.                                         *)
(***************************************************************************)
\* Before the loop: the first synchronization, unless there is an ALE initialisation
\* step or the step is uniform; then there must be something to do.
Start(a) ==
  /\ pc[a] = "start"
  /\ IF a \in setup.uniform \cup setup.ale
     THEN /\ pc' = [pc EXCEPT ![a] = IF a \in setup.ale THEN "init" ELSE "test"]
          /\ UNCHANGED groupVars
     ELSE /\ Call(a, nt_cur[a], nt_max[a], dt[a])
          /\ pc' = [pc EXCEPT ![a] = "first"]
  /\ UNCHANGED <<setup, nt_cur, nt_max, dt, saved, asked, late, edits>>

FirstReturn(a) == pc[a] = "first" /\ Return(a, nt_cur[a], "test")

TestStart(a) ==
  /\ pc[a] = "test"
  /\ pc' = [pc EXCEPT ![a] = IF nt_max[a] = nt_cur[a] THEN "aborted" ELSE "loop"]
  /\ UNCHANGED <<groupVars, setup, nt_cur, nt_max, dt, saved, asked, late, edits>>

\* A step begins, and the control file is read; max_time_step does not go back in time.
BeginStep(a) ==
  /\ pc[a] \in {"init", "loop"}
  /\ LET cur == nt_cur[a] + (IF pc[a] = "loop" THEN 1 ELSE 0)
     IN /\ nt_cur' = [nt_cur EXCEPT ![a] = cur]
        /\ \/ UNCHANGED <<nt_max, asked, late, edits>>
           \/ /\ a \in setup.control /\ edits < MaxEdits
              /\ edits' = edits + 1
              /\ \E n \in 0 .. MaxSteps :
                   /\ nt_max' = [nt_max EXCEPT ![a] = IF n < cur THEN cur ELSE n]
                   /\ asked' = asked \cup {b \in {a} : n <= cur}
                   /\ late' = late \cup {b \in {a} : n > nt_max[a] /\
                                           \E c \in Apps : "LAST" \in view[a][c].flags}
  /\ pc' = [pc EXCEPT ![a] = IF a \in setup.uniform THEN "begun" ELSE "step"]
  /\ UNCHANGED <<groupVars, setup, dt, saved>>

\* A uniform time step is computed within the step, and synchronized for the step
\* that ends; a limit that is already passed is an abrupt end.
Uniform(a) ==
  /\ pc[a] = "begun"
  /\ \E t \in TimeSteps \ {0} :
       /\ dt' = [dt EXCEPT ![a] = t]
       /\ Call(a, nt_cur[a] - 1, nt_max[a], t)
  /\ pc' = [pc EXCEPT ![a] = "early"]
  /\ UNCHANGED <<setup, nt_cur, nt_max, saved, asked, late, edits>>

UniformReturn(a) ==
  /\ pc[a] = "early"
  /\ Return(a, nt_cur[a] - 1,
            IF NewLimit(a, Known(a), nt_cur[a] - 1) < nt_cur[a] THEN "aborted" ELSE "step")

\* At the end of the step: time may be short; then the synchronization.
EndStep(a) ==
  /\ pc[a] = "step"
  /\ \E max \in {nt_max[a]} \cup {n \in {nt_cur[a]} : a \in setup.short} :
       /\ nt_max' = [nt_max EXCEPT ![a] = max]
       /\ IF a \in setup.uniform
          THEN /\ pc' = [pc EXCEPT ![a] = "save"]
               /\ UNCHANGED groupVars
          ELSE /\ Call(a, nt_cur[a], max, dt[a])
               /\ pc' = [pc EXCEPT ![a] = "last"]
  /\ UNCHANGED <<setup, nt_cur, dt, saved, asked, late, edits>>

StepReturn(a) == pc[a] = "last" /\ Return(a, nt_cur[a], "save")

\* Mutant: the checkpoint of the last step is tested too late.
CheckpointDue_Past(a) == nt_cur[a] > nt_max[a]
CheckpointDue(a) == nt_cur[a] >= nt_max[a]

\* Mutant: the loop goes on when the limit is reached.
GoesOn_AtLimit(a) == nt_cur[a] <= nt_max[a]
GoesOn(a) == nt_cur[a] < nt_max[a]

\* The checkpoint takes time; then the loop goes on or ends, for a uniform step with
\* a last synchronization.
Finish(a) ==
  IF GoesOn(a)
  THEN pc' = [pc EXCEPT ![a] = "loop"] /\ UNCHANGED groupVars
  ELSE IF a \in setup.uniform
  THEN /\ \E t \in TimeSteps \ {0} : Call(a, nt_cur[a], nt_max[a], t)
       /\ pc' = [pc EXCEPT ![a] = "final"]
  ELSE pc' = [pc EXCEPT ![a] = "ended"] /\ UNCHANGED groupVars

TestCheckpoint(a) ==
  /\ pc[a] = "save"
  /\ IF CheckpointDue(a)
     THEN pc' = [pc EXCEPT ![a] = "saving"] /\ UNCHANGED groupVars
     ELSE Finish(a)
  /\ UNCHANGED <<setup, nt_cur, nt_max, dt, saved, asked, late, edits>>

Save(a) ==
  /\ pc[a] = "saving"
  /\ saved' = [saved EXCEPT ![a] = nt_cur[a]]
  /\ Finish(a)
  /\ UNCHANGED <<setup, nt_cur, nt_max, dt, asked, late, edits>>

FinalReturn(a) == pc[a] = "final" /\ Return(a, nt_cur[a], "ended")

Step(a) == \/ Start(a) \/ FirstReturn(a) \/ TestStart(a) \/ BeginStep(a) \/ Uniform(a)
           \/ UniformReturn(a) \/ EndStep(a) \/ StepReturn(a)
           \/ TestCheckpoint(a) \/ Save(a) \/ FinalReturn(a)

\* The exchange of a group is complete.
Exchange == /\ \E S \in SUBSET Apps : Close(S)
            /\ UNCHANGED <<setup, pc, nt_cur, nt_max, dt, saved, asked, late, edits>>

\* MPI_Abort in one instance ends the job.
Killed(a) ==
  /\ pc[a] \notin Over /\ \E b \in Apps : pc[b] = "aborted"
  /\ pc' = [pc EXCEPT ![a] = "killed"]
  /\ UNCHANGED <<groupVars, setup, nt_cur, nt_max, dt, saved, asked, late, edits>>

Next == Exchange \/ \E a \in Apps : Step(a) \/ Killed(a)

Spec == Init /\ [][Next]_vars
\* Instances are processes that run; an exchange that can close does; an abort kills.
FairSpec == Spec /\ WF_vars(Exchange) /\ \A a \in Apps : WF_vars(Step(a)) /\ WF_vars(Killed(a))

-------------------------------------------------------------------------------
(***************************************************************************)
(* Properties.                                                             *)
(***************************************************************************)
\* Every variable has its type, and the step is at most one step past the limit.
TypeOK ==
  /\ GroupTypeOK /\ setup \in Setups
  /\ pc \in [Apps -> {"start", "first", "test", "init", "loop", "begun", "early", "step",
                      "last", "save", "saving", "final"} \cup Over]
  /\ nt_cur \in [Apps -> 0 .. MaxSteps] /\ nt_max \in [Apps -> -1 .. MaxSteps]
  /\ dt \in [Apps -> TimeSteps \ {0}] /\ saved \in [Apps -> 0 .. MaxSteps]
  /\ asked \subseteq Apps /\ late \subseteq Apps
  /\ edits \in 0 .. MaxEdits

\* The last step that an instance has solved; within an initialisation step, none yet.
Done(b) == IF pc[b] \in {"begun", "early", "step"} THEN nt_cur[b] - 1 ELSE nt_cur[b]

\* Those that a and b both know as synchronized take part in the same exchanges.
Together(a, b) == {a, b} \subseteq Active(view[a]) \cap Active(view[b])

\* When an instance solves a step, those it is synchronized with have finished the one
\* before, whatever they do meanwhile (cs_coupling_sync_apps comes before a new time
\* step).  It needs instances that are Alike; an abrupt end may come within a step.
Lockstep ==
  \A a, b \in Apps :
    pc[a] \in {"step", "save"} /\ Together(a, b) /\ pc[b] \notin {"aborted", "killed"}
      => Done(b) >= nt_cur[a] - 1

\* Synchronizing in the initialisation step of ALE too puts an instance with a uniform
\* time step one exchange ahead of its steps: either all such instances do, or none.
Alike(s) == \A a, b \in Apps : a \in s.uniform \cap s.ale <=> b \in s.uniform \cap s.ale

\* Instances that end by themselves end at the same step, unless the user raises the
\* limit of one of them after a last step was announced.
CommonEnd ==
  \A a, b \in Apps : pc[a] = "ended" /\ pc[b] = "ended" =>
    nt_cur[a] = nt_cur[b] \/ a \in late \/ b \in late

\* A step that was not announced as the last may be made so by a lack of time, or by the
\* control file of an instance that synchronizes at the end of its steps: those that do
\* so earlier have begun the next one.  In an initialisation step there is nothing yet.
Sudden(s) == s.short \cup (s.control \ s.uniform)
Foreseen(s) == /\ s.ale \cap (s.control \cup s.short) = {}
               /\ \A a \in Sudden(s) : s.uniform \subseteq {a}
Usual(s) == s.syrthes = {} /\ Foreseen(s) /\ \A a \in Apps : s.max[a] # 0
OneLeader(s) == \E b \in Apps : \A a \in Apps : "TS_LEADER" \in s.start[a].flags => a = b

\* No instance ends abruptly, and takes the others with it, but when there is nothing
\* to do or no coupling from the start, or two leaders prescribe the time step.
OnlyRefusedAbort ==
  \A a \in Apps : pc[a] = "aborted" =>
    Refused(view[a]) \/ setup.syrthes # {} \/ \E b \in Apps : setup.max[b] = 0

\* Between two exchanges an instance follows the rule it has asked for.
Between(a) == pc[a] \in {"loop", "begun", "step", "save", "saving"}
Follows(a, rule) ==
  CASE rule = "min"    -> "TS_MIN" \in view[a][a].flags
    [] rule = "leader" -> "TS_MIN" \notin view[a][a].flags
                          /\ With(view[a], "TS_LEADER") # {}

\* Of the instances that learned of the same exchange, those that ask for the smallest
\* time step use the same one until the next, and so do those that leave it to the
\* leader.  The two may differ: the smallest is taken after the step of the leader
\* (cs_coupling.c:547), though ple_coupling.h has the leader "prescribe time step for all
\* members of group".
SameTimeStep ==
  \A a, b \in Apps : \A rule \in {"min", "leader"} :
    /\ Between(a) /\ Between(b) /\ view[a] = view[b] /\ {a, b} \subseteq With(view[a], "NEW")
    /\ Follows(a, rule) /\ Follows(b, rule)
    => dt[a] = dt[b]

\* An instance told by its control_file to stop at the current step stops with the
\* checkpoint of that step.
StopsProperly == \A a \in asked : pc[a] \in Over => saved[a] = nt_cur[a]

\* Every instance comes to its end.
Terminates == \A a \in Apps : <>(pc[a] \in Over)
===============================================================================
